------------------------------ MODULE PreKeys ------------------------------
(***************************************************************************)
(* Pre-keys of one device: generation, upload and confirmation, rotation   *)
(* of the signed pre-key (wa-core/src/pre_keys.rs, the &mut methods of the *)
(* client) and consumption by incoming first messages.                     *)
(*                                                                         *)
(* The methods take &mut self, and the application is assumed to call them *)
(* on one handle of the client: a clone has a copy of the credentials.     *)
(* So one method runs at a time.  A store transaction never yields: it is  *)
(* one step with the assignment that follows it.  A query may fail, or its *)
(* future be dropped, before or after the server applied it, and a request *)
(* given up on may still be applied later.  The process may crash between  *)
(* any two steps.                                                          *)
(***************************************************************************)
EXTENDS Naturals, FiniteSets

CONSTANTS Initial, Min, \* INITIAL_PRE_KEY_COUNT, MIN_PRE_KEY_COUNT
          MaxId,        \* bound: pre-key ids 1 .. MaxId
          MaxMade,      \* bound: key pairs generated
          MaxLate,      \* bound: requests given up on that may still arrive
          None

ASSUME PreKeyAssumption ==
  /\ Initial \in Nat \ {0} /\ Min \in Nat \ {0}
  /\ MaxId \in Nat /\ MaxMade \in Nat /\ MaxLate \in Nat

VARIABLES creds,   \* AuthCredentials in the store
          mem,     \* self.credentials
          keys,    \* id -> key pair in the PreKey namespace, 0 for none
          made,    \* key pairs generated so far
          pc, want, batch, rotated,  \* running method: position, count, last id
                                     \* of its upload, its new signed pre-key
          pending, \* the request the client awaits, until the server takes it
          late,    \* requests given up on that may still arrive
          served, handed,  \* one-time keys of the server, and given to peers
          signed,  \* signed pre-key of the server
          used, uploaded, doubt  \* history: keys consumed, ids the server took,
                                 \* whether it may have another signed pre-key

store == <<creds, keys>>
client == <<mem, pc, want, batch, rotated>>
server == <<pending, late, served, handed, signed>>
history == <<used, uploaded, doubt>>
vars == <<store, client, made, server, history>>

Ids == 1 .. MaxId

Key == [id : Nat, pair : Nat]

Request == [keys : SUBSET Key, signed : Key]

ASSUME NoneAssumption == None \notin Request

Credentials == [next : Nat, first : Nat, signed : Key]

TypeOK ==
  /\ creds \in Credentials /\ mem \in Credentials
  /\ keys \in [Ids -> Nat] /\ made \in Nat
  /\ pc \in {"idle", "count", "prepare", "upload", "confirm", "rotate", "save"}
  /\ want \in Nat /\ batch \in Nat /\ rotated \in Key \cup {None}
  /\ pending \in Request \cup {None} /\ late \subseteq Request
  /\ served \subseteq Key /\ handed \subseteq Key /\ signed \in Key
  /\ used \subseteq Key /\ uploaded \subseteq Nat /\ doubt \in BOOLEAN

\* Pairing has registered the device with the first signed pre-key.
Init ==
  LET skey == [id |-> 1, pair |-> 1] IN
  /\ creds = [next |-> 1, first |-> 1, signed |-> skey] /\ mem = creds
  /\ keys = [id \in Ids |-> 0] /\ made = 1
  /\ pc = "idle" /\ want = 0 /\ batch = 0 /\ rotated = None
  /\ pending = None /\ late = {}
  /\ served = {} /\ handed = {} /\ signed = skey
  /\ used = {} /\ uploaded = {} /\ doubt = FALSE

\* The running method returns.
Done == pc' = "idle" /\ want' = 0 /\ batch' = 0 /\ rotated' = None

-----------------------------------------------------------------------------
(* Upload.                                                                 *)

\* upload_pre_keys, also for a key bundle without digest.
StartUpload(n) ==
  /\ pc = "idle"
  /\ pc' = "prepare" /\ want' = n
  /\ UNCHANGED <<store, mem, batch, rotated, made, server, history>>

\* upload_pre_keys_if_required asks for the count first.
StartMaintenance ==
  /\ pc = "idle"
  /\ pc' = "count"
  /\ UNCHANGED <<store, mem, want, batch, rotated, made, server, history>>

CountAnswered ==
  LET n == IF served = {} THEN Initial ELSE Min
      low == Cardinality(served) <= n
      missing == mem.next > 1 /\ keys[mem.next - 1] = 0 IN
  /\ pc = "count"
  /\ \/ (low \/ missing) /\ pc' = "prepare" /\ want' = n
     \/ ~(low \/ missing) /\ pc' = "idle" /\ want' = 0
  /\ UNCHANGED <<store, mem, batch, rotated, made, server, history>>

\* prepare_pre_keys_in_tx generates what the pending keys lack.
Missing == IF want > creds.next - creds.first
           THEN want - (creds.next - creds.first) ELSE 0

Generated ==
  [id \in Ids |-> IF id \in creds.next .. creds.next + Missing - 1
                  THEN made + 1 + (id - creds.next) ELSE keys[id]]

Batch == creds.first .. creds.first + want - 1

\* Mutant: self.credentials is not updated after the transaction.
PrepareKeepsCredentials ==
  /\ pc = "prepare"
  /\ creds.next + Missing - 1 <= MaxId /\ made + Missing <= MaxMade
  /\ \A id \in Batch : Generated[id] # 0
  /\ keys' = Generated
  /\ made' = made + Missing
  /\ creds' = [creds EXCEPT !.next = @ + Missing]
  /\ batch' = creds.first + want - 1
  /\ pending' = [keys |-> {[id |-> id, pair |-> Generated[id]] : id \in Batch},
                 signed |-> creds.signed]
  /\ pc' = "upload" /\ want' = 0
  /\ UNCHANGED <<mem, rotated, late, served, handed, signed, history>>

\* Mutant: the request is built from self.credentials.
PrepareFromMemory ==
  /\ pc = "prepare"
  /\ creds.next + Missing - 1 <= MaxId /\ made + Missing <= MaxMade
  /\ \A id \in Batch : Generated[id] # 0
  /\ keys' = Generated
  /\ made' = made + Missing
  /\ creds' = [creds EXCEPT !.next = @ + Missing]
  /\ mem' = creds'
  /\ batch' = creds.first + want - 1
  /\ pending' = [keys |-> {[id |-> id, pair |-> Generated[id]] : id \in Batch},
                 signed |-> mem.signed]
  /\ pc' = "upload" /\ want' = 0
  /\ UNCHANGED <<rotated, late, served, handed, signed, history>>

\* prepare_pre_key_upload on the stored credentials, then the query is sent.
Prepare ==
  /\ pc = "prepare"
  /\ creds.next + Missing - 1 <= MaxId /\ made + Missing <= MaxMade
  /\ \A id \in Batch : Generated[id] # 0
  /\ keys' = Generated
  /\ made' = made + Missing
  /\ creds' = [creds EXCEPT !.next = @ + Missing]
  /\ mem' = creds'
  /\ batch' = creds.first + want - 1
  /\ pending' = [keys |-> {[id |-> id, pair |-> Generated[id]] : id \in Batch},
                 signed |-> creds.signed]
  /\ pc' = "upload" /\ want' = 0
  /\ UNCHANGED <<rotated, late, served, handed, signed, history>>

\* The transaction fails: a pending key is missing, an id overflows, or the
\* store reports an error.
PrepareFails ==
  /\ pc = "prepare"
  /\ Done
  /\ UNCHANGED <<store, mem, made, server, history>>

\* confirm_pre_key_upload after a positive answer.
Confirm ==
  /\ pc = "confirm" /\ batch + 1 <= creds.next
  /\ creds' = [creds EXCEPT !.first = IF @ > batch + 1 THEN @ ELSE batch + 1]
  /\ mem' = creds'
  /\ Done
  /\ UNCHANGED <<keys, made, server, history>>

ConfirmFails ==
  /\ pc = "confirm"
  /\ Done
  /\ UNCHANGED <<store, mem, made, server, history>>

-----------------------------------------------------------------------------
(* Rotation of the signed pre-key, and other writers of the credentials.   *)

StartRotation ==
  /\ pc = "idle" /\ made < MaxMade
  /\ rotated' = [id |-> mem.signed.id + 1, pair |-> made + 1]
  /\ made' = made + 1
  /\ pending' = [keys |-> {}, signed |-> rotated']
  /\ pc' = "rotate"
  /\ UNCHANGED <<store, mem, want, batch, late, served, handed, signed, history>>

\* save_credentials writes the whole of self.credentials.
SaveRotated ==
  /\ pc = "save"
  /\ mem' = [mem EXCEPT !.signed = rotated]
  /\ creds' = mem'
  /\ Done
  /\ UNCHANGED <<keys, made, server, history>>

SaveRotatedFails ==
  /\ pc = "save"
  /\ mem' = [mem EXCEPT !.signed = rotated]
  /\ Done /\ doubt' = TRUE
  /\ UNCHANGED <<store, made, server, used, uploaded>>

\* The pairing methods save self.credentials too.
SavePairing ==
  /\ pc = "idle"
  /\ creds' = mem
  /\ UNCHANGED <<keys, client, made, server, history>>

-----------------------------------------------------------------------------
(* Queries, crashes and the server.                                        *)

Apply(r) ==
  /\ served' = {k \in served : \A n \in r.keys : n.id # k.id} \cup r.keys
  /\ signed' = r.signed
  /\ uploaded' = uploaded \cup {k.id : k \in r.keys}
  /\ UNCHANGED <<handed, used>>

ServerApplies ==
  /\ pending # None
  /\ Apply(pending)
  /\ pending' = None /\ doubt' = FALSE
  /\ UNCHANGED <<store, client, made, late>>

LateApplies(r) ==
  /\ r \in late
  /\ Apply(r)
  /\ late' = late \ {r} /\ doubt' = TRUE
  /\ UNCHANGED <<store, client, made, pending>>

\* Mutant: an answer of any kind confirms.
AnsweredUnchecked ==
  /\ pc \in {"upload", "rotate"}
  /\ pc' = IF pc = "upload" THEN "confirm" ELSE "save"
  /\ pending' = None
  /\ UNCHANGED <<store, mem, want, batch, rotated, made, late, served, handed, signed, history>>

\* parse_encrypt_ack_result finds a result.
Answered ==
  /\ pc \in {"upload", "rotate"} /\ pending = None
  /\ pc' = IF pc = "upload" THEN "confirm" ELSE "save"
  /\ UNCHANGED <<store, mem, want, batch, rotated, made, server, history>>

Rejected ==
  /\ pending # None
  /\ pending' = None /\ Done
  /\ UNCHANGED <<store, mem, made, late, served, handed, signed, history>>

\* The request is no longer awaited, and may have been applied.
GiveUp ==
  /\ \E kept \in SUBSET ({pending} \ {None}) :
       late' = late \cup kept /\ Cardinality(late') <= MaxLate
  /\ pending' = None /\ Done
  /\ doubt' = (doubt \/ pc \in {"rotate", "save"})
  /\ UNCHANGED <<store, made, served, handed, signed, used, uploaded>>

\* An error or a timeout of the query, or the caller drops its future.
QueryFails == pc \in {"count", "upload", "rotate"} /\ GiveUp /\ UNCHANGED mem

\* A crash; load_or_init_credentials reads the credentials back.
Restart == GiveUp /\ mem' = creds

\* A peer fetches a bundle.
HandOut(k) ==
  /\ k \in served
  /\ served' = served \ {k} /\ handed' = handed \cup {k}
  /\ UNCHANGED <<store, client, made, pending, late, signed, history>>

\* Its first message arrives; decryption needs the same key pair.
Consume(k) ==
  /\ k \in handed /\ keys[k.id] = k.pair
  /\ keys' = [keys EXCEPT ![k.id] = 0]
  /\ handed' = handed \ {k} /\ used' = used \cup {k}
  /\ UNCHANGED <<creds, client, made, pending, late, served, signed, uploaded, doubt>>

-----------------------------------------------------------------------------
ClientStep ==
  \/ \E n \in {Initial, Min} : StartUpload(n)
  \/ StartMaintenance \/ CountAnswered
  \/ Prepare \/ PrepareFails \/ Confirm \/ ConfirmFails
  \/ StartRotation \/ SaveRotated \/ SaveRotatedFails \/ SavePairing
  \/ Answered \/ Rejected \/ QueryFails \/ Restart

ServerStep ==
  \/ ServerApplies
  \/ \E r \in late : LateApplies(r)
  \/ \E k \in served : HandOut(k)
  \/ \E k \in handed : Consume(k)

Next == ClientStep \/ ServerStep

Spec == Init /\ [][Next]_vars

-----------------------------------------------------------------------------
(* Properties.                                                             *)

(* The device can decrypt a first message made with any one-time key that  *)
(* the server offers or has given away: prepare_pre_keys_in_tx never       *)
(* generates an uploaded id again, whatever save_credentials, failed       *)
(* queries and restarts do to the counters.                                *)
ServedKeyIsStored ==
  \A k \in served \cup handed : keys[k.id] = k.pair \/ k \in used

(* confirm_pre_key_upload "advances first_unuploaded_pre_key_id after the  *)
(* server acks": every id below it has been taken by the server.           *)
ConfirmedWasUploaded == 1 .. creds.first - 1 \subseteq uploaded

(* Unless a rotation was given up or not saved, or a late request arrived, *)
(* since the last upload or rotation reached the server, it offers the     *)
(* signed pre-key that the store decrypts with: rotations and the copies   *)
(* in pre-key uploads do not overwrite one another.                        *)
SignedKeyInStep == pc = "idle" /\ ~doubt => signed = creds.signed

(* upload_pre_keys_if_required is to "maintain the count" (pairing.md):    *)
(* the keys that the next upload has to read are in the store.             *)
PendingKeysStored ==
  pc = "idle" => \A id \in creds.first .. creds.next - 1 : keys[id] # 0
=============================================================================

------------------------------- MODULE ApiKeys -------------------------------
(***************************************************************************)
(* A merchant's API keys (apps/merchants/services.py): generate_api_key,   *)
(* verify_api_key, which authenticates every checkout, and the back        *)
(* office, which edits a key in the Django admin: the form has is_active   *)
(* and last_used among its fields and saves both as it shows them.         *)
(*                                                                         *)
(* A key that is too short, unknown, inactive or has another hash is       *)
(* refused without a change; whether its merchant is active is looked up   *)
(* in the same query and only decides about the request that follows.      *)
(***************************************************************************)
EXTENDS Naturals, WebServer

CONSTANTS
  Keys,       \* API keys
  NoKey,      \* not a key
  NoForm      \* no form of the key is open

ASSUME KeysAssumption == NoKey \notin Keys

VARIABLES
  keys,       \* rows of the keys that were generated
  keyPc, keyJob, keyObject,   \* worker: where it is, its key, the row it read
  form        \* the back office: the row of a key as its open form shows it

keyVars == <<keys, keyPc, keyJob, keyObject, form>>

KeyRow == [is_active : BOOLEAN, last_used : BOOLEAN]
Generated == DOMAIN keys
NewKey == [is_active |-> TRUE, last_used |-> FALSE]

KeysTypeOK ==
  /\ Generated \subseteq Keys
  /\ keys \in [Generated -> KeyRow]
  /\ keyPc \in [Workers -> {"idle", "touch"}]
  /\ keyJob \in [Workers -> Generated \cup {NoKey}]
  /\ keyObject \in [Workers -> KeyRow]
  /\ form \in [Keys -> KeyRow \cup {NoForm}]
  /\ \A w \in Workers : keyPc[w] = "idle" <=> keyJob[w] = NoKey

KeysInit ==
  /\ keys = [k \in {} |-> NewKey]
  /\ keyPc = [w \in Workers |-> "idle"]
  /\ keyJob = [w \in Workers |-> NoKey]
  /\ keyObject = [w \in Workers |-> NewKey]
  /\ form = [k \in Keys |-> NoForm]

-----------------------------------------------------------------------------
\* One insert, of an active key that was never used.
GenerateKey(k) ==
  /\ k \in Keys \ Generated
  /\ keys' = [j \in Generated \cup {k} |-> IF j = k THEN NewKey ELSE keys[j]]
  /\ UNCHANGED <<keyPc, keyJob, keyObject, form>>

\* get_by_prefix: the active key, with its merchant.
LookUpKey(w, k) ==
  /\ keyPc[w] = "idle"
  /\ k \in Generated
  /\ keys[k].is_active
  /\ keyPc' = [keyPc EXCEPT ![w] = "touch"]
  /\ keyJob' = [keyJob EXCEPT ![w] = k]
  /\ keyObject' = [keyObject EXCEPT ![w] = keys[k]]
  /\ UNCHANGED <<keys, form>>

ForgetKey(w) ==
  /\ keyPc' = [keyPc EXCEPT ![w] = "idle"]
  /\ keyJob' = [keyJob EXCEPT ![w] = NoKey]
  /\ keyObject' = [keyObject EXCEPT ![w] = NewKey]

\* Mutation: the whole object is saved.
TouchAll(w) ==
  /\ keyPc[w] = "touch"
  /\ keys' = [keys EXCEPT ![keyJob[w]] = [keyObject[w] EXCEPT !.last_used = TRUE]]
  /\ ForgetKey(w)
  /\ UNCHANGED form

\* The hash is right: last_used, and nothing else, is saved.
TouchKey(w) ==
  /\ keyPc[w] = "touch"
  /\ keys' = [keys EXCEPT ![keyJob[w]].last_used = TRUE]
  /\ ForgetKey(w)
  /\ UNCHANGED form

\* ApiKeyRepository.deactivate, called by hand.
DeactivateKey(k) ==
  /\ k \in Generated
  /\ keys' = [keys EXCEPT ![k].is_active = FALSE]
  /\ UNCHANGED <<keyPc, keyJob, keyObject, form>>

OpenKeyForm(k) ==
  /\ k \in Generated
  /\ form[k] = NoForm
  /\ form' = [form EXCEPT ![k] = keys[k]]
  /\ UNCHANGED <<keys, keyPc, keyJob, keyObject>>

\* The form is saved, with or without a change of is_active.
SaveKeyForm(k) ==
  /\ form[k] # NoForm
  /\ \E active \in BOOLEAN :
       keys' = [keys EXCEPT ![k] = [form[k] EXCEPT !.is_active = active]]
  /\ form' = [form EXCEPT ![k] = NoForm]
  /\ UNCHANGED <<keyPc, keyJob, keyObject>>

KeysNext ==
  \/ \E w \in Workers : TouchKey(w) \/ \E k \in Keys : LookUpKey(w, k)
  \/ \E k \in Keys :
       GenerateKey(k) \/ DeactivateKey(k) \/ OpenKeyForm(k) \/ SaveKeyForm(k)
-----------------------------------------------------------------------------
\* Only the back office makes an inactive key active again: a call that read the
\* key before it was deactivated saves last_used over it and leaves it inactive
\* (services.py 106-107).
StaysInactive ==
  [][\A k \in Generated :
       ~keys[k].is_active /\ keys'[k].is_active =>
         form[k] # NoForm /\ form'[k] = NoForm]_keyVars
=============================================================================

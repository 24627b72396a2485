----------------------------- MODULE Credentials ------------------------------
(* Credentials for MCP servers: validated when they are saved, encrypted    *)
(* with the master key of the process, soft-deleted, and turned into the    *)
(* headers of a request when a tool is called.                              *)
EXTENDS Naturals

CONSTANTS
  CredentialIds,
  Values,        (* values of fields                                        *)
  Blank,         (* the empty value                                         *)
  Absent,        (* a field that is not there, an id that is not set        *)
  MasterKeys,    (* values the settings may have for the master key         *)
  Payloads,      (* what clients send: a type and its fields                *)
  MaxChanges     (* bound on the changes of credentials and of the key      *)

(* The fields a type of credential requires; all have string values.        *)
RequiredFields ==
  [bearer_auth   |-> {"token"},
   basic_auth    |-> {"username", "password"},
   api_key       |-> {"api_key"},
   m2m_identies  |-> {},
   delegated_identies_exchange |-> {"audience", "scopes"}]

Types      == DOMAIN RequiredFields
FieldNames == UNION {RequiredFields[type] : type \in Types} \cup {"header_name"}
Fields     == [FieldNames -> Values \cup {Absent}]
Payload    == [type : Types, fields : Fields]
Row        == [state : {"absent", "live", "deleted"}, type : Types, fields : Fields, key : MasterKeys]

ASSUME CredentialsAssumption ==
  Blank \in Values /\ Absent \notin Values /\ Payloads \subseteq Payload /\ MaxChanges \in Nat

VARIABLES
  credential,    (* the rows of credentials                                 *)
  masterKey,     (* the key of the running process                          *)
  changes        (* how many of the changes the bound allows are made       *)

credentialVars == <<credential, masterKey, changes>>

NoFields == [f \in FieldNames |-> Absent]

(* validate_credential_fields: what is required is there, be it empty.      *)
Valid(type, fields) == \A f \in RequiredFields[type] : fields[f] # Absent

(* get_credential_fields: a row encrypted with another key has no fields.   *)
FieldsOf(c) == IF credential[c].key = masterKey THEN credential[c].fields ELSE NoFields

(* _dispatch: what is required must have a value when it is used.           *)
Usable(c) == \A f \in RequiredFields[credential[c].type] : FieldsOf(c)[f] \notin {Absent, Blank}

New(payload, state) == [state |-> state, type |-> payload.type, fields |-> payload.fields, key |-> masterKey]

CredentialsInit ==
  /\ masterKey \in MasterKeys
  /\ credential \in [CredentialIds ->
       {New(p, state) : p \in {q \in Payloads : Valid(q.type, q.fields)}, state \in {"absent", "live"}}]
  /\ changes \in 0 .. MaxChanges

Changed == changes < MaxChanges /\ changes' = changes + 1

(* Invalid fields are answered with 422 and change nothing.                 *)
CreateCredential(c, payload) ==
  /\ Changed
  /\ credential[c].state = "absent" /\ Valid(payload.type, payload.fields)
  /\ credential' = [credential EXCEPT ![c] = New(payload, "live")]
  /\ UNCHANGED masterKey

(* The type never changes; the fields are replaced as a whole.              *)
UpdateCredential(c, fields) ==
  /\ Changed
  /\ credential[c].state = "live" /\ Valid(credential[c].type, fields)
  /\ credential' = [credential EXCEPT ![c].fields = fields, ![c].key = masterKey]
  /\ UNCHANGED masterKey

(* Nothing is told to the servers that use the credential.                  *)
DeleteCredential(c) ==
  /\ Changed
  /\ credential[c].state = "live"
  /\ credential' = [credential EXCEPT ![c].state = "deleted"]
  /\ UNCHANGED masterKey

(* A deployment with another key does not encrypt the rows anew.            *)
ReplaceKey(k) ==
  /\ Changed
  /\ k # masterKey
  /\ masterKey' = k
  /\ UNCHANGED credential

CredentialsNext ==
  \/ \E c \in CredentialIds, p \in Payloads : CreateCredential(c, p) \/ UpdateCredential(c, p.fields)
  \/ \E c \in CredentialIds : DeleteCredential(c)
  \/ \E k \in MasterKeys : ReplaceKey(k)

CredentialsTypeOK ==
  /\ credential \in [CredentialIds -> Row]
  /\ masterKey \in MasterKeys
  /\ changes \in 0 .. MaxChanges
=============================================================================

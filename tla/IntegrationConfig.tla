--------------------------- MODULE IntegrationConfig ---------------------------
(***************************************************************************)
(* How a merchant is reached and how it authenticates its callbacks: one   *)
(* versioned row with its history.  An update is one database transaction  *)
(* that locks the merchant and the row, so that updates and the switch on  *)
(* or off come one after another; readers see one version whole.           *)
(***************************************************************************)
EXTENDS Naturals

CONSTANTS
  IntegrationEditor,
  Secret,            \* callback secrets
  MaxVersion         \* bound on the versions of a row

ASSUME IntegrationAssumption == MaxVersion \in Nat /\ "none" \notin Secret

VARIABLES
  integration,       \* the merchant's row; the channel is the merchant profile's
  history,           \* per version, the channel it recorded
  updating,          \* an update in progress: what it asks for and the row it read
  supplied           \* the secret the last accepted update that had one brought

integrationVars == <<integration, history, updating, supplied>>

NoIntegration == [version |-> 0, channel |-> "none", active |-> FALSE, auth |-> "NONE",
                  secret |-> "none"]
NoUpdate == [channel |-> "none", active |-> FALSE, auth |-> "NONE", secret |-> "none",
             read |-> NoIntegration]

IntegrationInit ==
  /\ integration = NoIntegration
  /\ history = [v \in 1..MaxVersion |-> "none"]
  /\ updating = [e \in IntegrationEditor |-> NoUpdate]
  /\ supplied = "none"

Update == [channel : {"API", "KAFKA"}, active : BOOLEAN, auth : {"NONE", "API_KEY", "HMAC"},
           secret : Secret \cup {"none"}]

MerchantFree == \A e \in IntegrationEditor : updating[e] = NoUpdate

(* upsert, up to the read of the existing row.                              *)
beginUpsert(e, u) ==
  /\ updating[e] = NoUpdate /\ MerchantFree
  /\ integration.version < MaxVersion
  /\ updating' = [updating EXCEPT ![e] =
       [channel |-> u.channel, active |-> u.active, auth |-> u.auth, secret |-> u.secret,
        read |-> integration]]
  /\ UNCHANGED <<integration, history, supplied>>

(* Faulty: an update without a secret clears it.                            *)
FaultyCarried(u) == u.secret

(* GET redacts the secret, so an edit mostly comes without one.             *)
Carried(u) == IF u.secret # "none" THEN u.secret ELSE u.read.secret

SecretHeld(u) ==
  ~(u.channel = "KAFKA" /\ u.active /\ u.auth # "NONE" /\ Carried(u) = "none")

(* The history has each version of a row once.                              *)
commitUpsert(e) ==
  LET u == updating[e]
      version == u.read.version + 1
  IN
  /\ u # NoUpdate /\ SecretHeld(u) /\ history[version] = "none"
  /\ integration' = [version |-> version, channel |-> u.channel, active |-> u.active,
                     auth |-> u.auth, secret |-> Carried(u)]
  /\ history' = [history EXCEPT ![version] = u.channel]
  /\ updating' = [updating EXCEPT ![e] = NoUpdate]
  /\ supplied' = IF u.secret # "none" THEN u.secret ELSE supplied

abandonUpsert(e) ==
  /\ updating[e] # NoUpdate /\ updating' = [updating EXCEPT ![e] = NoUpdate]
  /\ UNCHANGED <<integration, history, supplied>>

(* One UPDATE of the flag, which waits for the row's lock.                  *)
setActive(active) ==
  /\ integration # NoIntegration /\ MerchantFree
  /\ integration' = [integration EXCEPT !.active = active]
  /\ UNCHANGED <<history, updating, supplied>>

IntegrationNext ==
  \/ \E e \in IntegrationEditor :
       (\E u \in Update : beginUpsert(e, u)) \/ commitUpsert(e) \/ abandonUpsert(e)
  \/ \E active \in BOOLEAN : setActive(active)

IntegrationSpec == IntegrationInit /\ [][IntegrationNext]_integrationVars

-----------------------------------------------------------------------------
IntegrationTypeOK ==
  /\ integration \in [version : 0..MaxVersion, channel : {"none", "API", "KAFKA"},
                      active : BOOLEAN, auth : {"NONE", "API_KEY", "HMAC"},
                      secret : Secret \cup {"none"}]
  /\ history \in [1..MaxVersion -> {"none", "API", "KAFKA"}]
  /\ supplied \in Secret \cup {"none"}

(* The row holds the last secret an accepted update brought, whatever       *)
(* updates without one came after it; the history has every version up to   *)
(* the current one, and the current one's channel.                          *)
SecretsKept ==
  /\ integration.secret = supplied
  /\ \A v \in 1..MaxVersion : (history[v] # "none") = (v <= integration.version)
  /\ integration # NoIntegration => history[integration.version] = integration.channel
=============================================================================

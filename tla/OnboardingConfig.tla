----------------------------- MODULE OnboardingConfig -----------------------------
(***************************************************************************)
(* The governed configuration of onboarding: versions of journeys and of   *)
(* channels, written, submitted, decided and activated by administrators.  *)
(* A journey's content is the country of its scope; a channel's content is *)
(* the last country it serves, and it serves the lower ones too.           *)
(* Activating a journey validates it against the active channel first, and *)
(* the stored function that activates it locks the version and its own     *)
(* definition only.                                                        *)
(***************************************************************************)
EXTENDS Naturals, FiniteSets, Sequences

CONSTANTS
  JourneyDef, ChannelDef,
  ConfigAdmin,
  LastCountry,          \* bound on the contents
  MaxVersions           \* bound on the versions of all definitions

ASSUME ConfigAssumption == {LastCountry, MaxVersions} \subseteq Nat \ {0} /\ JourneyDef \cap ChannelDef = {}

VARIABLES
  versions,             \* sequence position -> version row
  activating,           \* journey versions between the checks of their activation and its commit
  activationsOverlapped,\* history: two journeys were between check and commit at one time
  signed                \* history: what was approved of a version that is approved or active, and by whom

configVars == <<versions, activating, activationsOverlapped, signed>>

Country == 1..LastCountry
VersionId == DOMAIN versions
Unsigned == [content |-> 0, by |-> "noone"]

ConfigInit ==
  /\ versions = <<>> /\ signed = <<>>
  /\ activating = {} /\ activationsOverlapped = FALSE

(* The maker is modified_by once the version was edited, the creator before. *)
createVersion(def, content, by) ==
  /\ Cardinality(VersionId) < MaxVersions
  /\ versions' = Append(versions, [def |-> def, content |-> content, status |-> "DRAFT", maker |-> by])
  /\ signed' = Append(signed, Unsigned)
  /\ UNCHANGED <<activating, activationsOverlapped>>

(* A clone carries the content of another version of the same definition.   *)
cloneVersion(v, by) == createVersion(versions[v].def, versions[v].content, by)

Editable(v) == versions[v].status \in {"DRAFT", "REJECTED"}

(* The caller sends the revision it has read and is refused when the stored *)
(* one has moved on, so the edit replaces what its author saw.              *)
replaceVersion(v, content, by) ==
  /\ Editable(v)
  /\ versions' = [versions EXCEPT ![v].content = content, ![v].status = "DRAFT", ![v].maker = by]
  /\ UNCHANGED <<activating, activationsOverlapped, signed>>

ActiveVersions(defs) == {v \in VersionId : versions[v].status = "ACTIVE" /\ versions[v].def \in defs}

(* A journey is valid when its country is served by an active channel.      *)
Compatible(v) ==
  versions[v].def \in JourneyDef => \E c \in ActiveVersions(ChannelDef) : versions[v].content <= versions[c].content

SetStatus(v, status) == versions' = [versions EXCEPT ![v].status = status]

submit(v) ==
  /\ Editable(v) /\ Compatible(v) /\ SetStatus(v, "SUBMITTED")
  /\ UNCHANGED <<activating, activationsOverlapped, signed>>

approve(v, by) ==
  /\ versions[v].status = "SUBMITTED" /\ by # versions[v].maker
  /\ SetStatus(v, "APPROVED")
  /\ signed' = [signed EXCEPT ![v] = [content |-> versions[v].content, by |-> by]]
  /\ UNCHANGED <<activating, activationsOverlapped>>

reject(v) ==
  /\ versions[v].status = "SUBMITTED" /\ SetStatus(v, "REJECTED")
  /\ UNCHANGED <<activating, activationsOverlapped, signed>>

(* Only an activation in progress holds the row of its version.             *)
retire(v) ==
  /\ versions[v].status \in {"ACTIVE", "APPROVED"} /\ v \notin activating
  /\ SetStatus(v, "RETIRED") /\ signed' = [signed EXCEPT ![v] = Unsigned]
  /\ UNCHANGED <<activating, activationsOverlapped>>

(* The active version of the definition is retired with it.                 *)
Activated(v) ==
  LET replaced == ActiveVersions({versions[v].def}) \ {v}
  IN  /\ versions' = [w \in VersionId |->
           IF w = v THEN [versions[w] EXCEPT !.status = "ACTIVE"]
           ELSE IF w \in replaced THEN [versions[w] EXCEPT !.status = "RETIRED"] ELSE versions[w]]
      /\ signed' = [w \in VersionId |-> IF w \in replaced THEN Unsigned ELSE signed[w]]

(* One transaction; a unique index refuses the second of two activations.   *)
activateChannel(v) ==
  /\ versions[v].def \in ChannelDef /\ versions[v].status = "APPROVED"
  /\ Activated(v)
  /\ UNCHANGED <<activating, activationsOverlapped>>

(* Faulty: the scope of the active journeys is not compared.                *)
FaultyScopeFree(v) == TRUE

(* The active version of the journey's own definition conflicts as well.    *)
ScopeFree(v) == \A w \in ActiveVersions(JourneyDef) \ {v} : versions[w].content # versions[v].content

beginActivation(v) ==
  /\ versions[v].def \in JourneyDef /\ versions[v].status = "APPROVED"
  /\ Compatible(v) /\ ScopeFree(v)
  /\ \A w \in activating : versions[w].def # versions[v].def
  /\ activating' = activating \cup {v}
  /\ activationsOverlapped' = (activationsOverlapped \/ activating # {})
  /\ UNCHANGED <<versions, signed>>

commitActivation(v) ==
  /\ v \in activating /\ activating' = activating \ {v} /\ Activated(v)
  /\ UNCHANGED activationsOverlapped

ConfigNext ==
  \/ \E def \in JourneyDef \cup ChannelDef, content \in Country, by \in ConfigAdmin : createVersion(def, content, by)
  \/ \E v \in VersionId :
       \/ submit(v) \/ reject(v) \/ retire(v) \/ activateChannel(v) \/ beginActivation(v) \/ commitActivation(v)
       \/ \E by \in ConfigAdmin :
            approve(v, by) \/ cloneVersion(v, by) \/ \E content \in Country : replaceVersion(v, content, by)

ConfigTypeOK ==
  /\ \A v \in VersionId : versions[v] \in
       [def : JourneyDef \cup ChannelDef, content : Country, maker : ConfigAdmin,
        status : {"DRAFT", "SUBMITTED", "APPROVED", "REJECTED", "ACTIVE", "RETIRED"}]
  /\ DOMAIN signed = VersionId /\ activating \subseteq VersionId /\ activationsOverlapped \in BOOLEAN

(* What is approved or active is what the checker saw, and its last editor *)
(* was somebody else; a definition has one active version; and no two       *)
(* active journeys share a scope, except when two activations overlapped.   *)
ConfigGoverned ==
  /\ \A v \in VersionId : versions[v].status \in {"APPROVED", "ACTIVE"} =>
       /\ signed[v].content = versions[v].content
       /\ signed[v].by # versions[v].maker
  /\ \A v, w \in ActiveVersions(JourneyDef \cup ChannelDef) : versions[v].def = versions[w].def => v = w
  /\ ~activationsOverlapped =>
       \A v, w \in ActiveVersions(JourneyDef) : versions[v].content = versions[w].content => v = w
=============================================================================

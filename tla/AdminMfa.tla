-------------------------------- MODULE AdminMfa --------------------------------
(***************************************************************************)
(* The second factor of an administrator's login: challenges opened by the *)
(* password, authenticator codes and the one-time recovery PIN.  Every     *)
(* operation is one transaction that locks the challenge (and, for a code  *)
(* or a PIN, the profile), so it is one step.  A code is the time slot it  *)
(* was computed for; slots advance while challenges wait.                  *)
(***************************************************************************)
EXTENDS Naturals, FiniteSets

CONSTANTS
  MfaAdmin, MfaChallenge,
  AttemptLimit,       \* MAX_ATTEMPTS, 5 in the code
  LastSlot,           \* bound on the time slots of 30 seconds
  MaxSecrets          \* bound on the authenticator secrets drawn

ASSUME MfaAssumption == {AttemptLimit, LastSlot, MaxSecrets} \subseteq Nat \ {0} /\ "noone" \notin MfaAdmin

VARIABLES
  authenticator,      \* admin_mfa_profiles; the PIN is drawn with the secret
  challenges,         \* admin_mfa_challenges
  otpSlot, secretsDrawn,
  spentCodes,         \* history: codes that were accepted, and the challenge they answered
  spentPins           \* history: recovery PINs that were accepted, and where

mfaVars == <<authenticator, challenges, otpSlot, secretsDrawn, spentCodes, spentPins>>

NoAuthenticator == [enabled |-> FALSE, secret |-> 0, last |-> 0, pinUsed |-> FALSE, failed |-> 0, locked |-> FALSE]
NoMfaChallenge == [user |-> "noone", purpose |-> "NONE", pending |-> 0, attempts |-> 0, consumed |-> FALSE]

MfaInit ==
  /\ authenticator = [a \in MfaAdmin |-> NoAuthenticator]
  /\ challenges = [c \in MfaChallenge |-> NoMfaChallenge]
  /\ otpSlot = 1 /\ secretsDrawn = 0
  /\ spentCodes = {} /\ spentPins = {}

(* Codes of the slot before and after the current one also count; any other *)
(* code matches no slot.                                                    *)
NoSlot == 0
CodeSlots == {NoSlot} \cup {s \in (otpSlot - 1)..(otpSlot + 1) : s > 0}

(* Faulty: any number of wrong answers.                                     *)
FaultyOpen(c, purposes) == challenges[c].purpose \in purposes /\ ~challenges[c].consumed

Open(c, purposes) ==
  /\ challenges[c].purpose \in purposes
  /\ ~challenges[c].consumed /\ challenges[c].attempts < AttemptLimit

FailChallenge(c) == challenges' = [challenges EXCEPT ![c].attempts = @ + 1]

beginLogin(a, c) ==
  /\ challenges[c] = NoMfaChallenge
  /\ challenges' = [challenges EXCEPT ![c] = [NoMfaChallenge EXCEPT !.user = a, !.purpose = "LOGIN"]]
  /\ UNCHANGED <<authenticator, otpSlot, secretsDrawn, spentCodes, spentPins>>

startEnrollment(c) ==
  /\ Open(c, {"LOGIN", "RECOVERY_ENROLLMENT"}) /\ secretsDrawn < MaxSecrets
  /\ challenges[c].purpose = "LOGIN" => ~authenticator[challenges[c].user].enabled
  /\ secretsDrawn' = secretsDrawn + 1
  /\ challenges' = [challenges EXCEPT ![c].pending = secretsDrawn + 1,
                                      ![c].purpose = IF @ = "LOGIN" THEN "ENROLLMENT" ELSE @]
  /\ UNCHANGED <<authenticator, otpSlot, spentCodes, spentPins>>

confirmEnrollment(c, s) ==
  LET ch == challenges[c]
  IN  /\ Open(c, {"ENROLLMENT", "RECOVERY_ENROLLMENT"}) /\ ch.pending # 0
      /\ \/ /\ s = NoSlot /\ FailChallenge(c)
            /\ UNCHANGED <<authenticator, spentCodes>>
         \/ /\ s # NoSlot
            /\ authenticator' = [authenticator EXCEPT ![ch.user] =
                 [NoAuthenticator EXCEPT !.enabled = TRUE, !.secret = ch.pending, !.last = s]]
            /\ challenges' = [challenges EXCEPT ![c].consumed = TRUE]
            /\ spentCodes' = spentCodes \cup {[secret |-> ch.pending, slot |-> s, challenge |-> c]}
      /\ UNCHANGED <<otpSlot, secretsDrawn, spentPins>>

(* Faulty: a code of the slot used last is taken again.                     *)
FaultyFreshSlot(a, s) == s # NoSlot /\ s >= authenticator[a].last

FreshSlot(a, s) == s # NoSlot /\ s > authenticator[a].last

verify(c, s) ==
  LET a == challenges[c].user
  IN  /\ Open(c, {"LOGIN"}) /\ authenticator[a].enabled /\ ~authenticator[a].locked
      /\ \/ /\ ~FreshSlot(a, s) /\ FailChallenge(c)
            /\ authenticator' = [authenticator EXCEPT ![a].failed = @ + 1,
                                   ![a].locked = authenticator[a].failed + 1 >= AttemptLimit]
            /\ UNCHANGED spentCodes
         \/ /\ FreshSlot(a, s)
            /\ authenticator' = [authenticator EXCEPT ![a].last = s, ![a].failed = 0, ![a].locked = FALSE]
            /\ challenges' = [challenges EXCEPT ![c].consumed = TRUE]
            /\ spentCodes' = spentCodes \cup {[secret |-> authenticator[a].secret, slot |-> s, challenge |-> c]}
      /\ UNCHANGED <<otpSlot, secretsDrawn, spentPins>>

recover(c, right) ==
  LET a == challenges[c].user
      valid == right /\ authenticator[a].enabled /\ ~authenticator[a].pinUsed
  IN  /\ Open(c, {"LOGIN"}) /\ authenticator[a] # NoAuthenticator
      /\ \/ ~valid /\ FailChallenge(c) /\ UNCHANGED <<authenticator, spentPins>>
         \/ /\ valid
            /\ authenticator' = [authenticator EXCEPT ![a].pinUsed = TRUE]
            /\ challenges' = [challenges EXCEPT ![c].purpose = "RECOVERY_ENROLLMENT", ![c].attempts = 0]
            /\ spentPins' = spentPins \cup {[pin |-> authenticator[a].secret, challenge |-> c]}
      /\ UNCHANGED <<otpSlot, secretsDrawn, spentCodes>>

(* A super administrator resets an authenticator; its open challenges stay. *)
reset(a) ==
  /\ authenticator' = [authenticator EXCEPT ![a] = NoAuthenticator]
  /\ UNCHANGED <<challenges, otpSlot, secretsDrawn, spentCodes, spentPins>>

(* Time passes: the next slot, the end of a lock, the end of a challenge.   *)
SlotPasses ==
  /\ otpSlot < LastSlot /\ otpSlot' = otpSlot + 1
  /\ UNCHANGED <<authenticator, challenges, secretsDrawn, spentCodes, spentPins>>

LockEnds(a) ==
  /\ authenticator[a].locked
  /\ authenticator' = [authenticator EXCEPT ![a].locked = FALSE]
  /\ UNCHANGED <<challenges, otpSlot, secretsDrawn, spentCodes, spentPins>>

ChallengeExpires(c) ==
  /\ challenges[c].purpose # "NONE" /\ ~challenges[c].consumed
  /\ challenges' = [challenges EXCEPT ![c].purpose = "EXPIRED"]
  /\ UNCHANGED <<authenticator, otpSlot, secretsDrawn, spentCodes, spentPins>>

MfaNext ==
  \/ SlotPasses
  \/ \E a \in MfaAdmin : reset(a) \/ LockEnds(a) \/ \E c \in MfaChallenge : beginLogin(a, c)
  \/ \E c \in MfaChallenge :
       \/ startEnrollment(c) \/ ChallengeExpires(c)
       \/ \E s \in CodeSlots : confirmEnrollment(c, s) \/ verify(c, s)
       \/ \E right \in BOOLEAN : recover(c, right)

MfaSpec == MfaInit /\ [][MfaNext]_mfaVars

MfaTypeOK ==
  /\ authenticator \in [MfaAdmin -> [enabled : BOOLEAN, secret : 0..MaxSecrets, last : 0..(LastSlot + 1),
                                     pinUsed : BOOLEAN, failed : Nat, locked : BOOLEAN]]
  /\ challenges \in [MfaChallenge ->
       [user : MfaAdmin \cup {"noone"}, pending : 0..MaxSecrets, attempts : 0..AttemptLimit, consumed : BOOLEAN,
        purpose : {"NONE", "LOGIN", "ENROLLMENT", "RECOVERY_ENROLLMENT", "EXPIRED"}]]
  /\ otpSlot \in 1..LastSlot /\ secretsDrawn \in 0..MaxSecrets
  /\ spentCodes \subseteq [secret : 1..MaxSecrets, slot : 1..(LastSlot + 1), challenge : MfaChallenge]
  /\ spentPins \subseteq [pin : 1..MaxSecrets, challenge : MfaChallenge]

(* A code passes one login: no two challenges are answered by one code of  *)
(* one secret, no challenge by two codes, and no recovery PIN opens two     *)
(* enrollments, in whatever order logins of one administrator run.          *)
SecondFactorOnce ==
  /\ \A x, y \in spentCodes :
       (x.challenge = y.challenge \/ (x.secret = y.secret /\ x.slot = y.slot)) => x = y
  /\ \A x, y \in spentPins : x.pin = y.pin => x = y
=============================================================================

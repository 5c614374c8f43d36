------------------------------ MODULE Passkeys ------------------------------
(* passkeyService.js: the two WebAuthn ceremonies over the tables            *)
(* webauthn_challenges and webauthn_credentials, one action per query.  What *)
(* generates options and checks signatures is the library @simplewebauthn,   *)
(* of which only the answer matters; the authenticator is external too.      *)
EXTENDS Naturals
CONSTANTS
  NoRow,
  Holders,          \* users
  Credentials,      \* credential ids, each kept by one authenticator
  Ceremonies,       \* verification requests that can be in flight
  MaxChallenges,    \* bound: challenges drawn in all
  MaxSigned         \* bound: assertions an authenticator signs

ASSUME PasskeyAssumption ==
  /\ {MaxChallenges, MaxSigned} \subseteq Nat
  /\ NoRow \notin [user : Holders, signCount : Nat]
  /\ NoRow \notin [user : Holders, type : {"registration", "assertion"}, lapsed : BOOLEAN]

VARIABLES
  challenges,       \* webauthn_challenges, by the order of expires_at
  drawn,            \* how many challenges were drawn
  credentials,      \* webauthn_credentials
  counters,         \* each authenticator's own signature counter
  responses,        \* what authenticators signed; a response can be sent again
  ceremony,         \* the verification requests in flight
  accepted          \* history: challenges an assertion was accepted for
passkeyVars == <<challenges, drawn, credentials, counters, responses, ceremony, accepted>>

ChallengeIds == 1..MaxChallenges
Idle == [pc |-> "idle"]

PasskeysInit ==
  /\ challenges = [c \in ChallengeIds |-> NoRow] /\ drawn = 0
  /\ credentials = [k \in Credentials |-> NoRow]
  /\ counters = [k \in Credentials |-> 0]
  /\ responses = {} /\ accepted = {}
  /\ ceremony = [v \in Ceremonies |-> Idle]

Pending(u, type) ==
  {c \in ChallengeIds : /\ challenges[c] # NoRow /\ ~challenges[c].lapsed
                        /\ challenges[c].user = u /\ challenges[c].type = type}
IsLatest(c, u, type) ==
  c \in Pending(u, type) /\ \A d \in Pending(u, type) : d <= c
DeleteChallenges(u, type) ==
  challenges' = [c \in ChallengeIds |->
    IF challenges[c] # NoRow /\ challenges[c].user = u /\ challenges[c].type = type
    THEN NoRow ELSE challenges[c]]

(* Both option calls end with the INSERT of a fresh challenge; the list of   *)
(* credentials the assertion call reads first only goes to the client.       *)
GenerateOptions(u, type) ==
  /\ drawn < MaxChallenges
  /\ drawn' = drawn + 1
  /\ challenges' = [challenges EXCEPT ![drawn + 1] =
       [user |-> u, type |-> type, lapsed |-> FALSE]]
  /\ UNCHANGED <<credentials, counters, responses, ceremony, accepted>>

(* expires_at passes, the earliest drawn first.                              *)
ChallengeLapses(c) ==
  /\ challenges[c] # NoRow /\ ~challenges[c].lapsed
  /\ \A d \in ChallengeIds : d < c /\ challenges[d] # NoRow => challenges[d].lapsed
  /\ challenges' = [challenges EXCEPT ![c].lapsed = TRUE]
  /\ UNCHANGED <<drawn, credentials, counters, responses, ceremony, accepted>>

(* An authenticator signs a challenge its user was given; it counts the      *)
(* assertions it signs.                                                      *)
Signs(k, c, type) ==
  /\ c <= drawn /\ (type = "assertion" => counters[k] < MaxSigned)
  /\ counters' = [counters EXCEPT ![k] = IF type = "assertion" THEN @ + 1 ELSE @]
  /\ responses' = responses \cup
       {[credential |-> k, challenge |-> c, type |-> type, counter |-> counters'[k]]}
  /\ UNCHANGED <<challenges, drawn, credentials, ceremony, accepted>>

-----------------------------------------------------------------------------
(* verifyRegistration.  A request without a pending challenge, or whose      *)
(* response the library rejects, ends after the SELECT and changes nothing.  *)
RegistrationSelect(v, u, r) ==
  /\ ceremony[v] = Idle /\ r.type = "registration"
  /\ IsLatest(r.challenge, u, "registration")
  /\ ceremony' = [ceremony EXCEPT ![v] = [pc |-> "register.delete", user |-> u, response |-> r]]
  /\ UNCHANGED <<challenges, drawn, credentials, counters, responses, accepted>>

RegistrationDelete(v) ==
  /\ ceremony[v].pc = "register.delete"
  /\ DeleteChallenges(ceremony[v].user, "registration")
  /\ ceremony' = [ceremony EXCEPT ![v].pc = "register.upsert"]
  /\ UNCHANGED <<drawn, credentials, counters, responses, accepted>>

(* ON CONFLICT keeps the row's user and overwrites the count.                *)
RegistrationUpsert(v) ==
  LET r == ceremony[v].response
      k == r.credential
      owner == IF credentials[k] = NoRow THEN ceremony[v].user ELSE credentials[k].user
  IN /\ ceremony[v].pc = "register.upsert"
     /\ credentials' = [credentials EXCEPT ![k] = [user |-> owner, signCount |-> r.counter]]
     /\ ceremony' = [ceremony EXCEPT ![v] = Idle]
     /\ UNCHANGED <<challenges, drawn, counters, responses, accepted>>

-----------------------------------------------------------------------------
(* verifyAssertion.                                                          *)
AssertionSelect(v, u, r) ==
  /\ ceremony[v] = Idle /\ r.type = "assertion"
  /\ IsLatest(r.challenge, u, "assertion")
  /\ ceremony' = [ceremony EXCEPT ![v] = [pc |-> "assert.credential", user |-> u, response |-> r]]
  /\ UNCHANGED <<challenges, drawn, credentials, counters, responses, accepted>>

(* The library wants the counter to exceed the stored one, unless both are 0. *)

\* mutant: the counter is not compared
AnyCounter(seen, counter) == TRUE
CounterAccepted(seen, counter) == counter > seen \/ (seen = 0 /\ counter = 0)

(* The credential is read in a second query; a wrong one ends the request.   *)
AssertionCredential(v) ==
  LET r == ceremony[v].response
      row == credentials[r.credential]
      valid == /\ row # NoRow /\ row.user = ceremony[v].user
               /\ CounterAccepted(row.signCount, r.counter)
  IN /\ ceremony[v].pc = "assert.credential"
     /\ ceremony' = [ceremony EXCEPT ![v] =
          IF valid THEN [pc |-> "assert.delete", user |-> @.user, response |-> r,
                         seen |-> row.signCount]
          ELSE Idle]
     /\ UNCHANGED <<challenges, drawn, credentials, counters, responses, accepted>>

\* mutant: the DELETE names the other type
AssertionDeleteOther(v) ==
  /\ ceremony[v].pc = "assert.delete"
  /\ DeleteChallenges(ceremony[v].user, "registration")
  /\ ceremony' = [ceremony EXCEPT ![v].pc = "assert.update"]
  /\ UNCHANGED <<drawn, credentials, counters, responses, accepted>>
AssertionDelete(v) ==
  /\ ceremony[v].pc = "assert.delete"
  /\ DeleteChallenges(ceremony[v].user, "assertion")
  /\ ceremony' = [ceremony EXCEPT ![v].pc = "assert.update"]
  /\ UNCHANGED <<drawn, credentials, counters, responses, accepted>>

(* The UPDATE writes the new counter whatever the row holds by now.          *)
AssertionUpdate(v) ==
  LET r == ceremony[v].response
  IN /\ ceremony[v].pc = "assert.update"
     /\ credentials' = [credentials EXCEPT ![r.credential].signCount = r.counter]
     /\ ceremony' = [ceremony EXCEPT ![v] = Idle]
     /\ accepted' = accepted \cup {r.challenge}
     /\ UNCHANGED <<challenges, drawn, counters, responses>>

VerifyStart(v) ==
  \E u \in Holders, r \in responses : RegistrationSelect(v, u, r) \/ AssertionSelect(v, u, r)
VerifyStep(v) ==
  \/ RegistrationDelete(v) \/ RegistrationUpsert(v)
  \/ AssertionCredential(v) \/ AssertionDelete(v) \/ AssertionUpdate(v)

(* The process dies: the ceremonies in flight are gone, the rows stay.       *)
CeremoniesLost ==
  /\ ceremony' = [v \in Ceremonies |-> Idle]
  /\ UNCHANGED <<challenges, drawn, credentials, counters, responses, accepted>>

-----------------------------------------------------------------------------
(* Once an assertion was answered its challenge is gone for good: a response *)
(* that is sent again is refused.  Only requests that read the challenge     *)
(* before the DELETE can share it (verifyAssertion).                         *)
AcceptedChallengeGone == \A c \in accepted : challenges[c] = NoRow

(* The stored counter falls only by a registration of the same credential,   *)
(* or when another verification wrote it between this one's SELECT and       *)
(* UPDATE: a lone replay of an older response never lowers it.               *)
CounterFallsOnlyByRace ==
  [][\A v \in Ceremonies :
       (ceremony[v].pc = "assert.update" /\ ceremony'[v] = Idle
        /\ credentials' # credentials)
       => LET k == ceremony[v].response.credential
          IN \/ credentials'[k].signCount >= credentials[k].signCount
             \/ credentials[k].signCount # ceremony[v].seen]_passkeyVars
=============================================================================

--------------------------------- MODULE Sns ---------------------------------
(***************************************************************************)
(* Messages of AWS SNS (api.rs, handle_sns): each is checked against the   *)
(* certificate its SigningCertURL names, which verify.rs keeps for an hour *)
(* in a cache that all requests share, and is then processed as an event   *)
(* or confirms the subscription.  Whatever body the certificate's server   *)
(* answers with is cached: verify_sns_message does not ask for the status. *)
(*                                                                         *)
(* SNS sends a message again after a 5xx, but not for ever, and gives it   *)
(* up at once after a 4xx.  Backpressure and what process_event does are   *)
(* in module Ingest.                                                       *)
(***************************************************************************)
EXTENDS Naturals

CONSTANTS
  SnsMessages,   (* messages under way                                         *)
  Envelopes,     (* what they may be                                           *)
  SnsUrls,       (* the certificate URLs is_valid_sns_url lets through         *)
  CertTtl,       (* SNS_CERT_CACHE_TTL                                         *)
  MaxTries,      (* deliveries of a message before SNS gives it up             *)
  MaxSnsFaults   (* bound on failed requests, error pages and crashes          *)

ASSUME SnsAssumption ==
  /\ CertTtl \in Nat \ {0} /\ MaxTries \in Nat \ {0} /\ MaxSnsFaults \in Nat
  /\ \A m \in Envelopes :
       /\ m.kind \in {"Notification", "SubscriptionConfirmation",
                      "UnsubscribeConfirmation", "other"}
       /\ m.checked \in BOOLEAN       (* the source does not say skip_verify  *)
       /\ m.signed \in BOOLEAN        (* the signature is the certificate's   *)
       /\ m.confirmable \in BOOLEAN   (* it has a SubscribeURL of SNS         *)

VARIABLES
  envelope,   (* what each message is                                         *)
  phase,      (* waiting at SNS, fetching its certificate, verified,          *)
              (* accepted (2xx), refused (4xx), given up (the last 5xx)       *)
  tries,      (* deliveries of each that failed, with a 5xx or no answer      *)
  cached,     (* SNS_CERT_CACHE: nothing, a certificate or another page       *)
  certAge,    (* ticks since it was cached, saturating at CertTtl             *)
  calm,       (* ticks since the last fault, saturating at CertTtl            *)
  snsFaults   (* failed requests, error pages and crashes so far              *)

snsVars == <<envelope, phase, tries, cached, certAge, calm, snsFaults>>

Faulty == snsFaults < MaxSnsFaults /\ snsFaults' = snsFaults + 1 /\ calm' = 0
Faultless == UNCHANGED <<calm, snsFaults>>

Move(m, p) == phase' = [phase EXCEPT ![m] = p] /\ UNCHANGED tries

(* The deliveries of the messages in S fail: SNS sends each again, or not. *)
Fail(S) ==
  /\ tries' = [m \in SnsMessages |-> IF m \in S THEN tries[m] + 1 ELSE tries[m]]
  /\ phase' = [m \in SnsMessages |-> IF m \notin S THEN phase[m]
                                    ELSE IF tries[m] + 1 < MaxTries THEN "waiting"
                                    ELSE "given up"]

Genuine(m) == envelope[m].cert \in SnsUrls

(* get_cached_cert                                                         *)
IsFresh(url) == cached[url] # "nothing" /\ certAge[url] < CertTtl

(* set_cached_cert: entries that have expired go.                          *)
SetCached(url, data) ==
  /\ cached' = [u \in SnsUrls |-> IF u = url THEN data
                                  ELSE IF IsFresh(u) THEN cached[u] ELSE "nothing"]
  /\ certAge' = [certAge EXCEPT ![url] = 0]

(* A signature that does not match is a 401; one that cannot be read is an *)
(* error, and so is a page that is no certificate, hence a 500.            *)
Check(m, data) ==
  \/ data = "certificate" /\ envelope[m].signed /\ Move(m, "verified")
  \/ data = "certificate" /\ ~envelope[m].signed /\ (Move(m, "refused") \/ Fail({m}))
  \/ data # "certificate" /\ Fail({m})

(* Mutant of UseCached: a hit renews the entry.                            *)
UseCachedAnew(m) ==
  /\ Check(m, cached[envelope[m].cert])
  /\ certAge' = [certAge EXCEPT ![envelope[m].cert] = 0]

UseCached(m) == Check(m, cached[envelope[m].cert]) /\ UNCHANGED certAge

(* handle_sns, up to the certificate.                                      *)
ReceiveMessage(m) ==
  /\ phase[m] = "waiting"
  /\ \/ ~envelope[m].checked /\ Move(m, "verified") /\ UNCHANGED certAge
     \/ envelope[m].checked /\ ~Genuine(m) /\ Move(m, "refused") /\ UNCHANGED certAge
     \/ /\ envelope[m].checked /\ Genuine(m)
        /\ \/ IsFresh(envelope[m].cert) /\ UseCached(m)
           \/ ~IsFresh(envelope[m].cert) /\ Move(m, "fetching") /\ UNCHANGED certAge
  /\ UNCHANGED <<envelope, cached>> /\ Faultless

(* The server answers, with the certificate or with an error page.  An     *)
(* answer that comes late replaces what another request has cached.        *)
FetchCertificate(m) ==
  /\ phase[m] = "fetching"
  /\ \/ /\ SetCached(envelope[m].cert, "certificate") /\ Check(m, "certificate")
        /\ Faultless
     \/ /\ SetCached(envelope[m].cert, "page") /\ Check(m, "page")
        /\ Faulty
  /\ UNCHANGED envelope

FetchFails(m) ==
  /\ phase[m] = "fetching"
  /\ Fail({m}) /\ Faulty
  /\ UNCHANGED <<envelope, cached, certAge>>

(* What follows may fail, which is a 500.                                  *)
AcceptOrFail(m) ==
  \/ Move(m, "accepted") /\ Faultless
  \/ Fail({m}) /\ Faulty

(* process_event                                                           *)
ProcessNotification(m) ==
  /\ phase[m] = "verified" /\ envelope[m].kind = "Notification"
  /\ AcceptOrFail(m)
  /\ UNCHANGED <<envelope, cached, certAge>>

(* GET SubscribeURL                                                        *)
ConfirmSubscription(m) ==
  /\ phase[m] = "verified" /\ envelope[m].kind = "SubscriptionConfirmation"
  /\ IF envelope[m].confirmable THEN AcceptOrFail(m)
     ELSE Move(m, "refused") /\ Faultless
  /\ UNCHANGED <<envelope, cached, certAge>>

AnswerOther(m) ==
  /\ phase[m] = "verified"
  /\ \/ envelope[m].kind = "UnsubscribeConfirmation" /\ Move(m, "accepted")
     \/ envelope[m].kind = "other" /\ Move(m, "refused")
  /\ UNCHANGED <<envelope, cached, certAge>> /\ Faultless

(* The process restarts: the cache is in memory, and SNS has no answers.   *)
Restart ==
  /\ Fail({m \in SnsMessages : phase[m] \in {"fetching", "verified"}})
  /\ cached' = [u \in SnsUrls |-> "nothing"]
  /\ certAge' = [u \in SnsUrls |-> 0]
  /\ Faulty
  /\ UNCHANGED envelope

Older(age) == IF age < CertTtl THEN age + 1 ELSE CertTtl

CertAges ==
  /\ certAge' = [u \in SnsUrls |-> Older(certAge[u])]
  /\ calm' = Older(calm)
  /\ UNCHANGED <<envelope, phase, tries, cached, snsFaults>>

SnsInit ==
  /\ envelope \in [SnsMessages -> Envelopes]
  /\ phase = [m \in SnsMessages |-> "waiting"]
  /\ cached = [u \in SnsUrls |-> "nothing"]
  /\ certAge = [u \in SnsUrls |-> 0]
  /\ tries = [m \in SnsMessages |-> 0]
  /\ calm = CertTtl /\ snsFaults = 0

HandleMessage(m) ==
  \/ ReceiveMessage(m)
  \/ FetchCertificate(m) \/ FetchFails(m)
  \/ ProcessNotification(m) \/ ConfirmSubscription(m) \/ AnswerOther(m)

SnsNext == (\E m \in SnsMessages : HandleMessage(m)) \/ Restart \/ CertAges

SnsSpec == SnsInit /\ [][SnsNext]_snsVars

-----------------------------------------------------------------------------
(* Properties.                                                             *)

Acceptable(e) ==
  /\ e.checked => e.signed /\ e.cert \in SnsUrls
  /\ e.kind = "SubscriptionConfirmation" => e.confirmable
  /\ e.kind # "other"

(* What a fault can spoil ends with SNS_CERT_CACHE_TTL: a page that is     *)
(* cached in place of a certificate has all messages answered with an      *)
(* error, some for good, but once nothing has gone wrong for that long no  *)
(* message that SNS has signed fails, however many have met the page, and  *)
(* none is ever turned away with a 4xx (docs/guides/sns.md: "each SNS      *)
(* message is verified", "Certificates are cached for 1 hour").            *)
NothingSpoiltForLong ==
  [][\A m \in SnsMessages : Acceptable(envelope[m]) =>
       /\ phase'[m] # "refused"
       /\ calm = CertTtl /\ calm' = CertTtl => tries'[m] = tries[m]]_snsVars
=============================================================================

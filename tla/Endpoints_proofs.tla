--------------------------- MODULE Endpoints_proofs ---------------------------
(***************************************************************************)
(* Proofs about Endpoints: a row carries the secret that was handed out    *)
(* last as long as it is there, a row that was deleted never comes back,   *)
(* and what a request has in hand never names one that was gone before.    *)
(***************************************************************************)
EXTENDS Endpoints, TLAPS

Idles == {"idle", "fan"}

(* What a handler has in hand between two statements.                      *)
InHand(c) ==
  /\ request[c].pc \notin Idles => request[c].id \in Endpoint
  /\ Pc(c, "write") => request[c].status \in EndpointStatus
  /\ Pc(c, "subscribe") => request[c].todo \subseteq EventTypes \cup {Wildcard}
  /\ Pc(c, "fan") => request[c].todo \subseteq Endpoint \ request[c].before
  /\ Pc(c, "delete") => newest[request[c].id] # 0

(* A row has the newest secret; where there is none, there never was one   *)
(* or it was deleted for good.                                             *)
RowKept(e) ==
  /\ endpoint[e].status # "none" => endpoint[e].secret = newest[e]
  /\ endpoint[e].status = "none" =>
       endpoint[e].secret = 0 /\ (newest[e] = 0 \/ e \in gone)
  /\ e \in gone => endpoint[e].status = "none" /\ newest[e] # 0
  /\ newest[e] <= secrets

JobKept(j) ==
  outbound[j].status # "none" =>
    /\ outbound[j].id \in Endpoint \ outbound[j].before
    /\ outbound[j].status \in {"begun", "signed"} =>
         outbound[j].floor <= newest[outbound[j].id]
    /\ outbound[j].status = "signed" =>
         \/ outbound[j].secret >= outbound[j].floor
         \/ outbound[j].secret = 0 /\ outbound[j].id \in gone

AllInHand == \A c \in Clients : InHand(c)
AllRowsKept == \A e \in Endpoint : RowKept(e)
AllJobsKept == \A j \in Outbound : JobKept(j)

Kept == EndpointTypeOK /\ AllInHand /\ AllRowsKept /\ AllJobsKept

-----------------------------------------------------------------------------
(* How the columns, requests and jobs are written.                         *)

(* A request is replaced as a whole, the others stay.                      *)
LEMMA NoRequestType == NoRequest \in Request
  BY EndpointsAssumption DEF NoRequest, Request, Secret

LEMMA RespondType ==
  ASSUME EndpointTypeOK, NEW c \in Clients, Respond(c)
  PROVE  /\ request' \in [Clients -> Request]
         /\ request'[c] = NoRequest
         /\ \A k \in Clients \ {c} : request'[k] = request[k]
  BY NoRequestType DEF Respond, EndpointTypeOK

LEMMA ContinueType ==
  ASSUME EndpointTypeOK, NEW c \in Clients,
         NEW pc \in {"challenge", "read", "subscribe", "delete"},
         NEW id \in Endpoint, NEW status \in EndpointStatus \cup {"keep"},
         NEW todo \in SUBSET (EventTypes \cup {Wildcard}),
         Continue(c, pc, id, status, todo)
  PROVE  /\ request' \in [Clients -> Request]
         /\ request'[c] = [pc |-> pc, id |-> id, status |-> status, secret |-> 0,
                           todo |-> todo, before |-> {}]
         /\ \A k \in Clients \ {c} : request'[k] = request[k]
<1> DEFINE r == [pc |-> pc, id |-> id, status |-> status, secret |-> 0,
                 todo |-> todo, before |-> {}]
<1>1. r \in Request
  BY EndpointsAssumption DEF Request, Secret
<1>2. request' = [request EXCEPT ![c] = r]
  BY DEF Continue
<1> QED BY <1>1, <1>2 DEF EndpointTypeOK

(* Nobody's request is disturbed by a change of the others' or of rows, as *)
(* long as secrets that were handed out stay handed out.                   *)
Older(e) == newest[e] # 0 => newest'[e] # 0

LEMMA OthersInHand ==
  ASSUME EndpointTypeOK, AllInHand, NEW c \in Clients, InHand(c)',
         \A k \in Clients \ {c} : request'[k] = request[k],
         \A e \in Endpoint : Older(e)
  PROVE  AllInHand'
<1> SUFFICES ASSUME NEW k \in Clients \ {c} PROVE InHand(k)'
  BY DEF AllInHand
<1>1. InHand(k) /\ request'[k] = request[k]
  BY DEF AllInHand
<1>2. request[k].pc = "delete" => newest'[request[k].id] # 0
  BY <1>1 DEF InHand, Idles, Pc, Older
<1> QED BY <1>1, <1>2 DEF InHand, Idles, Pc, EndpointStatus, Wildcard, Endpoint

LEMMA RequestsInHand ==
  ASSUME AllInHand, UNCHANGED request, \A e \in Endpoint : Older(e)
  PROVE  AllInHand'
<1> SUFFICES ASSUME NEW k \in Clients PROVE InHand(k)'
  BY DEF AllInHand
<1>1. InHand(k) /\ request'[k] = request[k]
  BY DEF AllInHand
<1>2. request[k].pc = "delete" => newest'[request[k].id] # 0
  BY <1>1 DEF InHand, Idles, Pc, Older
<1> QED BY <1>1, <1>2 DEF InHand, Idles, Pc, EndpointStatus, Wildcard, Endpoint

(* A job stays as good while secrets grow and deletions stay.              *)
LEMMA JobsKept ==
  ASSUME EndpointTypeOK, AllJobsKept, UNCHANGED outbound, newest' \in [Endpoint -> Secret],
         \A e \in Endpoint : newest[e] <= newest'[e], gone \subseteq gone'
  PROVE  AllJobsKept'
<1> SUFFICES ASSUME NEW j \in Outbound PROVE JobKept(j)'
  BY DEF AllJobsKept
<1>1. JobKept(j) /\ outbound'[j] = outbound[j] /\ outbound[j] \in OutboundJob
  BY DEF AllJobsKept, EndpointTypeOK
<1>2. ASSUME outbound[j].status # "none", outbound[j].status \in {"begun", "signed"}
      PROVE  outbound[j].floor <= newest'[outbound[j].id]
  <2>1. outbound[j].id \in Endpoint /\ outbound[j].floor <= newest[outbound[j].id]
    BY <1>1, <1>2 DEF JobKept
  <2>2. /\ outbound[j].floor \in Nat /\ newest[outbound[j].id] \in Nat
        /\ newest'[outbound[j].id] \in Nat
    BY <1>1, <2>1, EndpointsAssumption DEF OutboundJob, Secret, EndpointTypeOK
  <2> QED BY <2>1, <2>2
<1> QED BY <1>1, <1>2 DEF JobKept, Endpoint

-----------------------------------------------------------------------------
LEMMA KeptInit == EndpointInit => Kept
<1> SUFFICES ASSUME EndpointInit PROVE Kept
  OBVIOUS
<1>1. EndpointTypeOK
  BY NoRequestType, EndpointsAssumption
  DEF EndpointInit, EndpointTypeOK, NoRow, NoOutbound, EndpointRow, OutboundJob, Secret,
      Subscription
<1>2. AllInHand
  BY DEF EndpointInit, AllInHand, InHand, Idles, Pc, NoRequest
<1>3. AllRowsKept
  BY EndpointsAssumption DEF EndpointInit, AllRowsKept, RowKept, NoRow
<1>4. AllJobsKept
  BY DEF EndpointInit, AllJobsKept, JobKept, NoOutbound
<1> QED BY <1>1, <1>2, <1>3, <1>4 DEF Kept

(* Requests that leave the rows alone, and the jobs or their own record.   *)
LEMMA RowsSame ==
  ASSUME AllRowsKept, UNCHANGED <<endpoint, secrets, newest, gone>>
  PROVE  AllRowsKept' /\ \A e \in Endpoint : Older(e)
  BY DEF AllRowsKept, RowKept, Older, Endpoint

LEMMA JobsSame ==
  ASSUME EndpointTypeOK, AllJobsKept, UNCHANGED <<outbound, newest>>, gone \subseteq gone'
  PROVE  AllJobsKept'
<1>1. \A e \in Endpoint : newest[e] <= newest'[e]
  BY EndpointsAssumption DEF EndpointTypeOK, Secret
<1> QED BY <1>1, JobsKept DEF EndpointTypeOK

LEMMA ContinueKept ==
  ASSUME Kept, NEW c \in Clients,
         NEW pc \in {"challenge", "read", "subscribe", "delete"},
         NEW id \in Endpoint, NEW status \in EndpointStatus \cup {"keep"},
         NEW todo \in SUBSET (EventTypes \cup {Wildcard}),
         Continue(c, pc, id, status, todo), pc = "delete" => newest[id] # 0,
         UNCHANGED <<endpoint, outbound, secrets, newest, gone>>,
         subscription' \subseteq subscription, patches' \in 0..MaxPatches
  PROVE  Kept'
<1>1. EndpointTypeOK /\ AllInHand /\ AllRowsKept /\ AllJobsKept
  BY DEF Kept
<1>2. /\ request' \in [Clients -> Request]
      /\ request'[c] = [pc |-> pc, id |-> id, status |-> status, secret |-> 0,
                        todo |-> todo, before |-> {}]
      /\ \A k \in Clients \ {c} : request'[k] = request[k]
  BY <1>1, ContinueType
<1>3. EndpointTypeOK'
  BY <1>1, <1>2 DEF EndpointTypeOK
<1>4. AllRowsKept' /\ \A e \in Endpoint : Older(e)
  BY <1>1, RowsSame
<1>5. InHand(c)'
  BY <1>2 DEF InHand, Idles, Pc
<1>6. AllInHand'
  BY <1>1, <1>2, <1>4, <1>5, OthersInHand
<1>7. AllJobsKept'
  BY <1>1, JobsSame
<1> QED BY <1>3, <1>4, <1>6, <1>7 DEF Kept

LEMMA RespondInHand ==
  ASSUME EndpointTypeOK, AllInHand, NEW c \in Clients, Respond(c),
         \A e \in Endpoint : Older(e)
  PROVE  AllInHand' /\ request' \in [Clients -> Request]
<1>1. /\ request' \in [Clients -> Request]
      /\ request'[c] = NoRequest
      /\ \A k \in Clients \ {c} : request'[k] = request[k]
  BY RespondType
<1>2. InHand(c)'
  BY <1>1 DEF InHand, Idles, Pc, NoRequest
<1> QED BY <1>1, <1>2, OthersInHand

LEMMA RespondKept ==
  ASSUME Kept, NEW c \in Clients, Respond(c),
         UNCHANGED <<endpoint, outbound, secrets, patches, newest, gone>>,
         subscription' \subseteq Subscription
  PROVE  Kept'
<1>1. EndpointTypeOK /\ AllInHand /\ AllRowsKept /\ AllJobsKept
  BY DEF Kept
<1>2. AllRowsKept' /\ \A e \in Endpoint : Older(e)
  BY <1>1, RowsSame
<1>3. AllInHand' /\ request' \in [Clients -> Request]
  BY <1>1, <1>2, RespondInHand
<1>4. EndpointTypeOK'
  BY <1>1, <1>3 DEF EndpointTypeOK
<1>5. AllJobsKept'
  BY <1>1, JobsSame
<1> QED BY <1>2, <1>3, <1>4, <1>5 DEF Kept

(* A handler that only changes its own request.                            *)
LEMMA OwnKept ==
  ASSUME Kept, NEW c \in Clients, request' \in [Clients -> Request],
         \A k \in Clients \ {c} : request'[k] = request[k], InHand(c)',
         UNCHANGED <<endpoint, outbound, secrets, patches, newest, gone>>,
         subscription' \subseteq Subscription
  PROVE  Kept'
<1>1. EndpointTypeOK /\ AllInHand /\ AllRowsKept /\ AllJobsKept
  BY DEF Kept
<1>2. AllRowsKept' /\ \A e \in Endpoint : Older(e)
  BY <1>1, RowsSame
<1>3. AllInHand'
  BY <1>1, <1>2, OthersInHand
<1>4. EndpointTypeOK'
  BY <1>1 DEF EndpointTypeOK
<1>5. AllJobsKept'
  BY <1>1, JobsSame
<1> QED BY <1>2, <1>3, <1>4, <1>5 DEF Kept

(* The worker only changes a job.                                          *)
LEMMA DeliveryKept ==
  ASSUME Kept, NEW j \in Outbound, outbound' \in [Outbound -> OutboundJob],
         \A k \in Outbound \ {j} : outbound'[k] = outbound[k], JobKept(j)',
         UNCHANGED <<endpoint, subscription, request, secrets, patches, newest, gone>>
  PROVE  Kept'
<1>1. EndpointTypeOK /\ AllInHand /\ AllRowsKept /\ AllJobsKept
  BY DEF Kept
<1>2. AllRowsKept' /\ \A e \in Endpoint : Older(e)
  BY <1>1, RowsSame
<1>3. AllInHand'
  BY <1>1, <1>2, RequestsInHand
<1>4. EndpointTypeOK'
  BY <1>1 DEF EndpointTypeOK
<1>5. AllJobsKept'
  BY <1>1 DEF AllJobsKept, JobKept, Endpoint
<1> QED BY <1>2, <1>3, <1>4, <1>5 DEF Kept

(* A secret is handed out: the endpoint's newest one becomes newer.        *)
LEMMA Grows ==
  ASSUME EndpointTypeOK, AllRowsKept, NEW e \in Endpoint,
         secrets' \in Secret, secrets' = secrets + 1,
         newest' = [newest EXCEPT ![e] = secrets']
  PROVE  /\ newest' \in [Endpoint -> Secret]
         /\ \A k \in Endpoint : newest[k] <= newest'[k] /\ Older(k)
<1>1. newest' \in [Endpoint -> Secret]
  BY DEF EndpointTypeOK
<1>2. ASSUME NEW k \in Endpoint PROVE newest[k] <= newest'[k] /\ Older(k)
  <2>1. newest[k] \in Nat /\ secrets \in Nat /\ newest[k] <= secrets
    BY EndpointsAssumption DEF EndpointTypeOK, Secret, AllRowsKept, RowKept
  <2>2. newest'[k] = IF k = e THEN secrets + 1 ELSE newest[k]
    BY DEF EndpointTypeOK
  <2> QED BY <2>1, <2>2 DEF Older
<1> QED BY <1>1, <1>2

-----------------------------------------------------------------------------
LEMMA KeptNext == Kept /\ [EndpointNext]_endpointVars => Kept'
<1> SUFFICES ASSUME Kept, [EndpointNext]_endpointVars PROVE Kept'
  OBVIOUS
<1>0. /\ EndpointTypeOK /\ AllInHand /\ AllRowsKept /\ AllJobsKept
      /\ Endpoint \subseteq Nat /\ Secret \subseteq Nat /\ 0 \in Secret
  BY EndpointsAssumption DEF Kept, Endpoint, Secret
<1>1. ASSUME NEW c \in Clients, NEW e \in Endpoint, CreateEndpoint(c, e) PROVE Kept'
  <2>1. /\ secrets' \in Secret /\ secrets' = secrets + 1
        /\ newest' = [newest EXCEPT ![e] = secrets'] /\ newest[e] = 0
        /\ endpoint'[e].status \in EndpointStatus /\ endpoint'[e].secret = secrets'
        /\ endpoint' \in [Endpoint -> EndpointRow]
        /\ \A k \in Endpoint \ {e} : endpoint'[k] = endpoint[k]
        /\ secrets \in Nat
    BY <1>0, <1>1, EndpointsAssumption
    DEF CreateEndpoint, NewSecret, EndpointTypeOK, EndpointStatus, EndpointRow, Secret
  <2>2. /\ newest' \in [Endpoint -> Secret]
        /\ \A k \in Endpoint : newest[k] <= newest'[k] /\ Older(k)
    BY <1>0, <2>1, Grows
  <2>3. AllInHand' /\ request' \in [Clients -> Request]
    <3>1. CASE Respond(c)
      BY <1>0, <2>2, <3>1, RespondInHand
    <3>2. CASE Continue(c, "challenge", e, "active", {})
      <4>1. /\ request' \in [Clients -> Request]
            /\ request'[c] = [pc |-> "challenge", id |-> e, status |-> "active",
                              secret |-> 0, todo |-> {}, before |-> {}]
            /\ \A k \in Clients \ {c} : request'[k] = request[k]
        BY <1>0, <3>2, ContinueType DEF EndpointStatus
      <4>2. InHand(c)'
        BY <4>1 DEF InHand, Idles, Pc
      <4> QED BY <1>0, <2>2, <4>1, <4>2, OthersInHand
    <3> QED BY <1>1, <3>1, <3>2 DEF CreateEndpoint
  <2>4. EndpointTypeOK'
    BY <1>0, <1>1, <2>1, <2>2, <2>3 DEF CreateEndpoint, EndpointTypeOK
  <2>5. AllRowsKept'
    <3> SUFFICES ASSUME NEW k \in Endpoint PROVE RowKept(k)'
      BY DEF AllRowsKept
    <3>1. RowKept(k) /\ RowKept(e) /\ gone' = gone /\ newest[k] \in Nat
      BY <1>0, <1>1 DEF AllRowsKept, CreateEndpoint, EndpointTypeOK
    <3>2. CASE k = e
      BY <1>0, <2>1, <3>1, <3>2 DEF RowKept, EndpointStatus, EndpointTypeOK
    <3>3. CASE k # e
      BY <1>0, <2>1, <3>1, <3>3 DEF RowKept, EndpointTypeOK
    <3> QED BY <3>2, <3>3
  <2>6. AllJobsKept'
    BY <1>0, <1>1, <2>2, JobsKept DEF CreateEndpoint
  <2> QED BY <2>3, <2>4, <2>5, <2>6 DEF Kept
<1>2. ASSUME NEW c \in Clients, ChallengeEnds(c) PROVE Kept'
  <2>1. CASE request' = [request EXCEPT ![c] = NoRequest]
    BY <1>0, <1>2, <2>1, RespondKept DEF ChallengeEnds, Respond, EndpointTypeOK
  <2>2. CASE request' = [request EXCEPT ![c].pc = "read"]
    <3>1. /\ request' \in [Clients -> Request]
          /\ request'[c].pc = "read" /\ request'[c].id = request[c].id
          /\ \A k \in Clients \ {c} : request'[k] = request[k]
      BY <1>0, <2>2 DEF EndpointTypeOK, Request
    <3>2. InHand(c)'
      BY <1>0, <1>2, <3>1 DEF ChallengeEnds, AllInHand, InHand, Idles, Pc, Endpoint
    <3> QED BY <1>0, <1>2, <3>1, <3>2, OwnKept DEF ChallengeEnds, EndpointTypeOK
  <2> QED BY <1>2, <2>1, <2>2 DEF ChallengeEnds
<1>3. ASSUME NEW c \in Clients, NEW e \in Endpoint, VerifyEndpoint(c, e) PROVE Kept'
  BY <1>0, <1>3, ContinueKept, EndpointsAssumption
  DEF VerifyEndpoint, EndpointStatus, Patch, EndpointTypeOK
<1>4. ASSUME NEW c \in Clients, NEW e \in Endpoint, UpdateEndpoint(c, e) PROVE Kept'
  BY <1>0, <1>4, ContinueKept, EndpointsAssumption
  DEF UpdateEndpoint, Patch, EndpointTypeOK
<1>5. ASSUME NEW c \in Clients, ReadRow(c) PROVE Kept'
  <2>1. CASE Respond(c)
    BY <1>0, <1>5, <2>1, RespondKept DEF ReadRow, EndpointTypeOK
  <2>2. CASE ~Respond(c)
    <3> DEFINE row == endpoint[request[c].id]
               status == IF request[c].status = "keep" THEN row.status
                         ELSE request[c].status
    <3>1. /\ request[c].id \in Endpoint /\ row \in EndpointRow
          /\ row.status # "none"
          /\ request' = [request EXCEPT ![c].pc = "write", ![c].secret = row.secret,
                                        ![c].status = status]
      BY <1>0, <1>5, <2>2 DEF ReadRow, AllInHand, InHand, Idles, Pc, EndpointTypeOK
    <3>2. status \in EndpointStatus /\ row.secret \in Secret
      BY <1>0, <3>1 DEF EndpointTypeOK, EndpointRow, Request
    <3> HIDE DEF status, row
    <3>3. request[c] \in Request
      BY <1>0 DEF EndpointTypeOK
    <3> DEFINE r == [request[c] EXCEPT !.pc = "write", !.secret = row.secret,
                                       !.status = status]
    <3>5. /\ r \in Request /\ r.pc = "write" /\ r.id = request[c].id
          /\ r.status = status
      BY <3>2, <3>3 DEF Request
    <3>6. request' = [request EXCEPT ![c] = r]
      BY <3>1
    <3> HIDE DEF r
    <3>7. /\ request' \in [Clients -> Request] /\ request'[c] = r
          /\ \A k \in Clients \ {c} : request'[k] = request[k]
      BY <1>0, <3>5, <3>6 DEF EndpointTypeOK
    <3>4. InHand(c)'
      BY <3>1, <3>2, <3>5, <3>7 DEF InHand, Idles, Pc, Endpoint, EndpointStatus
    <3> QED BY <1>0, <1>5, <3>4, <3>7, OwnKept DEF ReadRow, EndpointTypeOK
  <2> QED BY <2>1, <2>2
<1>6. ASSUME NEW c \in Clients, WriteRow(c) PROVE Kept'
  <2> DEFINE e == request[c].id
             row == Written(endpoint[e], request[c])
  <2>1. e \in Endpoint /\ request[c].status \in EndpointStatus
    BY <1>0, <1>6 DEF WriteRow, AllInHand, InHand, Idles, Pc
  <2>2. endpoint[e] \in EndpointRow
    BY <1>0, <2>1 DEF EndpointTypeOK
  <2>3. /\ row \in EndpointRow /\ row.secret = endpoint[e].secret
        /\ row.status = "none" <=> endpoint[e].status = "none"
    BY <2>1, <2>2 DEF Written, EndpointRow, EndpointStatus
  <2>4. endpoint' = [endpoint EXCEPT ![e] = row]
    BY <1>6 DEF WriteRow
  <2> HIDE DEF row
  <2>5. /\ endpoint' \in [Endpoint -> EndpointRow] /\ endpoint'[e] = row
        /\ \A k \in Endpoint \ {e} : endpoint'[k] = endpoint[k]
    BY <1>0, <2>1, <2>3, <2>4 DEF EndpointTypeOK
  <2>6. UNCHANGED <<subscription, outbound, secrets, patches, newest, gone>>
    BY <1>6 DEF WriteRow
  <2>7. AllInHand' /\ request' \in [Clients -> Request]
    BY <1>0, <1>6, <2>6, RespondInHand DEF WriteRow, Older
  <2>8. EndpointTypeOK'
    BY <1>0, <2>5, <2>6, <2>7 DEF EndpointTypeOK
  <2>9. AllRowsKept'
    BY <1>0, <2>1, <2>3, <2>5, <2>6 DEF AllRowsKept, RowKept, Endpoint
  <2>10. AllJobsKept'
    BY <1>0, <2>6, JobsSame
  <2> QED BY <2>7, <2>8, <2>9, <2>10 DEF Kept
<1>7. ASSUME NEW e \in Endpoint, RotateSecret(e) PROVE Kept'
  <2>1. /\ secrets' \in Secret /\ secrets' = secrets + 1 /\ secrets \in Nat
        /\ newest' = [newest EXCEPT ![e] = secrets']
        /\ endpoint' = [endpoint EXCEPT ![e].secret = secrets']
        /\ endpoint[e].status # "none"
        /\ UNCHANGED <<subscription, request, outbound, patches, gone>>
    BY <1>0, <1>7, EndpointsAssumption
    DEF RotateSecret, NewSecret, Existing, EndpointTypeOK, Secret
  <2>2. /\ endpoint' \in [Endpoint -> EndpointRow]
        /\ endpoint'[e].status = endpoint[e].status /\ endpoint'[e].secret = secrets'
        /\ \A k \in Endpoint \ {e} : endpoint'[k] = endpoint[k]
    BY <1>0, <2>1 DEF EndpointTypeOK, EndpointRow
  <2>3. /\ newest' \in [Endpoint -> Secret]
        /\ \A k \in Endpoint : newest[k] <= newest'[k] /\ Older(k)
    BY <1>0, <2>1, Grows
  <2>4. AllInHand'
    BY <1>0, <2>1, <2>3, RequestsInHand
  <2>5. EndpointTypeOK'
    BY <1>0, <2>1, <2>2, <2>3 DEF EndpointTypeOK
  <2>6. AllRowsKept'
    <3> SUFFICES ASSUME NEW k \in Endpoint PROVE RowKept(k)'
      BY DEF AllRowsKept
    <3>1. RowKept(k) /\ newest[k] \in Nat
      BY <1>0 DEF AllRowsKept, EndpointTypeOK
    <3>2. CASE k = e
      BY <1>0, <2>1, <2>2, <3>1, <3>2 DEF RowKept, EndpointTypeOK
    <3>3. CASE k # e
      BY <1>0, <2>1, <2>2, <3>1, <3>3 DEF RowKept, EndpointTypeOK
    <3> QED BY <3>2, <3>3
  <2>7. AllJobsKept'
    BY <1>0, <2>1, <2>3, JobsKept
  <2> QED BY <2>4, <2>5, <2>6, <2>7 DEF Kept
<1>8. ASSUME NEW c \in Clients, NEW e \in Endpoint, DeleteSubscriptions(c, e) PROVE Kept'
  BY <1>0, <1>8, ContinueKept DEF DeleteSubscriptions, EndpointTypeOK
<1>9. ASSUME NEW c \in Clients, DeleteRow(c) PROVE Kept'
  <2> DEFINE e == request[c].id
  <2>1. e \in Endpoint /\ newest[e] # 0
    BY <1>0, <1>9 DEF DeleteRow, AllInHand, InHand, Idles, Pc
  <2>2. /\ endpoint' = [endpoint EXCEPT ![e] = NoRow] /\ gone' = gone \cup {e}
        /\ UNCHANGED <<subscription, outbound, secrets, patches, newest>>
    BY <1>9 DEF DeleteRow
  <2>3. NoRow \in EndpointRow /\ NoRow.status = "none" /\ NoRow.secret = 0
    BY <1>0 DEF NoRow, EndpointRow
  <2> HIDE DEF e
  <2>4. /\ endpoint' \in [Endpoint -> EndpointRow] /\ endpoint'[e] = NoRow
        /\ \A k \in Endpoint \ {e} : endpoint'[k] = endpoint[k]
    BY <1>0, <2>1, <2>2, <2>3 DEF EndpointTypeOK
  <2>5. AllInHand' /\ request' \in [Clients -> Request]
    BY <1>0, <1>9, <2>2, RespondInHand DEF DeleteRow, Older
  <2>6. EndpointTypeOK'
    BY <1>0, <2>1, <2>2, <2>4, <2>5 DEF EndpointTypeOK
  <2>7. AllRowsKept'
    <3> SUFFICES ASSUME NEW k \in Endpoint PROVE RowKept(k)'
      BY DEF AllRowsKept
    <3>1. RowKept(k)
      BY <1>0 DEF AllRowsKept
    <3>2. CASE k = e
      BY <2>1, <2>2, <2>3, <2>4, <3>1, <3>2 DEF RowKept
    <3>3. CASE k # e
      BY <2>2, <2>4, <3>1, <3>3 DEF RowKept
    <3> QED BY <3>2, <3>3
  <2>8. AllJobsKept'
    BY <1>0, <2>2, JobsSame
  <2> QED BY <2>5, <2>6, <2>7, <2>8 DEF Kept
<1>10. ASSUME NEW c \in Clients, NEW e \in Endpoint, Subscribe(c, e) PROVE Kept'
  <2>1. PICK types \in SUBSET (EventTypes \cup {Wildcard}) :
          Continue(c, "subscribe", e, "keep", types)
    BY <1>10 DEF Subscribe
  <2> QED BY <1>0, <1>10, <2>1, ContinueKept DEF Subscribe, EndpointTypeOK
<1>11. ASSUME NEW c \in Clients, InsertSubscription(c) PROVE Kept'
  <2>1. PICK type \in request[c].todo :
          /\ subscription' = subscription \cup {<<request[c].id, type>>}
          /\ IF request[c].todo = {type} THEN Respond(c)
             ELSE request' = [request EXCEPT ![c].todo = @ \ {type}]
    BY <1>11 DEF InsertSubscription
  <2>2. /\ request[c].id \in Endpoint /\ request[c].todo \subseteq EventTypes \cup {Wildcard}
        /\ request[c].pc = "subscribe" /\ request[c] \in Request
    BY <1>0, <1>11 DEF InsertSubscription, AllInHand, InHand, Idles, Pc, EndpointTypeOK
  <2>3. subscription' \subseteq Subscription
    BY <1>0, <2>1, <2>2 DEF Subscription, EndpointTypeOK
  <2>4. UNCHANGED <<endpoint, outbound, secrets, patches, newest, gone>>
    BY <1>11 DEF InsertSubscription
  <2>5. CASE Respond(c)
    BY <2>3, <2>4, <2>5, RespondKept
  <2>6. CASE request' = [request EXCEPT ![c].todo = @ \ {type}]
    <3> DEFINE r == [request[c] EXCEPT !.todo = @ \ {type}]
    <3>1. /\ r \in Request /\ r.pc = "subscribe" /\ r.id = request[c].id
          /\ r.todo \subseteq request[c].todo
      BY <2>2 DEF Request
    <3>2. request' = [request EXCEPT ![c] = r]
      BY <2>6
    <3> HIDE DEF r
    <3>3. /\ request' \in [Clients -> Request] /\ request'[c] = r
          /\ \A k \in Clients \ {c} : request'[k] = request[k]
      BY <1>0, <3>1, <3>2 DEF EndpointTypeOK
    <3>4. InHand(c)'
      BY <2>2, <3>1, <3>3 DEF InHand, Idles, Pc, Wildcard, Endpoint
    <3> QED BY <2>3, <2>4, <3>3, <3>4, OwnKept
  <2> QED BY <2>1, <2>5, <2>6
<1>12. ASSUME NEW s \in subscription, Unsubscribe(s) PROVE Kept'
  <2>1. UNCHANGED <<endpoint, request, outbound, secrets, patches, newest, gone>>
    BY <1>12 DEF Unsubscribe
  <2>2. EndpointTypeOK'
    BY <1>0, <1>12, <2>1 DEF Unsubscribe, EndpointTypeOK
  <2>3. AllRowsKept' /\ \A e \in Endpoint : Older(e)
    BY <1>0, <2>1, RowsSame
  <2>4. AllInHand'
    BY <1>0, <2>1, <2>3, RequestsInHand
  <2>5. AllJobsKept'
    BY <1>0, <2>1, JobsSame
  <2> QED BY <2>2, <2>3, <2>4, <2>5 DEF Kept
<1>13. ASSUME NEW c \in Clients, NEW type \in EventTypes, FindSubscribed(c, type)
       PROVE  Kept'
  <2> DEFINE r == [pc |-> "fan", id |-> 0, status |-> "keep", secret |-> 0,
                   todo |-> Subscribed(type), before |-> gone]
  <2>1. /\ request' = [request EXCEPT ![c] = r]
        /\ UNCHANGED <<endpoint, subscription, outbound, secrets, patches, newest, gone>>
    BY <1>13 DEF FindSubscribed
  <2>2. Subscribed(type) \subseteq Endpoint \ gone
    BY <1>0 DEF Subscribed, AllRowsKept, RowKept
  <2>3. /\ r \in Request /\ r.pc = "fan" /\ r.todo \subseteq Endpoint \ r.before
    BY <1>0, <2>2 DEF Request, EndpointTypeOK
  <2> HIDE DEF r
  <2>4. /\ request' \in [Clients -> Request] /\ request'[c] = r
        /\ \A k \in Clients \ {c} : request'[k] = request[k]
    BY <1>0, <2>1, <2>3 DEF EndpointTypeOK
  <2>5. InHand(c)'
    BY <2>3, <2>4 DEF InHand, Idles, Pc, Endpoint
  <2> QED BY <1>0, <2>1, <2>4, <2>5, OwnKept DEF EndpointTypeOK
<1>14. ASSUME NEW c \in Clients, InsertOutbound(c) PROVE Kept'
  <2>1. PICK e \in request[c].todo, j \in Outbound :
          /\ outbound' = [outbound EXCEPT ![j] = [status |-> "due", id |-> e, secret |-> 0,
                                                  floor |-> 0, before |-> request[c].before]]
          /\ IF request[c].todo = {e} THEN Respond(c)
             ELSE request' = [request EXCEPT ![c].todo = @ \ {e}]
    BY <1>14 DEF InsertOutbound
  <2>2. UNCHANGED <<endpoint, subscription, secrets, patches, newest, gone>>
    BY <1>14 DEF InsertOutbound
  <2>3. /\ request[c].todo \subseteq Endpoint \ request[c].before
        /\ request[c].pc = "fan" /\ request[c] \in Request
        /\ request[c].before \subseteq Endpoint
    BY <1>0, <1>14 DEF InsertOutbound, AllInHand, InHand, Idles, Pc, EndpointTypeOK, Request
  <2>4. AllRowsKept' /\ \A k \in Endpoint : Older(k)
    BY <1>0, <2>2, RowsSame
  <2>5. AllInHand' /\ request' \in [Clients -> Request]
    <3>1. CASE Respond(c)
      BY <1>0, <2>4, <3>1, RespondInHand
    <3>2. CASE request' = [request EXCEPT ![c].todo = @ \ {e}]
      <4> DEFINE r == [request[c] EXCEPT !.todo = @ \ {e}]
      <4>1. /\ r \in Request /\ r.pc = "fan" /\ r.todo \subseteq Endpoint \ r.before
        BY <2>3 DEF Request
      <4>2. request' = [request EXCEPT ![c] = r]
        BY <3>2
      <4> HIDE DEF r
      <4>3. /\ request' \in [Clients -> Request] /\ request'[c] = r
            /\ \A k \in Clients \ {c} : request'[k] = request[k]
        BY <1>0, <4>1, <4>2 DEF EndpointTypeOK
      <4>4. InHand(c)'
        BY <4>1, <4>3 DEF InHand, Idles, Pc, Endpoint
      <4> QED BY <1>0, <2>4, <4>3, <4>4, OthersInHand
    <3> QED BY <2>1, <3>1, <3>2
  <2> DEFINE job == [status |-> "due", id |-> e, secret |-> 0, floor |-> 0,
                     before |-> request[c].before]
  <2>6. /\ job \in OutboundJob /\ job.status = "due"
        /\ job.id \in Endpoint \ job.before
    BY <1>0, <2>3 DEF OutboundJob
  <2> HIDE DEF job
  <2>7. /\ outbound' \in [Outbound -> OutboundJob] /\ outbound'[j] = job
        /\ \A k \in Outbound \ {j} : outbound'[k] = outbound[k]
    BY <1>0, <2>1, <2>6 DEF EndpointTypeOK, job
  <2>8. EndpointTypeOK'
    BY <1>0, <2>2, <2>5, <2>7 DEF EndpointTypeOK
  <2>9. AllJobsKept'
    BY <1>0, <2>2, <2>6, <2>7 DEF AllJobsKept, JobKept, Endpoint
  <2> QED BY <2>4, <2>5, <2>8, <2>9 DEF Kept
<1>15. ASSUME NEW j \in Outbound, BeginDelivery(j) PROVE Kept'
  <2>1. /\ outbound[j].status = "due" /\ outbound[j] \in OutboundJob /\ JobKept(j)
        /\ outbound[j].id \in Endpoint \ outbound[j].before
    BY <1>0, <1>15 DEF BeginDelivery, EndpointTypeOK, AllJobsKept, JobKept
  <2> DEFINE job == [outbound[j] EXCEPT !.status = "begun", !.floor = newest[outbound[j].id]]
  <2>2. newest[outbound[j].id] \in Secret
    BY <1>0, <2>1 DEF EndpointTypeOK
  <2>3. /\ job \in OutboundJob /\ job.status = "begun" /\ job.id = outbound[j].id
        /\ job.floor = newest[outbound[j].id] /\ job.before = outbound[j].before
    BY <2>1, <2>2 DEF OutboundJob
  <2>4. outbound' = [outbound EXCEPT ![j] = job]
    BY <1>15 DEF BeginDelivery
  <2> HIDE DEF job
  <2>5. /\ outbound' \in [Outbound -> OutboundJob] /\ outbound'[j] = job
        /\ \A k \in Outbound \ {j} : outbound'[k] = outbound[k]
    BY <1>0, <2>3, <2>4 DEF EndpointTypeOK
  <2>6. UNCHANGED <<endpoint, subscription, request, secrets, patches, newest, gone>>
    BY <1>15 DEF BeginDelivery
  <2>7. job.floor <= newest[job.id]
    <3>1. job.floor = newest[job.id] /\ job.floor \in Nat
      BY <1>0, <2>2, <2>3
    <3> QED BY <3>1
  <2>8. JobKept(j)'
    <3>1. /\ outbound'[j].status = "begun" /\ outbound'[j].id = job.id
          /\ outbound'[j].floor = job.floor /\ outbound'[j].before = job.before
          /\ newest' = newest
      BY <2>3, <2>5, <2>6
    <3>2. job.id \in Endpoint \ job.before
      BY <2>1, <2>3
    <3> QED BY <2>7, <3>1, <3>2 DEF JobKept, Endpoint
  <2> QED BY <2>5, <2>6, <2>8, DeliveryKept
<1>16. ASSUME NEW j \in Outbound, ReadSecret(j) PROVE Kept'
  <2> DEFINE e == outbound[j].id
  <2>1. /\ outbound[j].status = "begun" /\ outbound[j] \in OutboundJob /\ JobKept(j)
        /\ e \in Endpoint \ outbound[j].before
        /\ outbound[j].floor <= newest[e]
    BY <1>0, <1>16 DEF ReadSecret, EndpointTypeOK, AllJobsKept, JobKept
  <2>2. RowKept(e) /\ endpoint[e] \in EndpointRow /\ newest[e] \in Nat
        /\ outbound[j].floor \in Nat
    BY <1>0, <2>1 DEF AllRowsKept, EndpointTypeOK, OutboundJob
  <2> DEFINE job == [outbound[j] EXCEPT !.status = "signed", !.secret = endpoint[e].secret]
  <2>3. /\ job \in OutboundJob /\ job.status = "signed" /\ job.id = e
        /\ job.secret = endpoint[e].secret
        /\ job.floor = outbound[j].floor /\ job.before = outbound[j].before
    BY <2>1, <2>2 DEF OutboundJob, EndpointRow
  <2>4. outbound' = [outbound EXCEPT ![j] = job]
    BY <1>16 DEF ReadSecret
  <2> HIDE DEF job, e
  <2>5. \/ job.secret >= job.floor
        \/ job.secret = 0 /\ e \in gone
    <3>1. \/ job.secret = newest[e]
          \/ job.secret = 0 /\ newest[e] = 0
          \/ job.secret = 0 /\ e \in gone
      BY <2>2, <2>3 DEF RowKept
    <3> QED BY <2>1, <2>2, <2>3, <3>1
  <2>6. /\ outbound' \in [Outbound -> OutboundJob] /\ outbound'[j] = job
        /\ \A k \in Outbound \ {j} : outbound'[k] = outbound[k]
    BY <1>0, <2>3, <2>4 DEF EndpointTypeOK
  <2>7. UNCHANGED <<endpoint, subscription, request, secrets, patches, newest, gone>>
    BY <1>16 DEF ReadSecret
  <2>8. JobKept(j)'
    BY <2>1, <2>3, <2>5, <2>6, <2>7 DEF JobKept, Endpoint
  <2> QED BY <2>6, <2>7, <2>8, DeliveryKept
<1>17. ASSUME NEW j \in Outbound, Send(j) PROVE Kept'
  <2>1. PICK status \in {"due", "done"} :
          outbound' = [outbound EXCEPT ![j].status = status, ![j].secret = 0, ![j].floor = 0]
    BY <1>17 DEF Send
  <2>2. /\ outbound[j] \in OutboundJob
        /\ outbound[j].id \in Endpoint \ outbound[j].before
    BY <1>0, <1>17 DEF Send, EndpointTypeOK, AllJobsKept, JobKept
  <2> DEFINE job == [outbound[j] EXCEPT !.status = status, !.secret = 0, !.floor = 0]
  <2>3. /\ job \in OutboundJob /\ job.status \in {"due", "done"}
        /\ job.id = outbound[j].id /\ job.before = outbound[j].before
    BY <1>0, <2>2 DEF OutboundJob
  <2>4. outbound' = [outbound EXCEPT ![j] = job]
    BY <2>1
  <2> HIDE DEF job
  <2>5. /\ outbound' \in [Outbound -> OutboundJob] /\ outbound'[j] = job
        /\ \A k \in Outbound \ {j} : outbound'[k] = outbound[k]
    BY <1>0, <2>3, <2>4 DEF EndpointTypeOK
  <2>6. UNCHANGED <<endpoint, subscription, request, secrets, patches, newest, gone>>
    BY <1>17 DEF Send
  <2>7. JobKept(j)'
    BY <2>2, <2>3, <2>5 DEF JobKept, Endpoint
  <2> QED BY <2>5, <2>6, <2>7, DeliveryKept
<1>18. ASSUME NEW c \in Clients, AbandonRequest(c) PROVE Kept'
  BY <1>0, <1>18, RespondKept DEF AbandonRequest, EndpointTypeOK
<1>19. ASSUME UNCHANGED endpointVars PROVE Kept'
  <2>1. UNCHANGED <<endpoint, subscription, request, outbound, secrets, patches, newest, gone>>
    BY <1>19 DEF endpointVars
  <2>2. EndpointTypeOK'
    BY <1>0, <2>1 DEF EndpointTypeOK
  <2>3. AllRowsKept' /\ \A e \in Endpoint : Older(e)
    BY <1>0, <2>1, RowsSame
  <2>4. AllInHand'
    BY <1>0, <2>1, <2>3, RequestsInHand
  <2>5. AllJobsKept'
    BY <1>0, <2>1, JobsSame
  <2> QED BY <2>2, <2>3, <2>4, <2>5 DEF Kept
<1> QED
  BY <1>1, <1>2, <1>3, <1>4, <1>5, <1>6, <1>7, <1>8, <1>9, <1>10, <1>11, <1>12, <1>13, <1>14,
     <1>15, <1>16, <1>17, <1>18, <1>19
  DEF EndpointNext

-----------------------------------------------------------------------------
(* Type correctness: no handler of the management API and no delivery      *)
(* writes a row, a request or a job outside its domain (api.rs, db.rs).    *)
THEOREM EndpointTypeCorrect == EndpointSpec => []EndpointTypeOK
<1>1. Kept => EndpointTypeOK
  BY DEF Kept
<1> QED BY <1>1, KeptInit, KeptNext, PTL DEF EndpointSpec

(* A delivery that begins after a rotation is never signed with an older   *)
(* secret, for any number of endpoints, requests and rotations: the UPDATE *)
(* of a verification or update that has read the old row leaves the column *)
(* alone (db.rs, update_endpoint; queue.rs, deliver_outbound).             *)
THEOREM RotationCorrect == EndpointSpec => []RotationTakesEffect
<1>1. Kept => RotationTakesEffect
  BY DEF Kept, AllJobsKept, JobKept, RotationTakesEffect
<1> QED BY <1>1, KeptInit, KeptNext, PTL DEF EndpointSpec

(* An event that arrives after a deletion was acknowledged makes no job    *)
(* for the endpoint: no request in progress brings the row back, and the   *)
(* join leaves out the subscriptions that outlive it (db.rs,               *)
(* delete_endpoint, find_subscribed_endpoints).                            *)
THEOREM DeletionFinal == EndpointSpec => []DeletedGetsNothing
<1>1. Kept => DeletedGetsNothing
  BY DEF Kept, AllJobsKept, JobKept, DeletedGetsNothing
<1> QED BY <1>1, KeptInit, KeptNext, PTL DEF EndpointSpec
=============================================================================

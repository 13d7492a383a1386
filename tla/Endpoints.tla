------------------------------ MODULE Endpoints ------------------------------
(***************************************************************************)
(* Outbound endpoints: the management API (api.rs), the statements behind  *)
(* it (db.rs), the fan-out of an event to the endpoints subscribed to it   *)
(* and the signature of a delivery (queue.rs, deliver_outbound).           *)
(*                                                                         *)
(* Every handler executes its statements one by one: a verification awaits *)
(* the endpoint's answer for up to 5 seconds, an update reads the row and  *)
(* then writes it, a deletion takes two statements.  A handler ends where  *)
(* one of them fails.                                                      *)
(*                                                                         *)
(* Urls, descriptions and sources are left out; a secret is the number of  *)
(* the rotation that made it.  The schedule of deliveries is Delivery's.   *)
(***************************************************************************)
EXTENDS Naturals, FiniteSets

CONSTANTS
  MaxEndpoints,       (* bound on the endpoints created                       *)
  Clients,            (* the requests that may be in progress at once         *)
  EventTypes,         (* what an event or a subscription names                *)
  SkipVerification,   (* server.skip_endpoint_verification                    *)
  MaxSecrets,         (* bound on the secrets generated                       *)
  MaxOutbound,        (* bound on the outbound jobs                           *)
  MaxPatches          (* bound on the requests to verify and to update        *)

ASSUME EndpointsAssumption ==
  /\ MaxEndpoints \in Nat /\ MaxSecrets \in Nat /\ MaxOutbound \in Nat
  /\ MaxPatches \in Nat
  /\ SkipVerification \in BOOLEAN

VARIABLES
  endpoint,       (* outbound_endpoints; a deleted row is as good as none     *)
  subscription,   (* outbound_subscriptions                                   *)
  request,        (* where each handler stands                                *)
  outbound,       (* the outbound jobs and their deliveries                   *)
  secrets,        (* secrets generated so far                                 *)
  patches,        (* requests to verify and to update so far                  *)
  newest,         (* history: the secret last handed out for each endpoint    *)
  gone            (* history: the endpoints whose deletion was acknowledged   *)

endpointVars ==
  <<endpoint, subscription, request, outbound, secrets, patches, newest, gone>>

Endpoint == 1..MaxEndpoints      (* ulids *)
Outbound == 1..MaxOutbound
Secret == 0..MaxSecrets          (* 0: the empty default of a missing row     *)
Wildcard == "*"

EndpointStatus == {"pending", "active", "disabled"}
EndpointRow == [status : EndpointStatus \cup {"none"}, secret : Secret]
Subscription == Endpoint \X (EventTypes \cup {Wildcard})

(* What a handler has before it: an endpoint, the status to set ("keep" if *)
(* the body has none), the secret of the row it has read, and the event    *)
(* types or endpoints left to insert.                                      *)
Request == [pc : {"idle", "challenge", "read", "write", "subscribe", "delete", "fan"},
            id : Endpoint \cup {0}, status : EndpointStatus \cup {"keep"}, secret : Secret,
            todo : SUBSET (Endpoint \cup EventTypes \cup {Wildcard}), before : SUBSET Endpoint]

(* floor and before are history: the newest secret when the delivery       *)
(* began, and the endpoints that were gone when the event arrived.         *)
OutboundJob == [status : {"none", "due", "begun", "signed", "done"}, id : Endpoint \cup {0},
                secret : Secret, floor : Secret, before : SUBSET Endpoint]

NoRow == [status |-> "none", secret |-> 0]
NoRequest == [pc |-> "idle", id |-> 0, status |-> "keep", secret |-> 0, todo |-> {}, before |-> {}]
NoOutbound == [status |-> "none", id |-> 0, secret |-> 0, floor |-> 0, before |-> {}]

Existing == {e \in Endpoint : endpoint[e].status # "none"}
Pc(c, pc) == request[c].pc = pc
Respond(c) == request' = [request EXCEPT ![c] = NoRequest]
Continue(c, pc, id, status, todo) ==
  request' = [request EXCEPT ![c] = [pc |-> pc, id |-> id, status |-> status, secret |-> 0,
                                     todo |-> todo, before |-> {}]]

(* generate_signing_secret                                                 *)
NewSecret ==
  /\ secrets < MaxSecrets
  /\ secrets' = secrets + 1
Patch ==
  /\ patches < MaxPatches
  /\ patches' = patches + 1

-----------------------------------------------------------------------------
(* The management API.                                                     *)

(* handle_create_endpoint, as far as its insert; ids are never used again.  *)
CreateEndpoint(c, e) ==
  /\ Pc(c, "idle") /\ newest[e] = 0 /\ \A k \in Endpoint : newest[k] = 0 => e <= k
  /\ NewSecret
  /\ newest' = [newest EXCEPT ![e] = secrets']
  /\ endpoint' = [endpoint EXCEPT ![e] =
                    [status |-> IF SkipVerification THEN "active" ELSE "pending",
                     secret |-> secrets']]
  /\ IF SkipVerification THEN Respond(c) ELSE Continue(c, "challenge", e, "active", {})
  /\ UNCHANGED <<subscription, outbound, patches, gone>>

(* verify_endpoint_ownership: the endpoint returns the challenge, or not.  *)
ChallengeEnds(c) ==
  /\ Pc(c, "challenge")
  /\ request' \in {[request EXCEPT ![c].pc = "read"], [request EXCEPT ![c] = NoRequest]}
  /\ UNCHANGED <<endpoint, subscription, outbound, secrets, patches, newest, gone>>

(* handle_verify_endpoint, as far as its challenge                         *)
VerifyEndpoint(c, e) ==
  /\ Pc(c, "idle") /\ e \in Existing
  /\ Patch
  /\ Continue(c, "challenge", e, "active", {})
  /\ UNCHANGED <<endpoint, subscription, outbound, secrets, newest, gone>>

(* handle_update_endpoint                                                  *)
UpdateEndpoint(c, e) ==
  /\ Pc(c, "idle") /\ newest[e] # 0
  /\ Patch
  /\ \E status \in EndpointStatus \cup {"keep"} : Continue(c, "read", e, status, {})
  /\ UNCHANGED <<endpoint, subscription, outbound, secrets, newest, gone>>

(* update_endpoint: the SELECT, which fills in what the body leaves out.   *)
ReadRow(c) ==
  /\ Pc(c, "read")
  /\ LET row == endpoint[request[c].id]
     IN  IF row.status = "none" THEN Respond(c)
         ELSE request' = [request EXCEPT ![c].pc = "write", ![c].secret = row.secret,
                            ![c].status = IF @ = "keep" THEN row.status ELSE @]
  /\ UNCHANGED <<endpoint, subscription, outbound, secrets, patches, newest, gone>>

(* Mutants of Written: a missing row is inserted; the row is written back  *)
(* as it was read.                                                         *)
WrittenAnyway(row, r) == [status |-> r.status, secret |-> row.secret]
WrittenWhole(row, r) ==
  IF row.status = "none" THEN row ELSE [status |-> r.status, secret |-> r.secret]

(* UPDATE ... SET url, description, status WHERE id: the secret stays, and *)
(* a missing row is no row.                                                *)
Written(row, r) == IF row.status = "none" THEN row ELSE [row EXCEPT !.status = r.status]

WriteRow(c) ==
  /\ Pc(c, "write")
  /\ endpoint' = [endpoint EXCEPT ![request[c].id] = Written(@, request[c])]
  /\ Respond(c)
  /\ UNCHANGED <<subscription, outbound, secrets, patches, newest, gone>>

(* handle_rotate_secret and rotate_endpoint_secret: one UPDATE.            *)
RotateSecret(e) ==
  /\ e \in Existing
  /\ NewSecret
  /\ endpoint' = [endpoint EXCEPT ![e].secret = secrets']
  /\ newest' = [newest EXCEPT ![e] = secrets']
  /\ UNCHANGED <<subscription, request, outbound, patches, gone>>

(* delete_endpoint: the subscriptions, then the row.                       *)
DeleteSubscriptions(c, e) ==
  /\ Pc(c, "idle") /\ newest[e] # 0
  /\ subscription' = {s \in subscription : s[1] # e}
  /\ Continue(c, "delete", e, "keep", {})
  /\ UNCHANGED <<endpoint, outbound, secrets, patches, newest, gone>>

DeleteRow(c) ==
  /\ Pc(c, "delete")
  /\ endpoint' = [endpoint EXCEPT ![request[c].id] = NoRow]
  /\ gone' = gone \cup {request[c].id}
  /\ Respond(c)
  /\ UNCHANGED <<subscription, outbound, secrets, patches, newest>>

(* handle_create_subscriptions: the endpoint is looked up once, and its    *)
(* event types are inserted one by one.                                    *)
Subscribe(c, e) ==
  /\ Pc(c, "idle") /\ e \in Existing
  /\ \E types \in SUBSET (EventTypes \cup {Wildcard}) \ {{}} :
       Continue(c, "subscribe", e, "keep", types)
  /\ UNCHANGED <<endpoint, subscription, outbound, secrets, patches, newest, gone>>

(* insert_subscriptions: ON CONFLICT DO NOTHING.                           *)
InsertSubscription(c) ==
  /\ Pc(c, "subscribe")
  /\ \E type \in request[c].todo :
       /\ subscription' = subscription \cup {<<request[c].id, type>>}
       /\ IF request[c].todo = {type} THEN Respond(c)
          ELSE request' = [request EXCEPT ![c].todo = @ \ {type}]
  /\ UNCHANGED <<endpoint, outbound, secrets, patches, newest, gone>>

(* handle_delete_subscription                                              *)
Unsubscribe(s) ==
  /\ s \in subscription
  /\ subscription' = subscription \ {s}
  /\ UNCHANGED <<endpoint, request, outbound, secrets, patches, newest, gone>>

-----------------------------------------------------------------------------
(* Events and deliveries.                                                  *)

(* find_subscribed_endpoints: the join leaves out what has no endpoint.    *)
Subscribed(type) ==
  {e \in Endpoint : /\ endpoint[e].status = "active"
                    /\ <<e, type>> \in subscription \/ <<e, Wildcard>> \in subscription}

(* process_event_inner asks once, and inserts a job for each answer.       *)
FindSubscribed(c, type) ==
  /\ Pc(c, "idle") /\ Subscribed(type) # {}
  /\ request' = [request EXCEPT ![c] = [pc |-> "fan", id |-> 0, status |-> "keep", secret |-> 0,
                                        todo |-> Subscribed(type), before |-> gone]]
  /\ UNCHANGED <<endpoint, subscription, outbound, secrets, patches, newest, gone>>

InsertOutbound(c) ==
  /\ Pc(c, "fan")
  /\ \E e \in request[c].todo, j \in Outbound :
       /\ outbound[j].status = "none" /\ \A k \in 1..(j - 1) : outbound[k].status # "none"
       /\ outbound' = [outbound EXCEPT ![j] = [status |-> "due", id |-> e, secret |-> 0,
                                               floor |-> 0, before |-> request[c].before]]
       /\ IF request[c].todo = {e} THEN Respond(c)
          ELSE request' = [request EXCEPT ![c].todo = @ \ {e}]
  /\ UNCHANGED <<endpoint, subscription, secrets, patches, newest, gone>>

(* deliver_outbound: it starts,                                            *)
BeginDelivery(j) ==
  /\ outbound[j].status = "due"
  /\ outbound' = [outbound EXCEPT ![j].status = "begun",
                                  ![j].floor = newest[outbound[j].id]]
  /\ UNCHANGED <<endpoint, subscription, request, secrets, patches, newest, gone>>

(* get_endpoint_secret, or the empty default,                              *)
ReadSecret(j) ==
  /\ outbound[j].status = "begun"
  /\ outbound' = [outbound EXCEPT ![j].status = "signed",
                                  ![j].secret = endpoint[outbound[j].id].secret]
  /\ UNCHANGED <<endpoint, subscription, request, secrets, patches, newest, gone>>

(* and is sent, perhaps to be tried again; so is one that a crash cut off. *)
Send(j) ==
  /\ outbound[j].status \in {"begun", "signed"}
  /\ \E status \in {"due", "done"} :
       /\ status = "done" => outbound[j].status = "signed"
       /\ outbound' = [outbound EXCEPT ![j].status = status, ![j].secret = 0, ![j].floor = 0]
  /\ UNCHANGED <<endpoint, subscription, request, secrets, patches, newest, gone>>

(* A statement fails, or the server stops.                                 *)
AbandonRequest(c) ==
  /\ ~Pc(c, "idle")
  /\ Respond(c)
  /\ UNCHANGED <<endpoint, subscription, outbound, secrets, patches, newest, gone>>

-----------------------------------------------------------------------------

EndpointInit ==
  /\ endpoint = [e \in Endpoint |-> NoRow]
  /\ subscription = {}
  /\ request = [c \in Clients |-> NoRequest]
  /\ outbound = [j \in Outbound |-> NoOutbound]
  /\ secrets = 0 /\ patches = 0
  /\ newest = [e \in Endpoint |-> 0]
  /\ gone = {}

EndpointNext ==
  \/ \E c \in Clients, e \in Endpoint :
       \/ CreateEndpoint(c, e) \/ VerifyEndpoint(c, e) \/ UpdateEndpoint(c, e)
       \/ DeleteSubscriptions(c, e) \/ Subscribe(c, e)
  \/ \E c \in Clients :
       \/ ChallengeEnds(c) \/ ReadRow(c) \/ WriteRow(c) \/ DeleteRow(c)
       \/ InsertSubscription(c) \/ InsertOutbound(c) \/ AbandonRequest(c)
  \/ \E c \in Clients, type \in EventTypes : FindSubscribed(c, type)
  \/ \E e \in Endpoint : RotateSecret(e)
  \/ \E s \in subscription : Unsubscribe(s)
  \/ \E j \in Outbound : BeginDelivery(j) \/ ReadSecret(j) \/ Send(j)

EndpointSpec == EndpointInit /\ [][EndpointNext]_endpointVars

-----------------------------------------------------------------------------
(* Properties.                                                             *)

(* Type invariant: rows, requests and deliveries range over what the       *)
(* handlers of api.rs and the statements of db.rs can write.               *)
EndpointTypeOK ==
  /\ endpoint \in [Endpoint -> EndpointRow]
  /\ subscription \subseteq Subscription
  /\ request \in [Clients -> Request]
  /\ outbound \in [Outbound -> OutboundJob]
  /\ secrets \in Secret /\ patches \in 0..MaxPatches
  /\ newest \in [Endpoint -> Secret]
  /\ gone \subseteq Endpoint

(* A rotation takes effect and stays: a delivery that begins after a       *)
(* secret was handed out is not signed with an older one, although         *)
(* verifications and updates read the row before the rotation and write it *)
(* afterwards, and the fan-out saw the secret of its own time (db.rs,      *)
(* update_endpoint; queue.rs, deliver_outbound).  Only a job whose         *)
(* endpoint has been deleted is signed with none.                          *)
RotationTakesEffect ==
  \A j \in Outbound : outbound[j].status = "signed" =>
    \/ outbound[j].secret >= outbound[j].floor
    \/ outbound[j].secret = 0 /\ outbound[j].id \in gone

(* A deletion is final: an event that arrives once it was acknowledged     *)
(* makes no job for the endpoint, whatever verification, update or         *)
(* subscription of it was in progress (db.rs, delete_endpoint and          *)
(* find_subscribed_endpoints, which must pass over orphaned subscriptions). *)
DeletedGetsNothing ==
  \A j \in Outbound : outbound[j].status # "none" =>
    outbound[j].id \notin outbound[j].before
=============================================================================

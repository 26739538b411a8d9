----------------------------- MODULE Submission -----------------------------
(***************************************************************************)
(* How work orders enter (crates/jmcp-app/src/lib.rs, microtasks.rs,       *)
(* autonomous_actions.rs; the routes of crates/jmcp-api/src/routes.rs): an *)
(* envelope signed by another process, a microtask, an autonomous action,  *)
(* or the whole catalogue on behalf of an action.  Each request loads the  *)
(* signer to sign, and again, for every envelope, to verify.  Between its  *)
(* steps other requests go on, any step on a file or on the store may fail,*)
(* and the process may die.                                                *)
(***************************************************************************)
EXTENDS KeyStore, Sequences

CONSTANTS
    Requests,  \* what may be asked for
    Altered,   \* the payload of an envelope somebody has changed
    Refused    \* the payload of a request that was refused

INSTANCE Microtasks

ASSUME RequestsAssumption ==
    \A request \in Requests :
        LET Number(v) == v = None \/ v \in Nat
        IN  \/ request.kind = "envelope"
            \/ /\ request.kind \in { "microtask", "batch" }
               /\ Number(request.overrides.stages) /\ Number(request.overrides.timeout)
            \/ /\ request.kind = "action"
               /\ \A field \in DOMAIN ActionCaps : Number(request.overrides[field])

VARIABLES
    req,     \* where the request of each loader is, with its local variables
    queue,   \* the work orders in the store, as they came
    signed,  \* history: the payloads holders of the key have signed
    sealed   \* history: the requests all of whose payloads have been signed

submitVars == << key, temp, drawn, load, used, faults, req, queue, signed, sealed >>

Alterations == { "none", "payload", "payload and hash", "foreign", "version" }

-----------------------------------------------------------------------------
(* Envelopes.  A hash is the payload it is of; a signature covers the hash *)
(* and whatever else is in the header.                                     *)

(* Envelope::new and LocalSigner::sign.                                    *)
Envelope(payload, seed) ==
    [version |-> TRUE, payload |-> payload, hash |-> payload,
     signature |-> [seed |-> seed, version |-> TRUE, hash |-> payload]]

(* What may happen to an envelope on its way from another process; the     *)
(* foreign one is somebody else's, who holds another key.                 *)
Alter(e, how) ==
    CASE how = "payload"          -> [e EXCEPT !.payload = Altered]
      [] how = "payload and hash" -> [e EXCEPT !.payload = Altered, !.hash = Altered]
      [] how = "foreign"          -> Envelope(Altered, None)
      [] how = "version"          -> [e EXCEPT !.version = FALSE]
      [] OTHER                    -> e

(* A slip: the hash is taken as it comes.                                  *)
ValidByVersion(e) == e.version

(* Envelope::validate.                                                     *)
Valid(e) == e.version /\ e.hash = e.payload

(* verify_local_signature: the signature this signer would make.           *)
Verifies(e, seed) ==
    e.signature = [seed |-> seed, version |-> e.version, hash |-> e.hash]

(* DefaultAttentionPolicy::evaluate.                                       *)
Attention(status) ==
    CASE status = "Failed"           -> { "page" }
      [] status = "AwaitingApproval" -> { "warn" }
      [] OTHER                       -> {}

(* WorkOrder::submit.                                                      *)
StoredOrder(payload, r) ==
    [payload |-> payload, status |-> "Submitted",
     attention |-> Attention("Submitted"), by |-> r]

-----------------------------------------------------------------------------
(* The payloads a request is about, none if it is refused.                 *)
PayloadsOf(request) ==
    LET some(payload) == IF payload = Refused THEN << >> ELSE << payload >>
    IN  CASE request.kind = "envelope"  -> << request.payload >>
          [] request.kind = "microtask" ->
               some(IF Known(request.id)
                    THEN MicrotaskPayload(DefinitionOf(request.id), request.overrides, None)
                    ELSE Refused)
          [] request.kind = "action"    -> some(ActionPayload(request.id, request.overrides))
          [] request.kind = "batch"     -> BatchPayloads(request.id, request.overrides)

(* What is looked at before the signer is loaded.                          *)
Welcome(request) ==
    CASE request.kind = "microtask" -> Known(request.id)
      [] request.kind = "action"    -> PayloadsOf(request) # << >>
      [] request.kind = "batch"     -> request.id \in ActionIds
      [] OTHER                      -> TRUE

New == [pc |-> "new"]

SubmitInit ==
    /\ KeyInit
    /\ req = [r \in Loaders |-> New]
    /\ queue = << >>
    /\ signed = {}
    /\ sealed = {}

Proceeds(r, pc, todo) == req' = [req EXCEPT ![r] = [pc |-> pc, ask |-> @.ask, todo |-> todo]]
Moves(r, pc)        == Proceeds(r, pc, req[r].todo)
KeyRests            == UNCHANGED keyVars
OrSigner(r, ok, pc) ==
    IF ok THEN StartLoad(r) /\ Moves(r, pc) ELSE KeyRests /\ Moves(r, "stopped")

Receive(r) ==
    /\ req[r] = New
    /\ \E request \in Requests :
         LET pc == IF Welcome(request) THEN "signing" ELSE "stopped"
         IN  /\ req' = [req EXCEPT ![r] = [pc |-> pc, ask |-> request, todo |-> << >>]]
             /\ IF Welcome(request) THEN StartLoad(r) ELSE KeyRests
    /\ UNCHANGED << queue, signed, sealed >>

(* All envelopes are made and signed before the first is submitted.        *)
Sign(r) ==
    /\ req[r].pc = "signing"
    /\ load[r].pc = "loaded"
    /\ LET payloads == PayloadsOf(req[r].ask)
           how  == IF req[r].ask.kind = "envelope" THEN req[r].ask.alter ELSE "none"
           todo == [i \in DOMAIN payloads |-> Alter(Envelope(payloads[i], load[r].seed), how)]
       IN  /\ Proceeds(r, IF todo = << >> THEN "stopped" ELSE "submit", todo)
           /\ signed' = signed \cup { payloads[i] : i \in DOMAIN payloads }
           /\ sealed' = sealed \cup { r }
    /\ EndLoad(r)
    /\ UNCHANGED queue

(* submit_envelope up to the signer.                                       *)
Validate(r) ==
    /\ req[r].pc = "submit"
    /\ OrSigner(r, Valid(Head(req[r].todo)), "verify")
    /\ UNCHANGED << queue, signed, sealed >>

Verify(r) ==
    /\ req[r].pc = "verify"
    /\ load[r].pc = "loaded"
    /\ Moves(r, IF Verifies(Head(req[r].todo), load[r].seed) THEN "append" ELSE "stopped")
    /\ EndLoad(r)
    /\ UNCHANGED << queue, signed, sealed >>

(* The signer cannot be loaded: the request ends with the error.           *)
SignerFails(r) ==
    /\ req[r].pc \in { "signing", "verify" }
    /\ load[r].pc = "failed"
    /\ Moves(r, "stopped")
    /\ EndLoad(r)
    /\ UNCHANGED << queue, signed, sealed >>

Appending(r) ==
    /\ req[r].pc = "append"
    /\ queue' = Append(queue, StoredOrder(Head(req[r].todo).payload, r))
    /\ KeyRests
    /\ UNCHANGED << signed, sealed >>

(* A slip: the envelope that was submitted stays on the list.              *)
AppendOrderAgain(r) ==
    /\ Appending(r)
    /\ Moves(r, "submit")

(* append_work_order, under the store lock; then the next envelope.        *)
AppendOrder(r) ==
    /\ Appending(r)
    /\ Proceeds(r, IF Len(req[r].todo) = 1 THEN "stopped" ELSE "submit", Tail(req[r].todo))

(* The store fails: what comes after is not submitted.                     *)
AppendFails(r) ==
    /\ req[r].pc = "append"
    /\ Fault
    /\ Moves(r, "stopped")
    /\ UNCHANGED << key, temp, drawn, load, used, queue, signed, sealed >>

LoadGoesOn(r) ==
    /\ LoadStep(r)
    /\ UNCHANGED << req, queue, signed, sealed >>

(* The process dies while it loads the signer for a request.               *)
Abort(r) ==
    /\ Die(r)
    /\ Moves(r, "stopped")
    /\ UNCHANGED << queue, signed, sealed >>

SubmitNext ==
    \E r \in Loaders :
        \/ Receive(r) \/ Sign(r) \/ Validate(r) \/ Verify(r) \/ SignerFails(r)
        \/ AppendOrder(r) \/ AppendFails(r) \/ LoadGoesOn(r) \/ Abort(r)

SubmitSpec == SubmitInit /\ [][SubmitNext]_submitVars

-----------------------------------------------------------------------------
(* Properties. *)

(* Where the orders of a request are in the store, and which of them the   *)
(* one at place i is.                                                      *)
PlacesOf(r) == { i \in DOMAIN queue : queue[i].by = r }
Nth(r, i)   == Cardinality({ j \in PlacesOf(r) : j =< i })

Received == { r \in Loaders : req[r] # New }

(* The type of every variable; no request makes more orders than it asks   *)
(* for.                                                                    *)
SubmitTypeOK ==
    /\ KeyTypeOK
    /\ \A r \in Received :
         /\ req[r].ask \in Requests
         /\ req[r].pc \in { "signing", "submit", "verify", "append", "stopped" }
         /\ Cardinality(PlacesOf(r)) =< Len(PayloadsOf(req[r].ask))

(* Nothing enters the store but what a holder of the key has signed, as it *)
(* was signed.                                                             *)
StoredAsSigned == \A i \in DOMAIN queue : queue[i].payload \in signed

(* However a batch is interrupted and whoever else submits meanwhile, what *)
(* it leaves in the store is the front of the catalogue in its order, and  *)
(* overrides that one entry refuses leave nothing.                         *)
BatchIsPrefix ==
    \A r \in { b \in Received : req[b].ask.kind = "batch" } :
        LET ask == req[r].ask
        IN  /\ \A i \in PlacesOf(r) : queue[i].payload.id = Catalogue[Nth(r, i)].id
            /\ PlacesOf(r) # {} =>
                 \A i \in DOMAIN Catalogue :
                     MicrotaskPayload(Catalogue[i], ask.overrides, ask.id) # Refused

(* What the card of an entry, or of the actions, allows.                   *)
WithinCard(payload) ==
    IF payload.task = "microtask"
    THEN /\ payload.stages \in 1 .. DefinitionOf(payload.id).stages
         /\ payload.timeout \in 1 .. DefinitionOf(payload.id).timeout
         /\ TRUE \notin { payload.live, payload.network, payload.gpu, payload.durable }
    ELSE /\ ~ payload.live
         /\ \A field \in DOMAIN ActionCaps :
              payload.caps[field] \in 1 .. ActionCaps[field]

(* No override widens what an entry of the catalogue or an action may do.  *)
OrdersWithinCard ==
    \A i \in DOMAIN queue :
        req[queue[i].by].ask.kind # "envelope" => WithinCard(queue[i].payload)

-----------------------------------------------------------------------------
(* What all of it amounts to. *)

(* What each request has asked for, how much of it is in the store, and    *)
(* the store without the status of orders.                                 *)
Wish   == [request \in Requests |-> PayloadsOf(request)]
Wanted == [r \in Received |-> Wish[req[r].ask]]
Count  == [r \in Received |-> Cardinality(PlacesOf(r))]
Stored == [i \in DOMAIN queue |-> [by |-> queue[i].by, payload |-> queue[i].payload]]

Desk == INSTANCE Intake WITH
          Clients <- Loaders,
          Wishes  <- { Wish[request] : request \in Requests },
          asked   <- Wanted,
          entered <- Count,
          sealed  <- sealed,
          stored  <- Stored

(* Of each request the store receives a front of what it asked for, in its *)
(* order, all of it signed before the first of it is stored, and nothing   *)
(* else; whatever happens to envelopes on their way, whoever else submits, *)
(* and wherever loads, writes and processes stop.                          *)
ImplementsIntake == Desk!Spec
=============================================================================

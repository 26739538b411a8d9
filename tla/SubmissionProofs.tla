--------------------------- MODULE SubmissionProofs ---------------------------
(***************************************************************************)
(* Theorems about Submission, for every set of processes and seeds, every  *)
(* set of requests and every number of faults.                             *)
(*                                                                         *)
(* Submission does with the key what KeyStore does, so that what holds of  *)
(* every signer there holds here.  That nothing unsigned is stored then    *)
(* follows each envelope on its way: SubmitInv says what the checks behind *)
(* it have established at each step of its request.  AlongInv counts what  *)
(* a request has stored, among the orders of the others, and what it has   *)
(* still to store.  Together they give the refinement: what a request is   *)
(* about to store is the next of what it asked for, and the whole list was *)
(* signed for this request before (SealInv).                               *)
(***************************************************************************)
EXTENDS Submission, KeyStoreProofs, SequenceTheorems

PayloadsIn(request) == { PayloadsOf(request)[i] : i \in DOMAIN PayloadsOf(request) }

(* Whatever may be in an envelope.                                         *)
Payloads == { Altered } \cup UNION { PayloadsIn(request) : request \in Requests }

Envelopes ==
    [version : BOOLEAN, payload : Payloads, hash : Payloads,
     signature : [seed : Seeds \cup { None }, version : BOOLEAN, hash : Payloads]]

RequestStates ==
    { New } \cup
    [pc : { "signing", "submit", "verify", "append", "stopped" },
     ask : Requests, todo : Seq(Envelopes)]

StoredOrders ==
    [payload : Payloads, status : { "Submitted" }, attention : { {} }, by : Loaders]

RequestTyped ==
    /\ req \in [Loaders -> RequestStates]
    /\ queue \in Seq(StoredOrders)

(* A signature of the key is of something among s.                         *)
Vouched(e, s) == e.signature.seed \in Seeds => e.signature.hash \in s

(* What a request in the given state knows of its envelopes, when s is     *)
(* what has been signed: the key's signature in them is of something it    *)
(* asked for, and what it is about to store is.                            *)
Sound(state, s) ==
    /\ \A i \in DOMAIN state.todo : Vouched(state.todo[i], s \cap PayloadsIn(state.ask))
    /\ state.pc \in { "submit", "verify", "append" } => state.todo # << >>
    /\ state.pc \in { "verify", "append" } => Valid(Head(state.todo))
    /\ state.pc = "append" => Head(state.todo).payload \in s \cap PayloadsIn(state.ask)

EnvelopeInv == \A r \in Loaders : req[r] # New => Sound(req[r], signed)

(* Only a request that waits for a signer loads the key.                   *)
LoadInv ==
    \A r \in Loaders : load[r].pc # "idle" => req[r].pc \in { "signing", "verify" }

(* What is stored was signed, and asked for by the request it came with.   *)
QueueInv ==
    \A i \in DOMAIN queue :
        LET by == queue[i].by
        IN  /\ queue[i].payload \in signed
            /\ req[by] # New
            /\ queue[i].payload \in PayloadsIn(req[by].ask)

(* What a request submits has all been signed for it before.               *)
SealInv == \A r \in Loaders : req[r].pc \in { "submit", "verify", "append" } => r \in sealed

SubmitInv ==
    /\ KeyInv
    /\ RequestTyped
    /\ SealInv
    /\ LoadInv
    /\ EnvelopeInv
    /\ QueueInv

-----------------------------------------------------------------------------
(* Nothing is submitted before Sign, and what is sealed stays sealed.      *)
LEMMA SealStep ==
    ASSUME RequestTyped, SealInv, [SubmitNext]_submitVars
    PROVE  SealInv'
<1>1. ASSUME UNCHANGED << req, sealed >> PROVE SealInv'
  BY <1>1 DEF SealInv
<1>2. ASSUME NEW r \in Loaders, NEW state, req' = [req EXCEPT ![r] = state],
             sealed \subseteq sealed',
             state.pc \in { "submit", "verify", "append" } => r \in sealed'
      PROVE  SealInv'
  BY <1>2 DEF SealInv, RequestTyped
<1>3. ASSUME NEW r \in Loaders, Receive(r) PROVE SealInv'
  <2>1. PICK request \in Requests :
          req' = [req EXCEPT ![r] = [pc   |-> IF Welcome(request) THEN "signing" ELSE "stopped",
                                     ask  |-> request,
                                     todo |-> << >>]]
    BY <1>3 DEF Receive
  <2> DEFINE state == [pc   |-> IF Welcome(request) THEN "signing" ELSE "stopped",
                       ask  |-> request,
                       todo |-> << >>]
  <2>2. sealed' = sealed /\ state.pc \notin { "submit", "verify", "append" }
    BY <1>3 DEF Receive
  <2> HIDE DEF state
  <2> QED BY <1>2, <2>1, <2>2 DEF state
<1>4. ASSUME NEW r \in Loaders,
             Sign(r) \/ Validate(r) \/ Verify(r) \/ SignerFails(r) \/ AppendOrder(r)
             \/ AppendFails(r) \/ Abort(r)
      PROVE  SealInv'
  <2>1. /\ sealed \subseteq sealed'
        /\ \E pc, todo : Proceeds(r, pc, todo) /\ (pc # "stopped" => r \in sealed')
    BY <1>4 DEF Sign, Validate, OrSigner, Verify, SignerFails, AppendOrder, Appending,
       AppendFails, Abort, Moves, SealInv
  <2>2. PICK pc, todo : Proceeds(r, pc, todo) /\ (pc # "stopped" => r \in sealed')
    BY <2>1
  <2> DEFINE state == [pc |-> pc, ask |-> req[r].ask, todo |-> todo]
  <2>3. req' = [req EXCEPT ![r] = state]
    BY <2>2 DEF Proceeds, RequestTyped
  <2>4. state.pc = pc
    OBVIOUS
  <2> HIDE DEF state
  <2> QED BY <1>2, <2>1, <2>2, <2>3, <2>4
<1> QED
  BY <1>1, <1>3, <1>4 DEF SubmitNext, LoadGoesOn, submitVars

-----------------------------------------------------------------------------
(* Requests and the key. *)

LEMMA AppendFailsKeyInv ==
    ASSUME KeyInv, NEW r \in Loaders, AppendFails(r)
    PROVE  KeyInv'
<1>1. faults' \in 0 .. MaxFaults
  BY FaultIsTyped DEF KeyInv, AppendFails
<1> QED BY <1>1 DEF AppendFails, KeyInv, KeyTypeOK, KeyIsForGood

LEMMA SubmitStepKeyInv == KeyInv /\ [SubmitNext]_submitVars => KeyInv'
<1> SUFFICES ASSUME KeyInv, [SubmitNext]_submitVars
             PROVE  KeyInv'
  OBVIOUS
<1>1. CASE UNCHANGED submitVars
  BY <1>1, KeyStepInv DEF submitVars, keyVars
<1>2. ASSUME NEW r \in Loaders,
             \/ Receive(r) \/ Sign(r) \/ Validate(r) \/ Verify(r) \/ SignerFails(r)
             \/ AppendOrder(r) \/ LoadGoesOn(r) \/ Abort(r)
      PROVE  KeyInv'
  <2>1. StartLoad(r) \/ LoadStep(r) \/ EndLoad(r) \/ Die(r) \/ UNCHANGED keyVars
    BY <1>2 DEF Receive, Sign, Validate, Verify, OrSigner, SignerFails, AppendOrder,
       Appending, KeyRests, LoadGoesOn, Abort
  <2>2. [KeyNext]_keyVars
    BY <2>1 DEF KeyNext
  <2> QED BY <2>2, KeyStepInv
<1> QED BY <1>1, <1>2, AppendFailsKeyInv DEF SubmitNext

LEMMA SubmitInitKeyInv == SubmitInit => KeyInv
BY KeyInitInv DEF SubmitInit

(* A request does to the temporary files what its loader does; one that    *)
(* fails elsewhere leaves them alone.                                      *)
LEMMA SubmitStepTemps == KeyInv /\ TempInv /\ [SubmitNext]_submitVars => TempInv'
<1> SUFFICES ASSUME KeyTypeOK, TempInv, [SubmitNext]_submitVars
             PROVE  TempInv'
  BY DEF KeyInv
<1>1. CASE UNCHANGED submitVars
  BY <1>1, TempStep DEF submitVars, keyVars
<1>2. ASSUME NEW r \in Loaders,
             \/ Receive(r) \/ Sign(r) \/ Validate(r) \/ Verify(r) \/ SignerFails(r)
             \/ AppendOrder(r) \/ LoadGoesOn(r) \/ Abort(r)
      PROVE  TempInv'
  <2>1. StartLoad(r) \/ LoadStep(r) \/ EndLoad(r) \/ Die(r) \/ UNCHANGED keyVars
    BY <1>2 DEF Receive, Sign, Validate, Verify, OrSigner, SignerFails, AppendOrder,
       Appending, KeyRests, LoadGoesOn, Abort
  <2>2. [KeyNext]_keyVars
    BY <2>1 DEF KeyNext
  <2> QED BY <2>2, TempStep
<1>3. ASSUME NEW r \in Loaders, AppendFails(r)
      PROVE  TempInv'
  <2>1. Stale' = Stale /\ faults' = faults + 1
    BY <1>3 DEF AppendFails, Fault, Stale, Held
  <2> QED BY <2>1, NothingMoreStale
<1> QED BY <1>1, <1>2, <1>3 DEF SubmitNext

-----------------------------------------------------------------------------
(* What a request is about. *)

LEMMA CatalogueDomain == DOMAIN Catalogue = 1 .. 7
BY DEF Catalogue

LEMMA PayloadsAreSequences ==
    ASSUME NEW request \in Requests
    PROVE  \E n \in Nat : /\ DOMAIN PayloadsOf(request) = 1 .. n
                          /\ n = 0 => PayloadsOf(request) = << >>
<1>1. CASE request.kind = "batch"
  <2> DEFINE Of(i) == MicrotaskPayload(Catalogue[i], request.overrides, request.id)
             all == [i \in DOMAIN Catalogue |-> Of(i)]
  <2>1. PayloadsOf(request) =
          IF request.id \in ActionIds /\ \A i \in DOMAIN all : all[i] # Refused
          THEN all ELSE << >>
    BY <1>1 DEF PayloadsOf, BatchPayloads
  <2> HIDE DEF Of
  <2>2. DOMAIN all = 1 .. 7
    BY CatalogueDomain
  <2> HIDE DEF all
  <2>3. CASE PayloadsOf(request) = all
    <3> WITNESS 7 \in Nat
    <3> QED BY <2>2, <2>3
  <2>4. CASE PayloadsOf(request) = << >>
    <3> WITNESS 0 \in Nat
    <3> QED BY <2>4
  <2> QED BY <2>1, <2>3, <2>4
<1>2. CASE request.kind = "envelope"
  <2>1. PayloadsOf(request) = << request.payload >>
    BY <1>2 DEF PayloadsOf
  <2> QED BY <2>1
<1>3. CASE request.kind = "microtask"
  <2> DEFINE payload == IF Known(request.id)
                        THEN MicrotaskPayload(DefinitionOf(request.id), request.overrides, None)
                        ELSE Refused
  <2>1. PayloadsOf(request) = IF payload = Refused THEN << >> ELSE << payload >>
    BY <1>3 DEF PayloadsOf
  <2> HIDE DEF payload
  <2> QED BY <2>1
<1>4. CASE request.kind = "action"
  <2> DEFINE payload == ActionPayload(request.id, request.overrides)
  <2>1. PayloadsOf(request) = IF payload = Refused THEN << >> ELSE << payload >>
    BY <1>4 DEF PayloadsOf
  <2> HIDE DEF payload
  <2> QED BY <2>1
<1> QED BY <1>1, <1>2, <1>3, <1>4, RequestsAssumption

LEMMA PayloadsAreTyped ==
    ASSUME NEW request \in Requests, NEW i \in DOMAIN PayloadsOf(request)
    PROVE  PayloadsOf(request)[i] \in Payloads
BY DEF Payloads, PayloadsIn

(* The entries of the catalogue have different ids and positive budgets.   *)
LEMMA CatalogueEntries ==
    ASSUME NEW i \in DOMAIN Catalogue
    PROVE  /\ Catalogue[i].stages \in Nat /\ Catalogue[i].stages > 0
           /\ Catalogue[i].timeout \in Nat /\ Catalogue[i].timeout > 0
           /\ DefinitionOf(Catalogue[i].id) = Catalogue[i]
<1>1. Catalogue[i].stages \in Nat /\ Catalogue[i].stages > 0
  BY CatalogueDomain DEF Catalogue, Microtask
<1>2. Catalogue[i].timeout \in Nat /\ Catalogue[i].timeout > 0
  BY CatalogueDomain DEF Catalogue, Microtask
<1>3. ASSUME NEW j \in DOMAIN Catalogue, Catalogue[j].id = Catalogue[i].id
      PROVE  i = j
  BY <1>3, CatalogueDomain DEF Catalogue, Microtask
<1>4. DefinitionOf(Catalogue[i].id) = Catalogue[i]
  BY <1>3 DEF DefinitionOf
<1> QED BY <1>1, <1>2, <1>4

(* Bounded overrides keep a payload within its entry's card.               *)
LEMMA MicrotaskWithinCard ==
    ASSUME NEW i \in DOMAIN Catalogue, NEW o, NEW parent,
           o.stages = None \/ o.stages \in Nat, o.timeout = None \/ o.timeout \in Nat,
           MicrotaskPayload(Catalogue[i], o, parent) # Refused
    PROVE  WithinCard(MicrotaskPayload(Catalogue[i], o, parent))
<1> DEFINE d == Catalogue[i]
           payload == MicrotaskPayload(d, o, parent)
<1>1. Bounded(o.stages, d.stages) /\ Bounded(o.timeout, d.timeout)
  BY DEF MicrotaskPayload
<1>2. /\ payload.task = "microtask"
      /\ payload.id = d.id
      /\ payload.stages = Given(o.stages, d.stages)
      /\ payload.timeout = Given(o.timeout, d.timeout)
      /\ ~ payload.live /\ ~ payload.network /\ ~ payload.gpu /\ ~ payload.durable
  BY DEF MicrotaskPayload
<1>3. d.stages \in Nat /\ d.stages > 0 /\ d.timeout \in Nat /\ d.timeout > 0
  BY CatalogueEntries
<1>4. payload.stages \in 1 .. d.stages /\ payload.timeout \in 1 .. d.timeout
  BY <1>1, <1>2, <1>3 DEF Bounded, Given
<1>5. DefinitionOf(payload.id) = d
  BY <1>2, CatalogueEntries
<1> HIDE DEF payload, d
<1>6. WithinCard(payload)
  BY <1>2, <1>4, <1>5 DEF WithinCard
<1> QED BY <1>6 DEF payload, d

(* The same of actions.                                                    *)
LEMMA ActionWithinCard ==
    ASSUME NEW id, NEW o, \A field \in DOMAIN ActionCaps : o[field] = None \/ o[field] \in Nat,
           ActionPayload(id, o) # Refused
    PROVE  WithinCard(ActionPayload(id, o))
<1> DEFINE payload == ActionPayload(id, o)
<1>1. \A field \in DOMAIN ActionCaps : Bounded(o[field], ActionCaps[field])
  BY DEF ActionPayload
<1>2. /\ payload.task = "action"
      /\ ~ payload.live
      /\ \A field \in DOMAIN ActionCaps : payload.caps[field] = Given(o[field], ActionCaps[field])
  BY DEF ActionPayload
<1>3. \A field \in DOMAIN ActionCaps : ActionCaps[field] \in Nat /\ ActionCaps[field] > 0
  BY DEF ActionCaps
<1>4. \A field \in DOMAIN ActionCaps : payload.caps[field] \in 1 .. ActionCaps[field]
  BY <1>1, <1>2, <1>3 DEF Bounded, Given
<1> HIDE DEF payload
<1>5. WithinCard(payload)
  BY <1>2, <1>4 DEF WithinCard
<1> QED BY <1>5 DEF payload

LEMMA AskedWithinCard ==
    ASSUME NEW request \in Requests, request.kind # "envelope",
           NEW payload \in PayloadsIn(request)
    PROVE  WithinCard(payload)
<1> DEFINE Number(v) == v = None \/ v \in Nat
<1>1. PICK k \in DOMAIN PayloadsOf(request) : payload = PayloadsOf(request)[k]
  BY DEF PayloadsIn
<1>2. CASE request.kind = "microtask"
  <2> DEFINE i == CHOOSE i \in DOMAIN Catalogue : Catalogue[i].id = request.id
             p == IF Known(request.id)
                  THEN MicrotaskPayload(DefinitionOf(request.id), request.overrides, None)
                  ELSE Refused
  <2>1. PayloadsOf(request) = IF p = Refused THEN << >> ELSE << p >>
    BY <1>2 DEF PayloadsOf
  <2>2. p # Refused /\ payload = p
    <3> HIDE DEF p
    <3> QED BY <1>1, <2>1
  <2>3. Known(request.id) /\ p = MicrotaskPayload(DefinitionOf(request.id), request.overrides, None)
    BY <2>2
  <2>4. i \in DOMAIN Catalogue /\ DefinitionOf(request.id) = Catalogue[i]
    BY <2>3 DEF Known, DefinitionOf
  <2>5. Number(request.overrides.stages) /\ Number(request.overrides.timeout)
    BY <1>2, RequestsAssumption
  <2> HIDE DEF i, p
  <2> QED BY <2>2, <2>3, <2>4, <2>5, MicrotaskWithinCard
<1>3. CASE request.kind = "action"
  <2> DEFINE p == ActionPayload(request.id, request.overrides)
  <2>1. PayloadsOf(request) = IF p = Refused THEN << >> ELSE << p >>
    BY <1>3 DEF PayloadsOf
  <2>2. p # Refused /\ payload = p
    <3> HIDE DEF p
    <3> QED BY <1>1, <2>1
  <2>3. \A field \in DOMAIN ActionCaps : Number(request.overrides[field])
    BY <1>3, RequestsAssumption
  <2> QED BY <2>2, <2>3, ActionWithinCard
<1>4. CASE request.kind = "batch"
  <2> DEFINE Of(i) == MicrotaskPayload(Catalogue[i], request.overrides, request.id)
             all == [i \in DOMAIN Catalogue |-> Of(i)]
  <2>1. PayloadsOf(request) =
          IF request.id \in ActionIds /\ \A i \in DOMAIN all : all[i] # Refused
          THEN all ELSE << >>
    BY <1>4 DEF PayloadsOf, BatchPayloads
  <2>2. k \in DOMAIN Catalogue /\ payload = Of(k) /\ Of(k) # Refused
    <3> HIDE DEF Of
    <3> QED BY <1>1, <2>1
  <2>3. Number(request.overrides.stages) /\ Number(request.overrides.timeout)
    BY <1>4, RequestsAssumption
  <2> QED BY <2>2, <2>3, MicrotaskWithinCard
<1> QED BY <1>2, <1>3, <1>4, RequestsAssumption

LEMMA EnvelopeIsTyped ==
    ASSUME NEW payload \in Payloads, NEW seed \in Seeds \cup { None }
    PROVE  Envelope(payload, seed) \in Envelopes
BY DEF Envelope, Envelopes

LEMMA AlteredIsTyped ==
    ASSUME NEW e \in Envelopes, NEW how
    PROVE  Alter(e, how) \in Envelopes
<1>1. Altered \in Payloads
  BY DEF Payloads
<1>2. Envelope(Altered, None) \in Envelopes
  BY <1>1, EnvelopeIsTyped
<1> QED BY <1>1, <1>2 DEF Alter, Envelopes

(* Whatever happens to an envelope, the key's signature in it is of what   *)
(* the holder of the key signed.                                           *)
LEMMA AlteredIsVouched ==
    ASSUME NEW s, NEW payload \in s, NEW seed \in Seeds, NEW how
    PROVE  Vouched(Alter(Envelope(payload, seed), how), s)
BY SeedsAssumption DEF Vouched, Alter, Envelope

-----------------------------------------------------------------------------
(* One lemma for each step. *)

LEMMA SubmitInitInv == SubmitInit => SubmitInv
<1> SUFFICES ASSUME SubmitInit PROVE SubmitInv
  OBVIOUS
<1>1. KeyInv
  BY SubmitInitKeyInv
<1>2. RequestTyped
  BY DEF SubmitInit, RequestTyped, RequestStates
<1>3. LoadInv
  BY DEF SubmitInit, KeyInit, LoadInv
<1>4. EnvelopeInv
  BY DEF SubmitInit, EnvelopeInv
<1>5. QueueInv
  BY DEF SubmitInit, QueueInv
<1>6. SealInv
  BY DEF SubmitInit, SealInv, New
<1> QED BY <1>1, <1>2, <1>3, <1>4, <1>5, <1>6 DEF SubmitInv

(* A request that has been received, and nothing else, has locals.         *)
LEMMA LocalsTyped ==
    ASSUME RequestTyped, NEW r \in Loaders, req[r].pc # "new"
    PROVE  /\ req[r] # New
           /\ req[r].pc \in { "signing", "submit", "verify", "append", "stopped" }
           /\ req[r].ask \in Requests
           /\ req[r].todo \in Seq(Envelopes)
<1>1. req[r] \in RequestStates /\ req[r] # New
  BY DEF RequestTyped, New
<1>2. req[r] \in [pc : { "signing", "submit", "verify", "append", "stopped" },
                   ask : Requests, todo : Seq(Envelopes)]
  BY <1>1 DEF RequestStates
<1> QED BY <1>1, <1>2

(* What it submits next is its first envelope.                             *)
LEMMA FirstEnvelope ==
    ASSUME RequestTyped, EnvelopeInv, NEW r \in Loaders,
           req[r].pc \in { "submit", "verify", "append" }
    PROVE  /\ Sound(req[r], signed)
           /\ req[r].todo # << >>
           /\ Head(req[r].todo) \in Envelopes
           /\ Vouched(Head(req[r].todo), signed \cap PayloadsIn(req[r].ask))
<1>1. /\ req[r].todo \in Seq(Envelopes)
      /\ Sound(req[r], signed)
  BY LocalsTyped DEF EnvelopeInv
<1>2. req[r].todo # << >> /\ \A i \in DOMAIN req[r].todo :
        Vouched(req[r].todo[i], signed \cap PayloadsIn(req[r].ask))
  BY <1>1 DEF Sound
<1>3. Head(req[r].todo) = req[r].todo[1] /\ 1 \in DOMAIN req[r].todo
  BY <1>1, <1>2
<1>4. Vouched(req[r].todo[1], signed \cap PayloadsIn(req[r].ask))
  BY <1>2, <1>3
<1>5. req[r].todo[1] \in Envelopes
  BY <1>1, <1>3
<1> QED BY <1>1, <1>2, <1>3, <1>4, <1>5

(* The step of one request: its own state is in order afterwards, and the  *)
(* others lose nothing when more has been signed.                          *)
LEMMA OneRequestSteps ==
    ASSUME RequestTyped, EnvelopeInv, NEW r \in Loaders,
           NEW state \in RequestStates, state # New => Sound(state, signed'),
           req' = [req EXCEPT ![r] = state], signed \subseteq signed'
    PROVE  req' \in [Loaders -> RequestStates] /\ EnvelopeInv'
<1>1. req' \in [Loaders -> RequestStates]
  BY DEF RequestTyped
<1>2. ASSUME NEW q \in Loaders, req'[q] # New
      PROVE  Sound(req'[q], signed')
  <2>1. CASE q = r
    BY <1>2, <2>1 DEF RequestTyped
  <2>2. CASE q # r
    <3>1. req'[q] = req[q] /\ Sound(req[q], signed)
      BY <1>2, <2>2 DEF RequestTyped, EnvelopeInv
    <3> QED BY <3>1 DEF Sound, Vouched
  <2> QED BY <2>1, <2>2
<1> QED BY <1>1, <1>2 DEF EnvelopeInv

LEMMA StoredByLoader ==
    ASSUME RequestTyped, NEW i \in DOMAIN queue
    PROVE  queue[i].by \in Loaders
<1>1. queue[i] \in StoredOrders
  BY DEF RequestTyped
<1> QED BY <1>1 DEF StoredOrders

(* While nothing is stored, what is stored stays accounted for.            *)
LEMMA QueueKept ==
    ASSUME RequestTyped, QueueInv, NEW r \in Loaders, NEW state,
           state # New, req[r] # New => state.ask = req[r].ask,
           req' = [req EXCEPT ![r] = state], queue' = queue, signed \subseteq signed'
    PROVE  QueueInv'
<1> SUFFICES ASSUME NEW i \in DOMAIN queue
             PROVE  LET by == queue[i].by
                    IN  /\ queue[i].payload \in signed'
                        /\ req'[by] # New
                        /\ queue[i].payload \in PayloadsIn(req'[by].ask)
  BY DEF QueueInv
<1> DEFINE by == queue[i].by
<1>1. by \in Loaders
  BY StoredByLoader
<1>2. /\ queue[i].payload \in signed
      /\ req[by] # New
      /\ queue[i].payload \in PayloadsIn(req[by].ask)
  BY DEF QueueInv
<1>3. req'[by] # New /\ req'[by].ask = req[by].ask
  BY <1>1, <1>2 DEF RequestTyped
<1> QED BY <1>2, <1>3

(* A request that moves on with its envelopes as they are.                 *)
LEMMA MovesKeeps ==
    ASSUME RequestTyped, EnvelopeInv, QueueInv, NEW r \in Loaders, req[r].pc # "new",
           NEW pc \in { "verify", "append", "stopped" }, Moves(r, pc),
           UNCHANGED << queue, signed >>,
           pc \in { "verify", "append" } =>
             req[r].todo # << >> /\ Valid(Head(req[r].todo)),
           pc = "append" =>
             Head(req[r].todo).payload \in signed \cap PayloadsIn(req[r].ask)
    PROVE  req' \in [Loaders -> RequestStates] /\ EnvelopeInv' /\ QueueInv'
<1> DEFINE state == [pc |-> pc, ask |-> req[r].ask, todo |-> req[r].todo]
<1>1. req' = [req EXCEPT ![r] = state]
  BY DEF Moves, Proceeds
<1>2. state \in RequestStates
  BY LocalsTyped DEF RequestStates
<1>3. Sound(req[r], signed)
  BY LocalsTyped DEF EnvelopeInv
<1>4. Sound(state, signed')
  BY <1>3 DEF Sound
<1>5. state # New
  BY LocalsTyped DEF New
<1>6. state.ask = req[r].ask
  OBVIOUS
<1> HIDE DEF state
<1> QED BY <1>1, <1>2, <1>4, <1>5, <1>6, OneRequestSteps, QueueKept

(* The request is received.                                                *)
LEMMA ReceiveInv ==
    ASSUME SubmitInv, NEW r \in Loaders, Receive(r)
    PROVE  RequestTyped' /\ LoadInv' /\ EnvelopeInv' /\ QueueInv'
<1>1. PICK request \in Requests, pc \in { "signing", "stopped" } :
        /\ req' = [req EXCEPT ![r] = [pc |-> pc, ask |-> request, todo |-> << >>]]
        /\ IF pc = "signing" THEN StartLoad(r) ELSE KeyRests
  <2>1. PICK request \in Requests :
          LET pc == IF Welcome(request) THEN "signing" ELSE "stopped"
          IN  /\ req' = [req EXCEPT ![r] = [pc |-> pc, ask |-> request, todo |-> << >>]]
              /\ IF Welcome(request) THEN StartLoad(r) ELSE KeyRests
    BY DEF Receive
  <2>2. CASE Welcome(request)
    BY <2>1, <2>2
  <2>3. CASE ~ Welcome(request)
    BY <2>1, <2>3
  <2> QED BY <2>2, <2>3
<1> DEFINE state == [pc |-> pc, ask |-> request, todo |-> << >>]
<1>2. state \in RequestStates
  BY DEF RequestStates
<1>3. Sound(state, signed')
  BY DEF Sound
<1>4. UNCHANGED << queue, signed >>
  BY DEF Receive
<1>5. req' \in [Loaders -> RequestStates] /\ EnvelopeInv'
  <2>1. req' = [req EXCEPT ![r] = state]
    BY <1>1
  <2> HIDE DEF state
  <2> QED BY <1>2, <1>3, <1>4, <2>1, OneRequestSteps DEF SubmitInv
<1>6. LoadInv'
  <2>1. load[r].pc = "idle"
    BY DEF Receive, SubmitInv, LoadInv, New
  <2> QED BY <1>1, <2>1 DEF SubmitInv, LoadInv, RequestTyped, StartLoad, Goes, KeyRests,
        keyVars, KeyInv, KeyTypeOK
<1>7. QueueInv'
  <2>1. req' = [req EXCEPT ![r] = state] /\ state # New /\ req[r] = New
    BY <1>1 DEF New, Receive
  <2> HIDE DEF state
  <2> QED BY <1>4, <2>1, QueueKept DEF SubmitInv
<1> QED BY <1>4, <1>5, <1>6, <1>7 DEF SubmitInv, RequestTyped

(* The envelopes are made: of payloads that are signed by it, in one stroke.*)
LEMMA SignInv ==
    ASSUME SubmitInv, NEW r \in Loaders, Sign(r)
    PROVE  RequestTyped' /\ LoadInv' /\ EnvelopeInv' /\ QueueInv'
<1>1. req[r].pc # "new" /\ req[r].ask \in Requests
  BY LocalsTyped DEF Sign, SubmitInv
<1> DEFINE payloads == PayloadsOf(req[r].ask)
           how  == IF req[r].ask.kind = "envelope" THEN req[r].ask.alter ELSE "none"
           Made(i) == Alter(Envelope(payloads[i], load[r].seed), how)
           todo == [i \in DOMAIN payloads |-> Made(i)]
           pc   == IF todo = << >> THEN "stopped" ELSE "submit"
<1>2. /\ Proceeds(r, pc, todo)
      /\ signed' = signed \cup { payloads[i] : i \in DOMAIN payloads }
      /\ EndLoad(r)
      /\ queue' = queue
  BY DEF Sign
<1>3. load[r].seed \in Seeds
  BY LoaderShape DEF Sign, SubmitInv, KeyInv
<1> DEFINE own == signed' \cap PayloadsIn(req[r].ask)
<1>4. \A i \in DOMAIN payloads : Made(i) \in Envelopes /\ Vouched(Made(i), own)
  <2> TAKE i \in DOMAIN payloads
  <2>1. payloads[i] \in own /\ payloads[i] \in Payloads
    BY <1>1, <1>2, PayloadsAreTyped DEF PayloadsIn
  <2> HIDE DEF own, payloads
  <2> QED BY <1>3, <2>1, EnvelopeIsTyped, AlteredIsTyped, AlteredIsVouched
<1>5. todo \in Seq(Envelopes)
  <2>1. PICK n \in Nat : DOMAIN payloads = 1 .. n
    BY <1>1, PayloadsAreSequences
  <2> HIDE DEF payloads, Made
  <2>2. todo \in [1 .. n -> Envelopes]
    BY <1>4, <2>1
  <2> QED BY <2>1, <2>2, SeqDef
<1> DEFINE state == [pc |-> pc, ask |-> req[r].ask, todo |-> todo]
<1> HIDE DEF payloads, how, Made
<1>6. req' = [req EXCEPT ![r] = state]
  BY <1>2 DEF Proceeds
<1>7. state \in RequestStates
  <2> HIDE DEF todo
  <2> QED BY <1>1, <1>5 DEF RequestStates
<1>8. Sound(state, signed')
  BY <1>4 DEF Sound
<1>9. req' \in [Loaders -> RequestStates] /\ EnvelopeInv'
  <2> HIDE DEF state
  <2> QED BY <1>2, <1>6, <1>7, <1>8, OneRequestSteps DEF SubmitInv
<1>10. LoadInv'
  <2> HIDE DEF state
  <2> QED BY <1>2, <1>6 DEF SubmitInv, LoadInv, RequestTyped, EndLoad, Goes, KeyInv, KeyTypeOK
<1>11. QueueInv'
  <2>1. state # New /\ state.ask = req[r].ask
    BY LocalsTyped DEF Sign, SubmitInv, New
  <2> HIDE DEF state
  <2> QED BY <1>2, <1>6, <2>1, QueueKept DEF SubmitInv
<1> QED BY <1>2, <1>9, <1>10, <1>11 DEF SubmitInv, RequestTyped

LEMMA ValidateInv ==
    ASSUME SubmitInv, NEW r \in Loaders, Validate(r)
    PROVE  RequestTyped' /\ LoadInv' /\ EnvelopeInv' /\ QueueInv'
<1>1. req[r].todo # << >>
  BY LocalsTyped DEF Validate, SubmitInv, EnvelopeInv, Sound
<1>2. PICK pc \in { "verify", "stopped" } :
        /\ Moves(r, pc)
        /\ pc = "verify" => Valid(Head(req[r].todo)) /\ StartLoad(r)
        /\ pc = "stopped" => KeyRests
  BY DEF Validate, OrSigner
<1>3. UNCHANGED << queue, signed >>
  BY DEF Validate
<1>4. req' \in [Loaders -> RequestStates] /\ EnvelopeInv' /\ QueueInv'
  BY <1>1, <1>2, <1>3, MovesKeeps DEF Validate, SubmitInv
<1>5. LoadInv'
  BY <1>2, LocalsTyped DEF Validate, SubmitInv, LoadInv, RequestTyped, Moves, Proceeds, StartLoad, Goes,
     KeyRests, keyVars, KeyInv, KeyTypeOK
<1> QED BY <1>3, <1>4, <1>5 DEF SubmitInv, RequestTyped

(* What the signature adds: the hash is one the holder of the key signed,  *)
(* and the payload is the hash's.                                          *)
LEMMA VerifyInv ==
    ASSUME SubmitInv, NEW r \in Loaders, Verify(r)
    PROVE  RequestTyped' /\ LoadInv' /\ EnvelopeInv' /\ QueueInv'
<1> DEFINE e == Head(req[r].todo)
<1> DEFINE own == signed \cap PayloadsIn(req[r].ask)
<1>1. req[r].todo # << >> /\ Valid(e) /\ Vouched(e, own)
  BY FirstEnvelope DEF Verify, SubmitInv, Sound
<1>2. load[r].seed \in Seeds
  BY LoaderShape DEF Verify, SubmitInv, KeyInv
<1>3. PICK pc \in { "append", "stopped" } :
        /\ Moves(r, pc)
        /\ pc = "append" => Verifies(e, load[r].seed)
  BY DEF Verify
<1>4. pc = "append" => e.payload \in own
  BY <1>1, <1>2, <1>3 DEF Verifies, Valid, Vouched
<1>5. EndLoad(r) /\ UNCHANGED << queue, signed >>
  BY DEF Verify
<1>6. req' \in [Loaders -> RequestStates] /\ EnvelopeInv' /\ QueueInv'
  BY <1>1, <1>3, <1>4, <1>5, MovesKeeps DEF Verify, SubmitInv
<1>7. LoadInv'
  BY <1>3, <1>5 DEF SubmitInv, LoadInv, RequestTyped, Moves, Proceeds, EndLoad, Goes, KeyInv, KeyTypeOK
<1> QED BY <1>5, <1>6, <1>7 DEF SubmitInv, RequestTyped

(* The steps that end a request: its loader is idle from then on.          *)
LEMMA StopInv ==
    ASSUME SubmitInv, NEW r \in Loaders, SignerFails(r) \/ AppendFails(r) \/ Abort(r)
    PROVE  RequestTyped' /\ LoadInv' /\ EnvelopeInv' /\ QueueInv'
<1>1. /\ Moves(r, "stopped")
      /\ UNCHANGED << queue, signed >>
      /\ load' = load \/ Goes(r, [pc |-> "idle"])
  BY DEF SignerFails, AppendFails, Abort, EndLoad, Die
<1>2. /\ req[r].pc # "new"
      /\ load' = load => load[r].pc = "idle"
  <2>1. CASE SignerFails(r)
    BY <2>1 DEF SignerFails, EndLoad, Goes, SubmitInv, KeyInv, KeyTypeOK
  <2>2. CASE AppendFails(r)
    BY <2>2 DEF AppendFails, SubmitInv, LoadInv
  <2>3. CASE Abort(r)
    BY <2>3 DEF Abort, Die, Goes, SubmitInv, LoadInv, KeyInv, KeyTypeOK
  <2> QED BY <2>1, <2>2, <2>3
<1>3. req' \in [Loaders -> RequestStates] /\ EnvelopeInv' /\ QueueInv'
  BY <1>1, <1>2, MovesKeeps DEF SubmitInv
<1>4. LoadInv'
  BY <1>1, <1>2 DEF SubmitInv, LoadInv, RequestTyped, Moves, Proceeds, Goes, KeyInv, KeyTypeOK
<1> QED BY <1>1, <1>3, <1>4 DEF SubmitInv, RequestTyped

LEMMA AppendOrderInv ==
    ASSUME SubmitInv, NEW r \in Loaders, AppendOrder(r)
    PROVE  RequestTyped' /\ LoadInv' /\ EnvelopeInv' /\ QueueInv'
<1> DEFINE e == Head(req[r].todo)
           order == StoredOrder(e.payload, r)
           pc == IF Len(req[r].todo) = 1 THEN "stopped" ELSE "submit"
           state == [pc |-> pc, ask |-> req[r].ask, todo |-> Tail(req[r].todo)]
<1>1. /\ req[r].pc = "append"
      /\ Proceeds(r, pc, Tail(req[r].todo))
      /\ queue' = Append(queue, order)
      /\ KeyRests
      /\ signed' = signed
  BY DEF AppendOrder, Appending
<1>2. /\ req[r].ask \in Requests
      /\ req[r].todo \in Seq(Envelopes)
      /\ req[r].todo # << >>
      /\ e \in Envelopes
      /\ Sound(req[r], signed)
  BY <1>1, LocalsTyped, FirstEnvelope DEF SubmitInv
<1>3. Tail(req[r].todo) \in Seq(Envelopes)
  BY <1>2
<1>4. req' = [req EXCEPT ![r] = state]
  BY <1>1 DEF Proceeds
<1>5. state \in RequestStates
  BY <1>2, <1>3 DEF RequestStates
<1>6. Sound(state, signed')
  <2>1. \A i \in DOMAIN Tail(req[r].todo) :
          i + 1 \in DOMAIN req[r].todo /\ Tail(req[r].todo)[i] = req[r].todo[i + 1]
    BY <1>2
  <2>2. \A i \in DOMAIN state.todo :
          Vouched(state.todo[i], signed' \cap PayloadsIn(state.ask))
    BY <1>1, <1>2, <2>1 DEF Sound
  <2>3. ASSUME pc = "submit"
        PROVE  Tail(req[r].todo) # << >>
    <3>1. Len(req[r].todo) # 1 /\ Len(req[r].todo) # 0
      BY <1>2, <2>3
    <3>2. Len(Tail(req[r].todo)) = Len(req[r].todo) - 1 /\ Len(req[r].todo) \in Nat
      BY <1>2
    <3>3. Len(Tail(req[r].todo)) # 0
      BY <3>1, <3>2
    <3>4. Len(<< >>) = 0
      OBVIOUS
    <3> QED BY <3>3, <3>4
  <2> QED BY <2>2, <2>3 DEF Sound
<1>7. req' \in [Loaders -> RequestStates] /\ EnvelopeInv'
  <2> HIDE DEF state
  <2> QED BY <1>1, <1>4, <1>5, <1>6, OneRequestSteps DEF SubmitInv
<1>8. LoadInv'
  BY <1>1, <1>4 DEF SubmitInv, LoadInv, RequestTyped, KeyRests, keyVars
<1>9. /\ order \in StoredOrders
      /\ order.payload \in signed
      /\ order.by = r
      /\ order.payload \in PayloadsIn(req[r].ask)
  <2>1. e = req[r].todo[1] /\ 1 \in DOMAIN req[r].todo
    BY <1>2
  <2> QED BY <1>1, <1>2, <2>1 DEF StoredOrder, StoredOrders, Attention, Envelopes, Sound
<1>10. queue' \in Seq(StoredOrders) /\ QueueInv'
  <2>1. queue \in Seq(StoredOrders)
    BY DEF SubmitInv, RequestTyped
  <2>2. /\ state # New
        /\ req'[r] = state
        /\ state.ask = req[r].ask
        /\ \A q \in Loaders : q # r => req'[q] = req[q]
    BY <1>1, <1>2, <1>4 DEF New, SubmitInv, RequestTyped
  <2> HIDE DEF order, state
  <2>3. queue' \in Seq(StoredOrders)
    BY <1>1, <1>9, <2>1
  <2>4. ASSUME NEW i \in DOMAIN queue'
        PROVE  LET by == queue'[i].by
               IN  /\ queue'[i].payload \in signed'
                   /\ req'[by] # New
                   /\ queue'[i].payload \in PayloadsIn(req'[by].ask)
    <3>1. queue'[i] = order \/ (i \in DOMAIN queue /\ queue'[i] = queue[i])
      BY <1>1, <1>9, <2>1
    <3>2. CASE queue'[i] = order
      BY <1>1, <1>9, <2>2, <3>2
    <3>3. CASE i \in DOMAIN queue /\ queue'[i] = queue[i]
      <4>1. queue[i].by \in Loaders
        BY <3>3, StoredByLoader DEF SubmitInv
      <4>2. /\ queue[i].payload \in signed
            /\ req[queue[i].by] # New
            /\ queue[i].payload \in PayloadsIn(req[queue[i].by].ask)
        BY <3>3 DEF SubmitInv, QueueInv
      <4>3. req'[queue[i].by] # New /\ req'[queue[i].by].ask = req[queue[i].by].ask
        BY <2>2, <4>1, <4>2
      <4> QED BY <1>1, <3>3, <4>2, <4>3
    <3> QED BY <3>1, <3>2, <3>3
  <2>5. QueueInv'
    BY <2>4 DEF QueueInv
  <2> QED BY <2>3, <2>5
<1> QED BY <1>7, <1>8, <1>10 DEF RequestTyped

LEMMA LoadGoesOnInv ==
    ASSUME SubmitInv, NEW r \in Loaders, LoadGoesOn(r)
    PROVE  RequestTyped' /\ LoadInv' /\ EnvelopeInv' /\ QueueInv'
<1>1. UNCHANGED << req, queue, signed >>
  BY DEF LoadGoesOn
<1>2. RequestTyped' /\ EnvelopeInv' /\ QueueInv'
  BY <1>1 DEF SubmitInv, RequestTyped, EnvelopeInv, QueueInv
<1>3. load[r].pc # "idle" /\ \A q \in Loaders : q # r => load'[q] = load[q]
  BY DEF LoadGoesOn, LoadStep, Look, Draw, CreateTemp, WriteTemp, Link, LinkFails, Unlink,
     Read, StepFails, Goes, SubmitInv, KeyInv, KeyTypeOK
<1>4. LoadInv'
  BY <1>1, <1>3 DEF SubmitInv, LoadInv
<1> QED BY <1>2, <1>4

-----------------------------------------------------------------------------
(* The orders of one request. *)

Own(state) == state.ask.kind # "envelope"

(* How far a request in the given state is, whose orders are those in the  *)
(* store: what it has stored and what it has still to submit are its       *)
(* payloads, in their order, and all of them until it stops.               *)
Along(r, state) ==
    LET payloads == PayloadsOf(state.ask)
        done     == Cardinality(PlacesOf(r))
    IN  /\ done =< Len(payloads)
        /\ state.pc = "signing" => done = 0
        /\ state.pc \in { "submit", "verify", "append" } =>
             /\ done + Len(state.todo) = Len(payloads)
             /\ Own(state) =>
                  \A i \in DOMAIN state.todo : state.todo[i].payload = payloads[done + i]
        /\ Own(state) => \A i \in PlacesOf(r) : queue[i].payload = payloads[Nth(r, i)]

AlongInv == \A r \in Received : Along(r, req[r])

LEMMA PayloadsAreFinite ==
    ASSUME NEW request \in Requests
    PROVE  /\ PayloadsOf(request) \in Seq(Payloads)
           /\ Len(PayloadsOf(request)) \in Nat
<1> DEFINE payloads == PayloadsOf(request)
<1>1. PICK n \in Nat : DOMAIN payloads = 1 .. n /\ (n = 0 => payloads = << >>)
  BY PayloadsAreSequences
<1>2. payloads = [i \in DOMAIN payloads |-> payloads[i]]
  <2>1. CASE request.kind = "batch"
    <3> DEFINE Of(i) == MicrotaskPayload(Catalogue[i], request.overrides, request.id)
               all == [i \in DOMAIN Catalogue |-> Of(i)]
    <3>1. payloads = all \/ payloads = << >>
      BY <2>1 DEF PayloadsOf, BatchPayloads
    <3>2. all = [i \in DOMAIN all |-> all[i]]
      <4> HIDE DEF Of
      <4> QED OBVIOUS
    <3>3. << >> = [i \in DOMAIN << >> |-> << >>[i]]
      OBVIOUS
    <3> HIDE DEF all, payloads
    <3> QED BY <3>1, <3>2, <3>3
  <2>2. CASE request.kind = "envelope"
    BY <2>2 DEF PayloadsOf
  <2>3. ASSUME NEW payload, payloads = IF payload = Refused THEN << >> ELSE << payload >>
        PROVE  payloads = [i \in DOMAIN payloads |-> payloads[i]]
    BY <2>3
  <2> QED BY <2>1, <2>2, <2>3, RequestsAssumption DEF PayloadsOf
<1>3. payloads \in [1 .. n -> Payloads]
  BY <1>1, <1>2, PayloadsAreTyped
<1> QED BY <1>3, SeqDef

LEMMA PlacesFinite ==
    ASSUME RequestTyped, NEW r \in Loaders
    PROVE  /\ PlacesOf(r) \in SUBSET (1 .. Len(queue))
           /\ IsFiniteSet(PlacesOf(r))
           /\ Cardinality(PlacesOf(r)) \in Nat
           /\ Len(queue) \in Nat
<1>1. PlacesOf(r) \in SUBSET (1 .. Len(queue)) /\ Len(queue) \in Nat
  BY DEF PlacesOf, RequestTyped
<1>2. IsFiniteSet(1 .. Len(queue))
  BY <1>1, FS_Interval
<1> QED BY <1>1, <1>2, FS_Subset, FS_CardinalityType

(* An order that comes is the next of its request; the others stay what    *)
(* they are.                                                               *)
LEMMA NewPlace ==
    ASSUME RequestTyped, NEW r \in Loaders, NEW order, order.by = r,
           queue' = Append(queue, order)
    PROVE  /\ Cardinality(PlacesOf(r))' = Cardinality(PlacesOf(r)) + 1
           /\ \A q \in Loaders : q # r => PlacesOf(q)' = PlacesOf(q)
           /\ \A q \in Loaders : \A i \in PlacesOf(q) :
                Nth(q, i)' = Nth(q, i) /\ queue'[i] = queue[i]
           /\ \A i \in PlacesOf(r)' :
                \/ i \in PlacesOf(r)
                \/ Nth(r, i)' = Cardinality(PlacesOf(r)) + 1 /\ queue'[i] = order
<1>1. PICK n \in Nat : n = Len(queue)
  BY DEF RequestTyped
<1>2. /\ DOMAIN queue = 1 .. n
      /\ DOMAIN queue' = 1 .. n + 1
      /\ \A i \in 1 .. n : queue'[i] = queue[i]
      /\ queue'[n + 1] = order
  BY <1>1 DEF RequestTyped
<1>3. PlacesOf(r)' = PlacesOf(r) \cup { n + 1 } /\ n + 1 \notin PlacesOf(r)
  BY <1>1, <1>2 DEF PlacesOf
<1>4. Cardinality(PlacesOf(r))' = Cardinality(PlacesOf(r)) + 1
  <2>1. Cardinality(PlacesOf(r) \cup { n + 1 }) = Cardinality(PlacesOf(r)) + 1
    BY <1>3, PlacesFinite, FS_AddElement
  <2> QED BY <1>3, <2>1
<1>5. ASSUME NEW q \in Loaders, q # r
      PROVE  PlacesOf(q)' = PlacesOf(q)
  BY <1>1, <1>2, <1>5 DEF PlacesOf
<1>6. ASSUME NEW q \in Loaders, NEW i \in PlacesOf(q)
      PROVE  Nth(q, i)' = Nth(q, i) /\ queue'[i] = queue[i]
  <2>1. i \in 1 .. n
    BY <1>2 DEF PlacesOf
  <2>2. { j \in PlacesOf(q)' : j =< i } = { j \in PlacesOf(q) : j =< i }
    BY <1>2, <1>3, <1>5, <2>1
  <2> QED BY <1>2, <2>1, <2>2 DEF Nth
<1>7. ASSUME NEW i \in PlacesOf(r)', i \notin PlacesOf(r)
      PROVE  Nth(r, i)' = Cardinality(PlacesOf(r)) + 1 /\ queue'[i] = order
  <2>1. i = n + 1
    BY <1>3, <1>7
  <2>2. PlacesOf(r)' \subseteq 1 .. n + 1
    BY <1>2 DEF PlacesOf
  <2>3. { j \in PlacesOf(r)' : j =< i } = PlacesOf(r)'
    BY <2>1, <2>2
  <2>4. Nth(r, i)' = Cardinality(PlacesOf(r)')
    BY <2>3 DEF Nth
  <2> QED BY <1>2, <1>4, <2>1, <2>4
<1> QED BY <1>4, <1>5, <1>6, <1>7

(* An older order is not later than the newest.                            *)
LEMMA NthIsBounded ==
    ASSUME RequestTyped, NEW r \in Loaders, NEW i \in PlacesOf(r)
    PROVE  Nth(r, i) \in 1 .. Cardinality(PlacesOf(r))
<1> DEFINE upTo == { j \in PlacesOf(r) : j =< i }
<1>1. IsFiniteSet(PlacesOf(r)) /\ upTo \in SUBSET PlacesOf(r)
  BY PlacesFinite
<1>2. /\ IsFiniteSet(upTo)
      /\ Cardinality(upTo) =< Cardinality(PlacesOf(r))
  BY <1>1, FS_Subset
<1>3. i \in upTo
  BY PlacesFinite
<1>4. Cardinality(upTo) \in Nat /\ Cardinality(upTo) # 0
  BY <1>2, <1>3, FS_EmptySet, FS_CardinalityType
<1> QED BY <1>2, <1>4, PlacesFinite DEF Nth

(* A request moves while nothing is stored.                                *)
LEMMA OneRequestAlong ==
    ASSUME RequestTyped, AlongInv, NEW r \in Loaders, NEW state,
           req' = [req EXCEPT ![r] = state], queue' = queue,
           state # New => Along(r, state)
    PROVE  AlongInv'
<1> SUFFICES ASSUME NEW q \in Received'
             PROVE  Along(q, req[q])'
  BY DEF AlongInv
<1>1. Along(q, req'[q])
  <2>1. CASE q = r
    BY <2>1 DEF Received, RequestTyped
  <2>2. CASE q # r
    BY <2>2 DEF Received, RequestTyped, AlongInv
  <2> QED BY <2>1, <2>2
<1>2. PlacesOf(q)' = PlacesOf(q) /\ \A i : Nth(q, i)' = Nth(q, i)
  BY DEF PlacesOf, Nth
<1> QED BY <1>1, <1>2 DEF Along

(* Before an envelope is stored the request only moves on or stops.        *)
LEMMA MovesAlong ==
    ASSUME RequestTyped, AlongInv, NEW r \in Loaders,
           req[r].pc # "new", NEW pc \in { "verify", "append", "stopped" },
           pc # "stopped" => req[r].pc \in { "submit", "verify" },
           Moves(r, pc), queue' = queue
    PROVE  AlongInv'
<1> DEFINE state == [pc |-> pc, ask |-> req[r].ask, todo |-> req[r].todo]
<1>1. req' = [req EXCEPT ![r] = state]
  BY DEF Moves, Proceeds
<1>2. Along(r, req[r])
  BY LocalsTyped DEF AlongInv, Received
<1>3. Along(r, state)
  BY <1>2 DEF Along, Own
<1> HIDE DEF state
<1> QED BY <1>1, <1>3, OneRequestAlong

LEMMA ReceiveAlong ==
    ASSUME SubmitInv, AlongInv, NEW r \in Loaders, Receive(r)
    PROVE  AlongInv'
<1>1. PICK request \in Requests, pc \in { "signing", "stopped" } :
        req' = [req EXCEPT ![r] = [pc |-> pc, ask |-> request, todo |-> << >>]]
  BY DEF Receive
<1> DEFINE state == [pc |-> pc, ask |-> request, todo |-> << >>]
<1>2. PlacesOf(r) = {}
  <2>1. req[r] = New
    BY DEF Receive
  <2>2. \A i \in DOMAIN queue : req[queue[i].by] # New
    BY DEF SubmitInv, QueueInv
  <2> QED BY <2>1, <2>2 DEF PlacesOf
<1>3. Cardinality(PlacesOf(r)) = 0
  BY <1>2, FS_EmptySet
<1>4. Along(r, state)
  BY <1>2, <1>3, PayloadsAreFinite DEF Along
<1>5. queue' = queue
  BY DEF Receive
<1> HIDE DEF state
<1> QED BY <1>1, <1>4, <1>5, OneRequestAlong DEF state, SubmitInv

(* The envelopes are of all its payloads, in their order.                  *)
LEMMA SignAlong ==
    ASSUME SubmitInv, AlongInv, NEW r \in Loaders, Sign(r)
    PROVE  AlongInv'
<1>1. req[r].pc = "signing" /\ req[r] # New /\ req[r].ask \in Requests
  BY LocalsTyped DEF Sign, SubmitInv
<1> DEFINE payloads == PayloadsOf(req[r].ask)
           how  == IF req[r].ask.kind = "envelope" THEN req[r].ask.alter ELSE "none"
           Made(i) == Alter(Envelope(payloads[i], load[r].seed), how)
           todo == [i \in DOMAIN payloads |-> Made(i)]
           pc   == IF todo = << >> THEN "stopped" ELSE "submit"
           state == [pc |-> pc, ask |-> req[r].ask, todo |-> todo]
<1>2. req' = [req EXCEPT ![r] = state] /\ queue' = queue
  BY DEF Sign, Proceeds
<1>3. Along(r, req[r])
  BY <1>1 DEF AlongInv, Received
<1>4. Cardinality(PlacesOf(r)) = 0 /\ PlacesOf(r) = {}
  BY <1>1, <1>3, PlacesFinite, FS_EmptySet DEF Along, SubmitInv
<1>5. PICK n \in Nat : DOMAIN payloads = 1 .. n /\ Len(payloads) = n
  BY <1>1, PayloadsAreFinite
<1>6. Own(state) => \A i \in DOMAIN payloads : Made(i).payload = payloads[i]
  BY DEF Own, Alter, Envelope
<1> HIDE DEF payloads, Made
<1>7. DOMAIN todo = 1 .. n /\ Len(todo) = n
  BY <1>5
<1>8. Own(state) => \A i \in DOMAIN todo : todo[i].payload = payloads[i]
  BY <1>6
<1> HIDE DEF todo, pc
<1>9. /\ state.ask = req[r].ask
      /\ state.todo = todo
      /\ state.pc # "signing"
  BY DEF pc
<1> HIDE DEF state
<1>10. Along(r, state)
  BY <1>4, <1>5, <1>7, <1>8, <1>9 DEF Along, payloads
<1> QED BY <1>2, <1>10, OneRequestAlong DEF SubmitInv

(* The first of what is left becomes the last of what is done.             *)
LEMMA AppendOrderAlong ==
    ASSUME SubmitInv, AlongInv, NEW r \in Loaders, AppendOrder(r)
    PROVE  AlongInv'
<1> DEFINE rest  == Tail(req[r].todo)
           order == StoredOrder(Head(req[r].todo).payload, r)
           pc    == IF Len(req[r].todo) = 1 THEN "stopped" ELSE "submit"
           state == [pc |-> pc, ask |-> req[r].ask, todo |-> rest]
           done  == Cardinality(PlacesOf(r))
           payloads == PayloadsOf(req[r].ask)
<1>1. /\ req[r].pc = "append"
      /\ req' = [req EXCEPT ![r] = state]
      /\ queue' = Append(queue, order)
  BY DEF AppendOrder, Appending, Proceeds
<1>2. /\ req[r] # New
      /\ req[r].ask \in Requests
      /\ req[r].todo \in Seq(Envelopes)
      /\ req[r].todo # << >>
  BY <1>1, LocalsTyped, FirstEnvelope DEF SubmitInv
<1>3. /\ Along(r, req[r])
      /\ done \in Nat
      /\ Len(payloads) \in Nat
      /\ RequestTyped
  BY <1>1, <1>2, PlacesFinite, PayloadsAreFinite DEF AlongInv, Received, SubmitInv
<1>4. /\ Len(req[r].todo) \in Nat
      /\ 1 \in DOMAIN req[r].todo
      /\ Head(req[r].todo) = req[r].todo[1]
      /\ Len(rest) = Len(req[r].todo) - 1
      /\ \A i \in DOMAIN rest : /\ i \in Nat
                               /\ i + 1 \in DOMAIN req[r].todo
                               /\ rest[i] = req[r].todo[i + 1]
  BY <1>2
<1>5. order.by = r /\ order.payload = req[r].todo[1].payload
  BY <1>4 DEF StoredOrder
<1>6. done + Len(req[r].todo) = Len(payloads)
  BY <1>1, <1>3 DEF Along
<1>7. ASSUME Own(req[r])
      PROVE  \A i \in DOMAIN req[r].todo : req[r].todo[i].payload = payloads[done + i]
  BY <1>1, <1>3, <1>7 DEF Along
<1>8. ASSUME Own(req[r])
      PROVE  \A i \in PlacesOf(r) : queue[i].payload = payloads[Nth(r, i)]
  BY <1>1, <1>3, <1>8 DEF Along
<1>9. /\ state.ask = req[r].ask
      /\ state.todo = rest
      /\ state.pc # "signing"
      /\ state # New
      /\ Own(state) <=> Own(req[r])
  BY DEF New, Own
<1>10. req'[r] = state /\ \A q \in Loaders : q # r => req'[q] = req[q]
  BY <1>1, <1>3 DEF RequestTyped
<1> HIDE DEF order, rest, pc, state, done
<1>11. /\ Cardinality(PlacesOf(r))' = done + 1
       /\ \A q \in Loaders : q # r => PlacesOf(q)' = PlacesOf(q)
       /\ \A q \in Loaders : \A i \in PlacesOf(q) :
            Nth(q, i)' = Nth(q, i) /\ queue'[i] = queue[i]
       /\ \A i \in PlacesOf(r)' :
            i \in PlacesOf(r) \/ (Nth(r, i)' = done + 1 /\ queue'[i] = order)
  BY <1>1, <1>3, <1>5, NewPlace DEF done
<1>12. Along(r, req[r])'
  <2>1. done + 1 =< Len(payloads) /\ done + 1 + Len(rest) = Len(payloads)
    <3>1. /\ Len(req[r].todo) \in Nat /\ Len(req[r].todo) > 0
          /\ Len(rest) = Len(req[r].todo) - 1
      BY <1>2, <1>4
    <3>2. done \in Nat /\ Len(payloads) \in Nat
      BY <1>3
    <3> DEFINE left == Len(req[r].todo)
               next == Len(rest)
               whole == Len(payloads)
    <3>3. /\ done \in Nat /\ whole \in Nat /\ left \in Nat /\ left > 0
          /\ next = left - 1 /\ done + left = whole
      BY <1>6, <3>1, <3>2
    <3> HIDE DEF left, next, whole
    <3>4. done + 1 =< whole /\ done + 1 + next = whole
      BY <3>3
    <3> QED BY <3>4 DEF next, whole
  <2>2. ASSUME Own(req[r])
        PROVE  \A i \in DOMAIN rest : rest[i].payload = payloads[done + 1 + i]
    <3> TAKE i \in DOMAIN rest
    <3>1. i \in Nat /\ i + 1 \in DOMAIN req[r].todo /\ rest[i] = req[r].todo[i + 1]
      BY <1>4
    <3>2. rest[i].payload = payloads[done + (i + 1)]
      BY <1>7, <2>2, <3>1
    <3>3. done + (i + 1) = done + 1 + i
      BY <1>3, <3>1
    <3> QED BY <3>2, <3>3
  <2>3. ASSUME Own(req[r])
        PROVE  \A i \in PlacesOf(r)' : queue'[i].payload = payloads[Nth(r, i)']
    <3> TAKE i \in PlacesOf(r)'
    <3>1. CASE i \in PlacesOf(r)
      BY <1>8, <1>11, <2>3, <3>1
    <3>2. CASE Nth(r, i)' = done + 1 /\ queue'[i] = order
      BY <1>4, <1>5, <1>7, <2>3, <3>2
    <3> QED BY <1>11, <3>1, <3>2
  <2> QED BY <1>9, <1>10, <1>11, <2>1, <2>2, <2>3 DEF Along
<1>13. ASSUME NEW q \in Received', q # r
       PROVE  Along(q, req[q])'
  <2>1. q \in Loaders /\ req'[q] = req[q] /\ Along(q, req[q])
    BY <1>10, <1>13 DEF Received, AlongInv
  <2>2. /\ PlacesOf(q)' = PlacesOf(q)
        /\ \A i \in PlacesOf(q) : Nth(q, i)' = Nth(q, i) /\ queue'[i] = queue[i]
    BY <1>11, <1>13, <2>1
  <2> QED BY <2>1, <2>2 DEF Along, Own
<1> QED BY <1>12, <1>13 DEF AlongInv

LEMMA AlongInit == SubmitInit => AlongInv
BY DEF SubmitInit, AlongInv, Received

LEMMA AlongStep == SubmitInv /\ AlongInv /\ [SubmitNext]_submitVars => AlongInv'
<1> SUFFICES ASSUME SubmitInv, AlongInv, [SubmitNext]_submitVars
             PROVE  AlongInv'
  OBVIOUS
<1>1. RequestTyped
  BY DEF SubmitInv
<1>2. CASE UNCHANGED << req, queue >>
  <2>1. Received' = Received /\ \A r : PlacesOf(r)' = PlacesOf(r)
    BY <1>2 DEF Received, PlacesOf
  <2>2. \A r : \A i : Nth(r, i)' = Nth(r, i)
    BY <2>1 DEF Nth
  <2> QED BY <1>2, <2>1, <2>2 DEF AlongInv, Along, Own
<1>3. ASSUME NEW r \in Loaders, Validate(r)
      PROVE  AlongInv'
  <2>1. PICK pc \in { "verify", "stopped" } : Moves(r, pc)
    BY <1>3 DEF Validate, OrSigner
  <2> QED BY <1>1, <1>3, <2>1, MovesAlong DEF Validate
<1>4. ASSUME NEW r \in Loaders, Verify(r)
      PROVE  AlongInv'
  <2>1. PICK pc \in { "append", "stopped" } : Moves(r, pc)
    BY <1>4 DEF Verify
  <2> QED BY <1>1, <1>4, <2>1, MovesAlong DEF Verify
<1>5. ASSUME NEW r \in Loaders, SignerFails(r) \/ AppendFails(r) \/ Abort(r)
      PROVE  AlongInv'
  <2>1. req[r].pc # "new"
    BY <1>5 DEF SignerFails, AppendFails, Abort, Die, SubmitInv, LoadInv
  <2>2. Moves(r, "stopped") /\ queue' = queue
    BY <1>5 DEF SignerFails, AppendFails, Abort
  <2> QED BY <1>1, <2>1, <2>2, MovesAlong
<1>6. ASSUME NEW r \in Loaders, Receive(r) \/ Sign(r) \/ AppendOrder(r)
      PROVE  AlongInv'
  BY <1>6, ReceiveAlong, SignAlong, AppendOrderAlong
<1>7. ASSUME NEW r \in Loaders, LoadGoesOn(r)
      PROVE  AlongInv'
  BY <1>2, <1>7 DEF LoadGoesOn
<1> QED BY <1>2, <1>3, <1>4, <1>5, <1>6, <1>7 DEF SubmitNext, submitVars

-----------------------------------------------------------------------------
(* Submission implements Intake. *)

(* What a request has asked for does not change, nor how much of it is in  *)
(* the store while nothing is stored.                                      *)
LEMMA WantedKept ==
    ASSUME RequestTyped, NEW r \in Loaders, req[r].pc # "new",
           NEW pc, NEW todo, Proceeds(r, pc, todo)
    PROVE  /\ Wanted' = Wanted
           /\ Received' = Received
           /\ queue' = queue => Count' = Count
<1> DEFINE state == [pc |-> pc, ask |-> req[r].ask, todo |-> todo]
<1>1. req' = [req EXCEPT ![r] = state] /\ state # New /\ state.ask = req[r].ask
  BY DEF Proceeds, New
<1>2. req[r] # New
  BY LocalsTyped
<1> HIDE DEF state
<1>3. Received' = Received /\ \A q \in Received : req'[q].ask = req[q].ask
  BY <1>1, <1>2 DEF Received, RequestTyped
<1>4. Wanted' = Wanted
  BY <1>3 DEF Wanted
<1>5. ASSUME queue' = queue
      PROVE  Count' = Count
  <2>1. \A q : PlacesOf(q)' = PlacesOf(q)
    BY <1>5 DEF PlacesOf
  <2> QED BY <1>3, <2>1 DEF Count
<1> QED BY <1>3, <1>4, <1>5

LEMMA ReceiveAsks ==
    ASSUME SubmitInv, NEW r \in Loaders, Receive(r)
    PROVE  Desk!Ask(r)
<1>1. PICK request \in Requests, pc \in { "signing", "stopped" } :
        req' = [req EXCEPT ![r] = [pc |-> pc, ask |-> request, todo |-> << >>]]
  BY DEF Receive
<1> DEFINE state == [pc |-> pc, ask |-> request, todo |-> << >>]
<1>2. /\ req' = [req EXCEPT ![r] = state]
      /\ state # New
      /\ state.ask = request
      /\ req[r] = New
  BY <1>1 DEF New, Receive
<1> HIDE DEF state
<1>3. /\ req'[r] = state
      /\ \A q \in Loaders : q # r => req'[q] = req[q]
  BY <1>2 DEF SubmitInv, RequestTyped
<1>4. Received' = Received \cup { r } /\ r \notin Received
  BY <1>2, <1>3 DEF Received
<1>5. DOMAIN Wanted = Received /\ \A q \in Received : Wanted[q] = Wish[req[q].ask]
  BY DEF Wanted
<1>6. \A q \in Received : q # r /\ q \in Loaders
  BY <1>2 DEF Received
<1>7. Wanted' = [q \in Received \cup { r } |-> Wish[req'[q].ask]]
  BY <1>4 DEF Wanted, Wish
<1>8. Wanted' = Desk!With(Wanted, r, Wish[request])
  BY <1>2, <1>3, <1>5, <1>6, <1>7 DEF Desk!With
<1>9. UNCHANGED << queue, sealed, Stored >>
  BY DEF Receive, Stored
<1>10. Count' = Desk!With(Count, r, 0)
  <2>1. PlacesOf(r) = {}
    BY <1>2 DEF SubmitInv, QueueInv, PlacesOf
  <2>2. Cardinality(PlacesOf(r)) = 0
    BY <2>1, FS_EmptySet
  <2>3. \A q : PlacesOf(q)' = PlacesOf(q)
    BY <1>9 DEF PlacesOf
  <2>4. Count' = [q \in Received \cup { r } |-> Cardinality(PlacesOf(q))]
    BY <1>4, <2>3 DEF Count
  <2>5. DOMAIN Count = Received /\ \A q \in Received : Count[q] = Cardinality(PlacesOf(q))
    BY DEF Count
  <2> QED BY <1>6, <2>2, <2>4, <2>5 DEF Desk!With
<1> QED BY <1>4, <1>5, <1>8, <1>9, <1>10 DEF Desk!Ask

LEMMA SignSeals ==
    ASSUME SubmitInv, AlongInv, NEW r \in Loaders, Sign(r)
    PROVE  Desk!Seal(r)
<1>1. /\ RequestTyped
      /\ req[r].pc # "new"
      /\ req[r] # New
      /\ req[r].ask \in Requests
  BY LocalsTyped DEF Sign, SubmitInv
<1>2. /\ \E pc, todo : Proceeds(r, pc, todo)
      /\ sealed' = sealed \cup { r }
      /\ queue' = queue
  BY DEF Sign
<1>3. Wanted' = Wanted /\ Count' = Count
  BY <1>1, <1>2, WantedKept
<1>4. /\ r \in DOMAIN Wanted
      /\ Wanted[r] = PayloadsOf(req[r].ask)
      /\ Count[r] = Cardinality(PlacesOf(r))
  BY <1>1 DEF Wanted, Wish, Received, Count
<1>5. Count[r] = 0
  BY <1>1, <1>4 DEF AlongInv, Received, Along, Sign
<1>6. Stored' = Stored
  BY <1>2 DEF Stored
<1> QED BY <1>2, <1>3, <1>4, <1>5, <1>6 DEF Desk!Seal

(* What a request stores is the next it asked for.                         *)
LEMMA NextOfItsOwn ==
    ASSUME SubmitInv, AlongInv, NEW r \in Loaders, req[r].pc = "append"
    PROVE  LET payloads == PayloadsOf(req[r].ask)
               done     == Cardinality(PlacesOf(r))
           IN  done < Len(payloads) /\ payloads[done + 1] = Head(req[r].todo).payload
<1> DEFINE payloads == PayloadsOf(req[r].ask)
           done     == Cardinality(PlacesOf(r))
           payload  == Head(req[r].todo).payload
<1>1. /\ req[r] # New
      /\ req[r].ask \in Requests
      /\ req[r].todo \in Seq(Envelopes)
      /\ req[r].todo # << >>
      /\ Sound(req[r], signed)
  BY LocalsTyped, FirstEnvelope DEF SubmitInv
<1>2. Along(r, req[r]) /\ done \in Nat /\ Len(payloads) \in Nat
  BY <1>1, PlacesFinite, PayloadsAreFinite DEF AlongInv, Received, SubmitInv
<1>3. /\ Len(req[r].todo) \in Nat
      /\ Len(req[r].todo) > 0
      /\ 1 \in DOMAIN req[r].todo
      /\ payload = req[r].todo[1].payload
  BY <1>1
<1>4. done + Len(req[r].todo) = Len(payloads)
  BY <1>2 DEF Along
<1>5. CASE Own(req[r])
  <2>1. req[r].todo[1].payload = payloads[done + 1]
    BY <1>2, <1>3, <1>5 DEF Along
  <2> QED BY <1>2, <1>3, <1>4, <2>1
<1>6. CASE ~ Own(req[r])
  <2>1. payloads = << req[r].ask.payload >>
    BY <1>6 DEF Own, PayloadsOf
  <2>2. payload \in PayloadsIn(req[r].ask)
    BY <1>1 DEF Sound
  <2>3. payload = req[r].ask.payload
    BY <2>1, <2>2 DEF PayloadsIn
  <2>4. Len(payloads) = 1 /\ payloads[1] = req[r].ask.payload
    BY <2>1
  <2>5. done = 0
    BY <1>2, <1>3, <1>4, <2>4
  <2> QED BY <2>3, <2>4, <2>5
<1> QED BY <1>5, <1>6

LEMMA AppendOrderEnters ==
    ASSUME SubmitInv, AlongInv, NEW r \in Loaders, AppendOrder(r)
    PROVE  Desk!Enter(r)
<1> DEFINE payloads == PayloadsOf(req[r].ask)
           payload  == Head(req[r].todo).payload
           order    == StoredOrder(payload, r)
           entry    == [by |-> r, payload |-> payload]
<1>1. /\ req[r].pc = "append"
      /\ queue' = Append(queue, order)
      /\ sealed' = sealed
      /\ \E pc, todo : Proceeds(r, pc, todo)
  BY DEF AppendOrder, Appending
<1>2. /\ RequestTyped
      /\ req[r].pc # "new"
      /\ req[r] # New
      /\ req[r].ask \in Requests
  BY <1>1, LocalsTyped, FirstEnvelope DEF SubmitInv
<1>3. Wanted' = Wanted /\ Received' = Received
  BY <1>1, <1>2, WantedKept
<1>4. /\ r \in DOMAIN Wanted
      /\ Wanted[r] = payloads
      /\ Count[r] = Cardinality(PlacesOf(r))
  BY <1>2 DEF Wanted, Wish, Received, Count
<1>5. Count[r] < Len(payloads) /\ payloads[Count[r] + 1] = payload
  BY <1>1, <1>4, NextOfItsOwn
<1>6. r \in sealed
  BY <1>1 DEF SubmitInv, SealInv
<1>7. Stored' = Append(Stored, entry)
  <2>1. order.by = r /\ order.payload = payload
    BY DEF StoredOrder
  <2>2. queue \in Seq(StoredOrders) /\ Len(queue) \in Nat /\ DOMAIN queue = 1 .. Len(queue)
    BY <1>2 DEF RequestTyped
  <2> DEFINE n == Len(queue)
             Entry(o) == [by |-> o.by, payload |-> o.payload]
             entries  == { entry } \cup { Entry(queue[i]) : i \in 1 .. n }
  <2>3. Stored = [i \in 1 .. n |-> Entry(queue[i])]
    BY <2>2 DEF Stored
  <2>4. /\ DOMAIN queue' = 1 .. n + 1
        /\ \A i \in 1 .. n : queue'[i] = queue[i]
        /\ queue'[n + 1] = order
    BY <1>1, <2>2
  <2>5. Stored' = [i \in 1 .. n + 1 |-> Entry(queue'[i])]
    BY <2>4 DEF Stored
  <2>6. Entry(order) = entry
    BY <2>1
  <2> HIDE DEF Entry, entry, order
  <2>7. Stored \in Seq(entries) /\ entry \in entries
    BY <2>2, <2>3, SeqDef
  <2>8. Len(Stored) = n
    BY <2>2, <2>3, <2>7, LenProperties
  <2>9. Append(Stored, entry) = [i \in 1 .. n + 1 |-> IF i = n + 1 THEN entry ELSE Stored[i]]
    <3> HIDE DEF entries
    <3> DEFINE longer == Append(Stored, entry)
    <3>1. /\ longer \in Seq(entries)
          /\ Len(longer) = n + 1
          /\ longer[n + 1] = entry
          /\ \A i \in 1 .. n : longer[i] = Stored[i]
      BY <2>7, <2>8, AppendProperties
    <3>2. longer \in [1 .. n + 1 -> entries]
      BY <3>1, LenProperties
    <3>3. \A i \in 1 .. n + 1 : longer[i] = IF i = n + 1 THEN entry ELSE Stored[i]
      BY <2>2, <3>1
    <3> HIDE DEF longer
    <3>4. longer = [i \in 1 .. n + 1 |-> longer[i]]
      BY <3>2
    <3>5. longer = [i \in 1 .. n + 1 |-> IF i = n + 1 THEN entry ELSE Stored[i]]
      BY <3>3, <3>4
    <3> QED BY <3>5 DEF longer
  <2>10. \A i \in 1 .. n + 1 : i # n + 1 => i \in 1 .. n
    BY <2>2
  <2> QED BY <2>3, <2>4, <2>5, <2>6, <2>9, <2>10
<1>8. Count' = Desk!With(Count, r, Count[r] + 1)
  <2>1. order.by = r
    BY DEF StoredOrder
  <2> HIDE DEF order
  <2>2. /\ Cardinality(PlacesOf(r))' = Cardinality(PlacesOf(r)) + 1
        /\ \A q \in Loaders : q # r => PlacesOf(q)' = PlacesOf(q)
    BY <1>1, <1>2, <2>1, NewPlace
  <2>3. ASSUME NEW q \in Loaders
        PROVE  Cardinality(PlacesOf(q))'
                 = IF q = r THEN Cardinality(PlacesOf(r)) + 1 ELSE Cardinality(PlacesOf(q))
    BY <2>2
  <2>4. /\ DOMAIN Count = Received
        /\ Received \cup { r } = Received
        /\ Received \subseteq Loaders
        /\ \A q \in Received : Count[q] = Cardinality(PlacesOf(q))
    BY <1>2 DEF Count, Received
  <2>5. Count' = [q \in Received |-> Cardinality(PlacesOf(q))']
    BY <1>3 DEF Count
  <2> QED BY <1>4, <2>3, <2>4, <2>5 DEF Desk!With
<1> HIDE DEF payloads, payload
<1> QED BY <1>1, <1>3, <1>4, <1>5, <1>6, <1>7, <1>8 DEF Desk!Enter

LEMMA DeskInit == SubmitInit => Desk!Init
<1> SUFFICES ASSUME SubmitInit PROVE Desk!Init
  OBVIOUS
<1>1. Received = {}
  BY DEF SubmitInit, Received
<1>2. Wanted = [c \in {} |-> << >>]
  BY <1>1 DEF Wanted
<1>3. Count = [c \in {} |-> 0]
  BY <1>1 DEF Count
<1>4. Stored = << >>
  BY DEF SubmitInit, Stored
<1> QED BY <1>2, <1>3, <1>4 DEF Desk!Init, SubmitInit

LEMMA DeskStep ==
    SubmitInv /\ AlongInv /\ [SubmitNext]_submitVars => [Desk!Next]_(Desk!intakeVars)
<1> SUFFICES ASSUME SubmitInv, AlongInv, [SubmitNext]_submitVars
             PROVE  Desk!Next \/ UNCHANGED Desk!intakeVars
  OBVIOUS
<1>1. CASE UNCHANGED << req, queue, sealed >>
  <2>1. Received' = Received /\ \A q : PlacesOf(q)' = PlacesOf(q)
    BY <1>1 DEF Received, PlacesOf
  <2>2. UNCHANGED << Wanted, Count, Stored >>
    BY <1>1, <2>1 DEF Wanted, Wish, Count, Stored
  <2> QED BY <1>1, <2>2 DEF Desk!intakeVars
<1>2. ASSUME NEW r \in Loaders, Receive(r) \/ Sign(r) \/ AppendOrder(r)
      PROVE  Desk!Next
  BY <1>2, ReceiveAsks, SignSeals, AppendOrderEnters DEF Desk!Next
<1>3. ASSUME NEW r \in Loaders,
             Validate(r) \/ Verify(r) \/ SignerFails(r) \/ AppendFails(r) \/ Abort(r)
      PROVE  UNCHANGED Desk!intakeVars
  <2>1. req[r].pc # "new" /\ RequestTyped
    BY <1>3 DEF Validate, Verify, SignerFails, AppendFails, Abort, Die, SubmitInv, LoadInv
  <2>2. /\ \E pc, todo : Proceeds(r, pc, todo)
        /\ UNCHANGED << queue, sealed >>
    BY <1>3 DEF Validate, Verify, OrSigner, SignerFails, AppendFails, Abort, Moves
  <2>3. UNCHANGED << Wanted, Count >>
    BY <2>1, <2>2, WantedKept
  <2> QED BY <2>2, <2>3 DEF Desk!intakeVars, Stored
<1>4. ASSUME NEW r \in Loaders, LoadGoesOn(r)
      PROVE  UNCHANGED << req, queue, sealed >>
  BY <1>4 DEF LoadGoesOn
<1> QED BY <1>1, <1>2, <1>3, <1>4 DEF SubmitNext, submitVars

-----------------------------------------------------------------------------
LEMMA SubmitStepInv == SubmitInv /\ [SubmitNext]_submitVars => SubmitInv'
<1> SUFFICES ASSUME SubmitInv, [SubmitNext]_submitVars
             PROVE  SubmitInv'
  OBVIOUS
<1>1. KeyInv'
  BY SubmitStepKeyInv DEF SubmitInv
<1>2. CASE UNCHANGED submitVars
  BY <1>1, <1>2 DEF submitVars, SubmitInv, RequestTyped, SealInv, LoadInv, EnvelopeInv, QueueInv
<1>3. CASE SubmitNext
  <2>1. RequestTyped' /\ LoadInv' /\ EnvelopeInv' /\ QueueInv'
    BY <1>3, ReceiveInv, SignInv, ValidateInv, VerifyInv, StopInv, AppendOrderInv, LoadGoesOnInv
       DEF SubmitNext
  <2>2. SealInv'
    BY SealStep DEF SubmitInv
  <2> QED BY <1>1, <2>1, <2>2 DEF SubmitInv
<1> QED BY <1>2, <1>3

(* Whatever the processes are asked for and wherever they fail or die, the *)
(* signers of all requests are made of the same seed.                      *)
THEOREM RequestsShareOneKey == SubmitSpec => []SignersAgree
BY SubmitInitKeyInv, SubmitStepKeyInv, SignersAgreeByInv, PTL DEF SubmitSpec

(* Requests leave no more temporary files with seeds behind than steps     *)
(* have failed, or a death has cut off loads.                              *)
THEOREM RequestsAccountForTemps == SubmitSpec => []TempsAccounted
<1>1. KeyInv => KeyTypeOK
  BY DEF KeyInv
<1>2. SubmitInit => TempInv
  BY TempInit DEF SubmitInit
<1> QED BY <1>1, <1>2, SubmitInitKeyInv, SubmitStepKeyInv, SubmitStepTemps, TempsByInv,
       PTL DEF SubmitSpec

(* Only what a holder of the key has signed enters the store, unchanged,   *)
(* whoever else signs envelopes or changes them on their way.              *)
THEOREM OnlySignedIsStored == SubmitSpec => []StoredAsSigned
<1>1. SubmitInv => StoredAsSigned
  BY DEF SubmitInv, QueueInv, StoredAsSigned
<1> QED BY <1>1, SubmitInitInv, SubmitStepInv, PTL DEF SubmitSpec

(* Whatever overrides a request brings, no work order it makes goes beyond *)
(* the card of its entry of the catalogue, or of the actions.              *)
THEOREM NoOrderBeyondItsCard == SubmitSpec => []OrdersWithinCard
<1>1. SubmitInv => OrdersWithinCard
  <2> SUFFICES ASSUME SubmitInv, NEW i \in DOMAIN queue,
                      req[queue[i].by].ask.kind # "envelope"
               PROVE  WithinCard(queue[i].payload)
    BY DEF OrdersWithinCard
  <2>1. queue[i].by \in Loaders /\ req[queue[i].by] # New
    BY StoredByLoader DEF SubmitInv, QueueInv
  <2>2. req[queue[i].by].ask \in Requests
    BY <2>1 DEF SubmitInv, RequestTyped, RequestStates
  <2>3. queue[i].payload \in PayloadsIn(req[queue[i].by].ask)
    BY DEF SubmitInv, QueueInv
  <2> QED BY <2>2, <2>3, AskedWithinCard
<1> QED BY <1>1, SubmitInitInv, SubmitStepInv, PTL DEF SubmitSpec

(* Every variable keeps its type, and no request leaves more orders in the *)
(* store than it asks for, whatever is stored between them.                *)
THEOREM SubmitTypesHold == SubmitSpec => []SubmitTypeOK
<1>1. SubmitInv /\ AlongInv => SubmitTypeOK
  <2> SUFFICES ASSUME SubmitInv, AlongInv, NEW r \in Received
               PROVE  /\ KeyTypeOK
                      /\ req[r].ask \in Requests
                      /\ req[r].pc \in { "signing", "submit", "verify", "append", "stopped" }
                      /\ Cardinality(PlacesOf(r)) =< Len(PayloadsOf(req[r].ask))
    BY DEF SubmitTypeOK, SubmitInv, KeyInv
  <2>1. req[r] \in RequestStates /\ req[r] # New
    BY DEF SubmitInv, RequestTyped, Received
  <2>2. Along(r, req[r])
    BY DEF AlongInv
  <2> QED BY <2>1, <2>2 DEF RequestStates, Along, SubmitInv, KeyInv
<1> QED BY <1>1, SubmitInitInv, SubmitStepInv, AlongInit, AlongStep, PTL DEF SubmitSpec

(* What a batch leaves in the store is the front of the catalogue in its   *)
(* order, wherever it stops and whoever else submits between its orders;   *)
(* and nothing, when an entry refuses its overrides.                       *)
THEOREM BatchLeavesAPrefix == SubmitSpec => []BatchIsPrefix
<1>1. SubmitInv /\ AlongInv => BatchIsPrefix
  <2> SUFFICES ASSUME SubmitInv, AlongInv, NEW r \in Received, req[r].ask.kind = "batch"
               PROVE  /\ \A i \in PlacesOf(r) :
                           queue[i].payload.id = Catalogue[Nth(r, i)].id
                      /\ PlacesOf(r) # {} =>
                           \A i \in DOMAIN Catalogue :
                             MicrotaskPayload(Catalogue[i], req[r].ask.overrides, req[r].ask.id)
                               # Refused
    BY DEF BatchIsPrefix
  <2> DEFINE ask == req[r].ask
             payloads == PayloadsOf(ask)
             Of(i) == MicrotaskPayload(Catalogue[i], ask.overrides, ask.id)
             all == [i \in DOMAIN Catalogue |-> Of(i)]
  <2> SUFFICES ASSUME NEW i \in PlacesOf(r)
               PROVE  /\ queue[i].payload.id = Catalogue[Nth(r, i)].id
                      /\ \A k \in DOMAIN Catalogue : Of(k) # Refused
    OBVIOUS
  <2>1. /\ r \in Loaders
        /\ RequestTyped
        /\ Along(r, req[r])
    BY DEF SubmitInv, AlongInv, Received
  <2>2. queue[i].payload = payloads[Nth(r, i)]
    BY <2>1 DEF Along, Own
  <2>3. /\ ask \in Requests
        /\ Nth(r, i) \in 1 .. Cardinality(PlacesOf(r))
        /\ Cardinality(PlacesOf(r)) =< Len(payloads)
        /\ Cardinality(PlacesOf(r)) \in Nat
    BY <2>1, NthIsBounded, PlacesFinite DEF Along, Received, RequestTyped, RequestStates
  <2>4. payloads \in Seq(Payloads) /\ Len(payloads) \in Nat
    BY <2>3, PayloadsAreFinite
  <2>5. Nth(r, i) \in DOMAIN payloads
    BY <2>3, <2>4
  <2>6. payloads = IF ask.id \in ActionIds /\ \A k \in DOMAIN all : all[k] # Refused
                   THEN all ELSE << >>
    BY DEF PayloadsOf, BatchPayloads
  <2>7. ASSUME NEW k \in DOMAIN Catalogue, Of(k) # Refused
        PROVE  Of(k).id = Catalogue[k].id
    BY <2>7 DEF MicrotaskPayload
  <2> HIDE DEF ask, payloads, Of
  <2> QED BY <2>2, <2>5, <2>6, <2>7
<1> QED BY <1>1, SubmitInitInv, SubmitStepInv, AlongInit, AlongStep, PTL DEF SubmitSpec

(* Whatever happens to envelopes on their way, whoever else submits and    *)
(* wherever requests stop, the store receives of each a front of what it   *)
(* asked for, in its order, sealed as a whole before the first of it       *)
(* enters, and nothing else.                                               *)
THEOREM SubmissionImplementsIntake == SubmitSpec => ImplementsIntake
<1>1. SubmitSpec => Desk!Init /\ [][Desk!Next]_(Desk!intakeVars)
  BY SubmitInitInv, SubmitStepInv, AlongInit, AlongStep, DeskInit, DeskStep, PTL DEF SubmitSpec
<1> QED BY <1>1 DEF ImplementsIntake, Desk!Spec
=============================================================================

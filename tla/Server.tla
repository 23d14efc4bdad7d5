------------------------------- MODULE Server -------------------------------
(***************************************************************************)
(* The KeyBank process: main.go's life cycle, the two API routes of        *)
(* newAppHandler (server.go:12-57) with their middleware chains            *)
(* (handlers/middleware.go), and the handlers CreateKey and FetchKey       *)
(* (handlers/handlers.go), over a key store known by its promise KeyStore. *)
(*                                                                         *)
(* Requests run concurrently, one goroutine each; a step is one middleware *)
(* or one call that can fail.  What the limiter answers is left open       *)
(* (RateLimiter models it), and so is which ttl CreateKey accepts          *)
(* (KeyTTL models it).                                                     *)
(***************************************************************************)
EXTENDS Naturals

CONSTANTS Creates,   \* POST /api/keys requests; each stands for its record
          Fetches,   \* GET or HEAD /api/keys/{id} requests
          NoRecord   \* an id under which nothing was ever saved

Requests == Creates \cup Fetches
Ids      == Creates \cup {NoRecord}

ASSUME ServerAssumption == Creates \cap Fetches = {} /\ NoRecord \notin Requests

VARIABLES proc,     \* the process: serving, draining, stopped or killed
          pc,       \* pc[q]: the step request q is at
          status,   \* status[q]: the HTTP status written, 0 before
          target,   \* target[f]: the record whose id fetch f asks for
          method,   \* method[f]: GET or HEAD; a GET pattern matches both
          phase,    \* KeyStore: the life of each record
          readers,  \* KeyStore: the fetches each record was given to
          took      \* history: the fetch whose Load removed the record

vars    == <<proc, pc, status, target, method, phase, readers, took>>
request == <<target, method>>
storage == <<phase, readers, took>>

Store == INSTANCE KeyStore WITH Records <- Creates, Readers <- Fetches

Running  == {"limit", "decode", "generate", "save", "load", "respond"}
Finished == {"done", "lost", "killed"}
Statuses == {0, 200, 201, 400, 404, 413, 429, 500}

TypeOK ==
  /\ proc \in {"serving", "draining", "stopped", "killed"}
  /\ pc \in [Requests -> {"new"} \cup Running \cup Finished]
  /\ status \in [Requests -> Statuses]
  /\ target \in [Fetches -> Ids]
  /\ method \in [Fetches -> {"GET", "HEAD"}]
  /\ took \in [Creates -> Fetches \cup {NoRecord}]
  /\ Store!TypeOK

Init ==
  /\ proc = "serving"
  /\ pc = [q \in Requests |-> "new"]
  /\ status = [q \in Requests |-> 0]
  /\ target = [f \in Fetches |-> NoRecord]
  /\ method \in [Fetches -> {"GET", "HEAD"}]
  /\ took = [r \in Creates |-> NoRecord]
  /\ Store!Init

Alive == proc \in {"serving", "draining"}

Goto(q, from, to) == Alive /\ pc[q] = from /\ pc' = [pc EXCEPT ![q] = to]

(* The handler writes a status and returns.                                *)
Respond(q, from, s) == Goto(q, from, "respond") /\ status' = [status EXCEPT ![q] = s]

-----------------------------------------------------------------------------
(* A connection is accepted and routed: only a listening server does.      *)
AcceptCreate(c) ==
  /\ proc = "serving"
  /\ Goto(c, "new", "limit")
  /\ UNCHANGED <<proc, status, request, storage>>

(* The id of a record is known once its Save returned.                     *)
AcceptFetch(f) ==
  /\ proc = "serving"
  /\ Goto(f, "new", "limit")
  /\ \E r \in {r \in Creates : phase[r] # "new"} \cup {NoRecord} :
       target' = [target EXCEPT ![f] = r]
  /\ UNCHANGED <<proc, status, method, storage>>

(* RateLimit runs before the handler on both routes.                       *)
RateLimitAllows(q) ==
  /\ Goto(q, "limit", IF q \in Creates THEN "decode" ELSE "load")
  /\ UNCHANGED <<proc, status, request, storage>>

(* Faulty variant of RateLimitDenies: a status the API does not have. *)
DeniesUnavailable(q) ==
  /\ Respond(q, "limit", 503)
  /\ UNCHANGED <<proc, request, storage>>

(* Faulty variant of RateLimitDenies: the chain is reversed and the limiter *)
(* runs after the handler.                                                 *)
DeniesAfterHandler(q) ==
  /\ Respond(q, "respond", 429)
  /\ UNCHANGED <<proc, request, storage>>

RateLimitDenies(q) ==
  /\ Respond(q, "limit", 429)
  /\ UNCHANGED <<proc, request, storage>>

(* CreateKey decodes the body and checks the ttl: an empty body or one     *)
(* object passes; a body over 64 KiB, null, trailing data, other JSON and  *)
(* a ttl out of range do not.                                              *)
DecodeAccepts(c) ==
  /\ Goto(c, "decode", "generate")
  /\ UNCHANGED <<proc, status, request, storage>>

DecodeRejects(c) ==
  /\ \E s \in {400, 413} : Respond(c, "decode", s)
  /\ UNCHANGED <<proc, request, storage>>

GenerateKey(c) ==
  /\ \/ Goto(c, "generate", "save") /\ UNCHANGED status
     \/ Respond(c, "generate", 500)
  /\ UNCHANGED <<proc, request, storage>>

(* Faulty variant of SaveReturns: an error after Save leaves the record. *)
SaveReturnsThenFails(c) ==
  /\ Respond(c, "save", 500)
  /\ Store!Publish(c)
  /\ UNCHANGED <<proc, request, took>>

SaveReturns(c) ==
  /\ Respond(c, "save", 201)
  /\ Store!Publish(c)
  /\ UNCHANGED <<proc, request, took>>

(* Save failed.  The record may sit in Redis under an id nobody knows.     *)
SaveFails(c) ==
  /\ Respond(c, "save", 500)
  /\ Store!Discard({c})
  /\ UNCHANGED <<proc, request, took>>

(* h.store.Load returned a record: FetchKey writes it.                     *)
LoadRecord(f) ==
  /\ Respond(f, "load", 200)
  /\ target[f] \in Creates
  /\ Store!Take(target[f], f)
  /\ took' = [took EXCEPT ![target[f]] = f]
  /\ UNCHANGED <<proc, request>>

(* The record under the target is consumed without reaching the handler:   *)
(* the reply of its GETDEL was lost.                                       *)
LoseTarget(f) ==
  /\ target[f] \in Creates
  /\ phase[target[f]] = "live"
  /\ Store!Discard({target[f]})
  /\ took' = [took EXCEPT ![target[f]] = f]

(* Load returned (nil, nil): no record, or a repeated GETDEL.              *)
LoadNil(f) ==
  /\ Respond(f, "load", 404)
  /\ \/ target[f] = NoRecord /\ UNCHANGED storage
     \/ target[f] \in Creates /\ phase[target[f]] = "gone" /\ UNCHANGED storage
     \/ LoseTarget(f)
  /\ UNCHANGED <<proc, request>>

(* Load returned an error, before or after Redis consumed the record.      *)
LoadFails(f) ==
  /\ Respond(f, "load", 500)
  /\ UNCHANGED storage \/ LoseTarget(f)
  /\ UNCHANGED <<proc, request>>

(* PanicRecover turns a panic of a handler into a 500.                     *)
Panic(q) ==
  /\ \E from \in Running \ {"respond"} : Respond(q, from, 500)
  /\ UNCHANGED <<proc, request, storage>>

(* The response reaches the client, or its connection is gone (client      *)
(* left, WriteTimeout).  The handler does not notice either way.           *)
WriteResponse(q) ==
  /\ Goto(q, "respond", "done") \/ Goto(q, "respond", "lost")
  /\ UNCHANGED <<proc, status, request, storage>>

(* The ttl of a record runs out.                                           *)
ExpireRecord(r) ==
  /\ phase[r] = "live"
  /\ Store!Discard({r})
  /\ UNCHANGED <<proc, pc, status, request, took>>

-----------------------------------------------------------------------------
InFlight == {q \in Requests : pc[q] \in Running}

(* SIGINT or SIGTERM: Shutdown closes the listener and waits.              *)
Signal ==
  /\ proc = "serving"
  /\ proc' = "draining"
  /\ UNCHANGED <<pc, status, request, storage>>

(* Faulty variant of Drained: the process does not wait for its requests. *)
DrainedAtOnce ==
  /\ proc = "draining"
  /\ proc' = "stopped"
  /\ UNCHANGED <<pc, status, request, storage>>

(* Faulty variant of Drained: connections without a request are waited for. *)
DrainedWhenAllDone ==
  /\ proc = "draining"
  /\ \A q \in Requests : pc[q] \in Finished
  /\ proc' = "stopped"
  /\ UNCHANGED <<pc, status, request, storage>>

(* Every connection is idle: Shutdown returns nil, main returns.           *)
Drained ==
  /\ proc = "draining"
  /\ InFlight = {}
  /\ proc' = "stopped"
  /\ UNCHANGED <<pc, status, request, storage>>

(* os.Exit(1): the 10 s of shutdownCtx are over, or ListenAndServe failed. *)
Exit ==
  /\ \/ proc = "draining" /\ InFlight # {}
     \/ proc = "serving"
  /\ proc' = "killed"
  /\ pc' = [q \in Requests |-> IF q \in InFlight THEN "killed" ELSE pc[q]]
  /\ UNCHANGED <<status, request, storage>>

CreateStep(c) ==
  DecodeAccepts(c) \/ DecodeRejects(c) \/ GenerateKey(c) \/ SaveReturns(c) \/ SaveFails(c)
FetchStep(f) == LoadRecord(f) \/ LoadNil(f) \/ LoadFails(f)
AnyStep(q)   == RateLimitAllows(q) \/ RateLimitDenies(q) \/ Panic(q) \/ WriteResponse(q)

Next ==
  \/ \E c \in Creates : AcceptCreate(c) \/ CreateStep(c)
  \/ \E f \in Fetches : AcceptFetch(f) \/ FetchStep(f)
  \/ \E q \in Requests : AnyStep(q)
  \/ \E r \in Creates : ExpireRecord(r)
  \/ Signal \/ Drained \/ Exit

Spec == Init /\ [][Next]_vars

(* Every handler runs on: its calls are bounded by the client's timeouts,  *)
(* its write by WriteTimeout; and Shutdown returns one way or the other.   *)
Fairness ==
  /\ \A c \in Creates : WF_vars(CreateStep(c))
  /\ \A f \in Fetches : WF_vars(FetchStep(f))
  /\ \A q \in Requests : WF_vars(AnyStep(q))
  /\ WF_vars(Drained \/ (proc = "draining" /\ Exit))

FairSpec == Spec /\ Fairness

-----------------------------------------------------------------------------
(* A key leaves the store only for a request that passed the limiter: a    *)
(* 429, or any answer to a create, never costs a recipient the note, and a *)
(* key handed to a response was taken by exactly that request.             *)
OnlyLoadConsumes ==
  \A r \in Creates :
    /\ took[r] # NoRecord => /\ target[took[r]] = r
                             /\ status[took[r]] \in {200, 404, 500}
    /\ \A f \in Fetches : status[f] = 200 /\ target[f] = r => took[r] = f

(* CreateKey answers 201 exactly when it left a record behind: no error    *)
(* answer (limit, body, ttl, key generation, Save, panic) leaves a live    *)
(* key, and no 201 promises a key that was not saved.                      *)
CreatedIffStored ==
  \A c \in Creates : /\ phase[c] = "live" => status[c] = 201
                     /\ status[c] = 201 => phase[c] # "new"

(* After a graceful stop no accepted request was cut off: a key that was   *)
(* taken has had its answer written.                                       *)
StopLosesNothing ==
  proc = "stopped" => \A q \in Requests : /\ pc[q] \in {"new", "done", "lost"}
                                          /\ pc[q] # "new" => status[q] # 0

(* Every accepted request is answered, or the process was killed.          *)
EveryRequestEnds == \A q \in Requests : pc[q] \in Running ~> pc[q] \in Finished

(* After a signal the process ends, whatever its requests do.              *)
StopEnds == proc = "draining" ~> proc \in {"stopped", "killed"}

(* handlers.go:184-185: FetchKey "Returns the private key PEM, consuming   *)
(* it": a completed 200 carried the key to the client.                     *)
ConsumedIsReturned ==
  \A f \in Fetches : pc[f] = "done" /\ status[f] = 200 => method[f] = "GET"
=============================================================================

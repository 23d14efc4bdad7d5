---------------------------- MODULE ServerProofs ----------------------------
(***************************************************************************)
(* Proofs about Server for any number of create and fetch requests.        *)
(***************************************************************************)
EXTENDS Server, TLAPS

-----------------------------------------------------------------------------
(* The steps of a request that come before a status is written.            *)
Unanswered == {"new", "limit", "decode", "generate", "save", "load"}

(* A request is given one status, in the step that ends its handler.       *)
Answered ==
  \A q \in Requests : /\ pc[q] \in Unanswered => status[q] = 0
                      /\ pc[q] \in {"respond", "done", "lost"} => status[q] # 0

(* A record has not been handed to the store before Save, and once a fetch *)
(* has taken it it does not come back.                                     *)
Stored ==
  /\ \A c \in Creates : pc[c] \in Unanswered => phase[c] = "new"
  /\ \A c \in Creates : took[c] # NoRecord => phase[c] = "gone"

(* A request is killed only together with its process.                     *)
KilledTogether == \A q \in Requests : pc[q] = "killed" => proc = "killed"

(* The inductive invariant: the three properties and what they rest on.    *)
ServerInv ==
  /\ TypeOK /\ Answered /\ Stored /\ KilledTogether
  /\ OnlyLoadConsumes /\ CreatedIffStored /\ StopLosesNothing

-----------------------------------------------------------------------------
(* Before the first request nothing is stored and nothing answered.        *)
LEMMA ServerInit == Init => ServerInv
  BY ServerAssumption
     DEF Init, ServerInv, TypeOK, Answered, Stored, KilledTogether, OnlyLoadConsumes,
         CreatedIffStored, StopLosesNothing, Unanswered, Requests, Ids, Running, Finished, Statuses,
         Store!Init, Store!TypeOK, Store!Phases

(* What a handler step assigns: one request moves, and its status is       *)
(* written if it goes to "respond".                                        *)
LEMMA OneMoves ==
  ASSUME TypeOK, NEW q \in Requests, NEW p, NEW t, Goto(q, p, t)
  PROVE  /\ proc \in {"serving", "draining"}
         /\ pc[q] = p /\ pc'[q] = t
         /\ \A k \in Requests \ {q} : pc'[k] = pc[k]
  BY DEF Goto, Alive, TypeOK

(* A request that goes on without an answer, or is answered with neither a *)
(* key nor a 201, leaves the store alone and breaks nothing.               *)
LEMMA MoveStep ==
  ASSUME ServerInv, TypeOK',
         NEW q \in Requests, NEW p \in Unanswered, NEW t \in Unanswered \cup {"respond"},
         Goto(q, p, t),
         status'[q] \notin {200, 201}, t = "respond" <=> status'[q] # 0,
         \A k \in Requests \ {q} : status'[k] = status[k],
         UNCHANGED <<proc, target, phase, took>>
  PROVE  ServerInv'
<1> USE ServerAssumption DEF ServerInv, Requests
<1>1. /\ proc \in {"serving", "draining"} /\ pc[q] = p /\ pc'[q] = t
      /\ \A k \in Requests \ {q} : pc'[k] = pc[k]
      /\ status[q] = 0
  BY OneMoves DEF TypeOK, Answered
<1>2. Answered'
  BY <1>1 DEF Answered, Unanswered
<1>3. Stored' /\ KilledTogether' /\ StopLosesNothing'
  BY <1>1 DEF Stored, KilledTogether, StopLosesNothing, Unanswered
<1>4. OnlyLoadConsumes'
  BY <1>1 DEF OnlyLoadConsumes, TypeOK
<1>5. CreatedIffStored'
  BY <1>1 DEF CreatedIffStored
<1> QED
  BY <1>2, <1>3, <1>4, <1>5

(* A request that goes on.                                                 *)
LEMMA GoOnStep ==
  ASSUME ServerInv, TypeOK',
         NEW q \in Requests, NEW p \in Unanswered, NEW t \in Unanswered,
         Goto(q, p, t),
         UNCHANGED <<proc, status, target, phase, took>>
  PROVE  ServerInv'
<1>1. status'[q] = 0
  BY DEF ServerInv, Answered, Goto
<1>2. t # "respond"
  BY DEF Unanswered
<1> QED
  BY <1>1, <1>2, MoveStep

(* An error answer that leaves the store alone.                            *)
LEMMA RefuseStep ==
  ASSUME ServerInv, TypeOK',
         NEW q \in Requests, NEW p \in Unanswered, NEW s \in {400, 404, 413, 429, 500},
         Respond(q, p, s),
         UNCHANGED <<proc, target, phase, took>>
  PROVE  ServerInv'
<1>1. Goto(q, p, "respond")
  BY DEF Respond
<1>2. status'[q] = s /\ \A k \in Requests \ {q} : status'[k] = status[k]
  BY DEF Respond, ServerInv, TypeOK
<1> QED
  BY <1>1, <1>2, MoveStep

(* Records that go from live to gone without a taker: nothing else         *)
(* changes.                                                                *)
LEMMA DiscardKept ==
  ASSUME TypeOK, NEW r \in Creates, Store!Discard({r})
  PROVE  /\ phase'[r] = "gone" /\ \A c \in Creates \ {r} : phase'[c] = phase[c]
         /\ phase' \in [Creates -> Store!Phases] /\ readers' = readers
  BY DEF TypeOK, Store!TypeOK, Store!Discard, Store!Phases

(* A fetch whose Load consumed record r, handed over (200) or lost on the  *)
(* way (404, 500), is the one taker of r.                                  *)
LEMMA TakeStep ==
  ASSUME ServerInv, TypeOK',
         NEW f \in Fetches, NEW s \in {200, 404, 500},
         Respond(f, "load", s),
         target[f] \in Creates,
         phase[target[f]] = "live",
         phase'[target[f]] = "gone",
         \A c \in Creates \ {target[f]} : phase'[c] = phase[c],
         took'[target[f]] = f,
         \A c \in Creates \ {target[f]} : took'[c] = took[c],
         UNCHANGED <<proc, target>>
  PROVE  ServerInv'
<1> USE ServerAssumption DEF ServerInv, Requests
<1>1. /\ proc \in {"serving", "draining"} /\ pc[f] = "load" /\ pc'[f] = "respond"
      /\ \A k \in Requests \ {f} : pc'[k] = pc[k] /\ status'[k] = status[k]
      /\ status[f] = 0 /\ status'[f] = s
  BY OneMoves DEF Respond, TypeOK, Answered, Unanswered
<1>2. took[target[f]] = NoRecord
  BY DEF Stored, TypeOK
<1>3. Answered'
  BY <1>1 DEF Answered, Unanswered
<1>4. Stored'
  <2>1. status[target[f]] = 201
    BY DEF CreatedIffStored
  <2>2. pc[target[f]] \notin Unanswered
    BY <2>1 DEF Answered
  <2> QED
    BY <1>1, <2>2 DEF Stored
<1>5. KilledTogether' /\ StopLosesNothing'
  BY <1>1 DEF KilledTogether, StopLosesNothing
<1>6. OnlyLoadConsumes'
  <2> SUFFICES ASSUME NEW r \in Creates
               PROVE  /\ took'[r] # NoRecord => /\ target[took'[r]] = r
                                               /\ status'[took'[r]] \in {200, 404, 500}
                      /\ \A g \in Fetches : status'[g] = 200 /\ target[g] = r => took'[r] = g
    BY DEF OnlyLoadConsumes
  <2>1. CASE r = target[f]
    BY <1>1, <1>2, <2>1 DEF OnlyLoadConsumes
  <2>2. CASE r # target[f]
    <3>1. took'[r] = took[r] /\ (took[r] # NoRecord => took[r] \in Fetches \ {f})
      BY <2>2 DEF OnlyLoadConsumes, TypeOK
    <3> QED
      BY <1>1, <2>2, <3>1 DEF OnlyLoadConsumes
  <2> QED
    BY <2>1, <2>2
<1>7. CreatedIffStored'
  BY <1>1 DEF CreatedIffStored
<1> QED
  BY <1>3, <1>4, <1>5, <1>6, <1>7

(* Every step of a request, of the store and of the process keeps the      *)
(* types.                                                                  *)
LEMMA TypeStep == TypeOK /\ [Next]_vars => TypeOK'
<1> SUFFICES ASSUME TypeOK, [Next]_vars
             PROVE  TypeOK'
  OBVIOUS
<1> USE ServerAssumption
        DEF Requests, Ids, Running, Finished, Statuses, Goto, Respond, request, storage
<1>1. ASSUME NEW q \in Requests, AnyStep(q)
      PROVE  TypeOK'
  BY <1>1 DEF TypeOK, AnyStep, RateLimitAllows, RateLimitDenies, Panic, WriteResponse, Store!TypeOK
<1>2. ASSUME NEW c \in Creates,
             AcceptCreate(c) \/ DecodeAccepts(c) \/ DecodeRejects(c) \/ GenerateKey(c)
      PROVE  TypeOK'
  BY <1>2 DEF TypeOK, AcceptCreate, DecodeAccepts, DecodeRejects, GenerateKey, Store!TypeOK
<1>3. ASSUME NEW c \in Creates, SaveReturns(c)
      PROVE  TypeOK'
  BY <1>3 DEF TypeOK, SaveReturns, Store!Publish, Store!TypeOK, Store!Phases
<1>4. ASSUME NEW c \in Creates, SaveFails(c)
      PROVE  TypeOK'
  BY <1>4, DiscardKept DEF TypeOK, SaveFails, Store!TypeOK
<1>5. ASSUME NEW f \in Fetches, AcceptFetch(f)
      PROVE  TypeOK'
  BY <1>5 DEF TypeOK, AcceptFetch, Store!TypeOK
<1>6. ASSUME NEW f \in Fetches, LoadRecord(f)
      PROVE  TypeOK'
  BY <1>6 DEF TypeOK, LoadRecord, Store!Take, Store!TypeOK, Store!Phases
<1>7. ASSUME NEW f \in Fetches, LoadNil(f) \/ LoadFails(f)
      PROVE  TypeOK'
  <2>1. phase' \in [Creates -> Store!Phases] /\ readers' = readers
    BY <1>7, DiscardKept DEF LoadNil, LoadFails, LoseTarget, TypeOK, Store!TypeOK
  <2>2. took' \in [Creates -> Fetches \cup {NoRecord}]
    BY <1>7 DEF LoadNil, LoadFails, LoseTarget, TypeOK
  <2> QED
    BY <1>7, <2>1, <2>2 DEF LoadNil, LoadFails, TypeOK, Store!TypeOK
<1>8. ASSUME NEW r \in Creates, ExpireRecord(r)
      PROVE  TypeOK'
  BY <1>8, DiscardKept DEF TypeOK, ExpireRecord, Store!TypeOK
<1>9. CASE Signal \/ Drained \/ Exit
  BY <1>9 DEF TypeOK, Signal, Drained, Exit, Store!TypeOK
<1>10. CASE UNCHANGED vars
  BY <1>10 DEF vars, TypeOK, Store!TypeOK
<1> QED
  BY <1>1, <1>2, <1>3, <1>4, <1>5, <1>6, <1>7, <1>8, <1>9, <1>10 DEF Next, CreateStep, FetchStep

(* Every step keeps the invariant.                                         *)
LEMMA ServerStep == ServerInv /\ [Next]_vars => ServerInv'
<1> SUFFICES ASSUME ServerInv, [Next]_vars
             PROVE  ServerInv'
  OBVIOUS
<1>0. TypeOK /\ TypeOK'
  BY TypeStep DEF ServerInv
<1> USE ServerAssumption DEF Requests
<1>1. ASSUME NEW q \in Requests, RateLimitAllows(q)
      PROVE  ServerInv'
  BY <1>0, <1>1, GoOnStep DEF RateLimitAllows, Unanswered, request, storage
<1>2. ASSUME NEW q \in Requests, RateLimitDenies(q)
      PROVE  ServerInv'
  BY <1>0, <1>2, RefuseStep DEF RateLimitDenies, Unanswered, request, storage
<1>3. ASSUME NEW q \in Requests, Panic(q)
      PROVE  ServerInv'
  <2>1. PICK p \in Running \ {"respond"} : Respond(q, p, 500)
    BY <1>3 DEF Panic
  <2>2. p \in Unanswered
    BY DEF Running, Unanswered
  <2> QED
    BY <1>0, <1>3, <2>1, <2>2, RefuseStep DEF Panic, request, storage
<1>4. ASSUME NEW q \in Requests, WriteResponse(q)
      PROVE  ServerInv'
  <2>1. /\ proc \in {"serving", "draining"} /\ pc[q] = "respond" /\ pc'[q] \in {"done", "lost"}
        /\ \A k \in Requests \ {q} : pc'[k] = pc[k]
        /\ UNCHANGED <<proc, status, target, phase, took>>
    BY <1>0, <1>4, OneMoves DEF WriteResponse, request, storage
  <2>2. Answered' /\ Stored' /\ KilledTogether' /\ StopLosesNothing'
    BY <2>1 DEF ServerInv, Answered, Stored, KilledTogether, StopLosesNothing, Unanswered
  <2>3. OnlyLoadConsumes' /\ CreatedIffStored'
    BY <2>1 DEF ServerInv, OnlyLoadConsumes, CreatedIffStored
  <2> QED
    BY <1>0, <2>2, <2>3 DEF ServerInv
<1>5. ASSUME NEW c \in Creates, AcceptCreate(c) \/ DecodeAccepts(c)
      PROVE  ServerInv'
  BY <1>0, <1>5, GoOnStep DEF AcceptCreate, DecodeAccepts, Unanswered, request, storage
<1>6. ASSUME NEW c \in Creates, DecodeRejects(c) \/ GenerateKey(c)
      PROVE  ServerInv'
  BY <1>0, <1>6, GoOnStep, RefuseStep DEF DecodeRejects, GenerateKey, Unanswered, request, storage
<1>7. ASSUME NEW c \in Creates, SaveReturns(c) \/ SaveFails(c)
      PROVE  ServerInv'
  <2>1. /\ proc \in {"serving", "draining"} /\ pc[c] = "save" /\ pc'[c] = "respond"
        /\ \A k \in Requests \ {c} : pc'[k] = pc[k] /\ status'[k] = status[k]
        /\ UNCHANGED <<proc, target, took>>
    BY <1>0, <1>7, OneMoves DEF SaveReturns, SaveFails, Respond, TypeOK, request
  <2>2. \/ status'[c] = 201 /\ phase'[c] = "live"
        \/ status'[c] = 500 /\ phase'[c] = "gone"
    BY <1>0, <1>7, DiscardKept
       DEF SaveReturns, SaveFails, Respond, Store!Publish, TypeOK, Store!TypeOK
  <2>3. \A d \in Creates \ {c} : phase'[d] = phase[d]
    BY <1>0, <1>7, DiscardKept DEF SaveReturns, SaveFails, Store!Publish, TypeOK, Store!TypeOK
  <2>4. took[c] = NoRecord
    BY <2>1 DEF ServerInv, Stored, Unanswered
  <2>5. Answered' /\ Stored' /\ KilledTogether' /\ StopLosesNothing'
    BY <2>1, <2>2, <2>3, <2>4
       DEF ServerInv, Answered, Stored, KilledTogether, StopLosesNothing, Unanswered
  <2>6. \A f \in Fetches : status'[f] = status[f]
    BY <2>1
  <2>7. OnlyLoadConsumes'
    BY <1>0, <2>1, <2>6 DEF ServerInv, OnlyLoadConsumes, TypeOK
  <2>8. CreatedIffStored'
    BY <2>1, <2>2, <2>3 DEF ServerInv, CreatedIffStored
  <2> QED
    BY <1>0, <2>5, <2>7, <2>8 DEF ServerInv
<1>8. ASSUME NEW f \in Fetches, AcceptFetch(f)
      PROVE  ServerInv'
  <2>1. /\ proc \in {"serving", "draining"} /\ pc[f] = "new" /\ pc'[f] = "limit"
        /\ \A k \in Requests \ {f} : pc'[k] = pc[k]
        /\ \A g \in Fetches \ {f} : target'[g] = target[g]
        /\ UNCHANGED <<proc, status, phase, took>>
    BY <1>0, <1>8, OneMoves DEF AcceptFetch, TypeOK, storage
  <2>2. status[f] = 0
    BY <2>1 DEF ServerInv, Answered, Unanswered
  <2>3. Answered' /\ Stored' /\ KilledTogether' /\ StopLosesNothing'
    BY <2>1, <2>2 DEF ServerInv, Answered, Stored, KilledTogether, StopLosesNothing, Unanswered
  <2>4. OnlyLoadConsumes'
    BY <1>0, <2>1, <2>2 DEF ServerInv, OnlyLoadConsumes, TypeOK
  <2>5. CreatedIffStored'
    BY <2>1 DEF ServerInv, CreatedIffStored
  <2> QED
    BY <1>0, <2>3, <2>4, <2>5 DEF ServerInv
<1>9. ASSUME NEW f \in Fetches, LoadRecord(f)
      PROVE  ServerInv'
  <2>1. /\ phase[target[f]] = "live" /\ phase'[target[f]] = "gone"
        /\ \A c \in Creates \ {target[f]} : phase'[c] = phase[c] /\ took'[c] = took[c]
        /\ took'[target[f]] = f
    BY <1>0, <1>9 DEF LoadRecord, Store!Take, TypeOK, Store!TypeOK
  <2> QED
    BY <1>0, <1>9, <2>1, TakeStep DEF LoadRecord, request
<1>10. ASSUME NEW f \in Fetches, LoadNil(f) \/ LoadFails(f)
       PROVE  ServerInv'
  <2>1. PICK s \in {404, 500} : Respond(f, "load", s)
    BY <1>10 DEF LoadNil, LoadFails
  <2>2. UNCHANGED <<proc, target>>
    BY <1>10 DEF LoadNil, LoadFails, request
  <2>3. CASE UNCHANGED storage
    BY <1>0, <2>1, <2>2, <2>3, RefuseStep DEF Unanswered, storage
  <2>4. CASE LoseTarget(f)
    <3>1. /\ target[f] \in Creates /\ phase[target[f]] = "live"
          /\ took'[target[f]] = f
          /\ \A c \in Creates \ {target[f]} : took'[c] = took[c]
      BY <1>0, <2>4 DEF LoseTarget, TypeOK
    <3>2. /\ phase'[target[f]] = "gone"
          /\ \A c \in Creates \ {target[f]} : phase'[c] = phase[c]
      BY <1>0, <2>4, <3>1, DiscardKept DEF LoseTarget
    <3>3. s \in {200, 404, 500}
      OBVIOUS
    <3> QED
      BY <1>0, <2>1, <2>2, <3>1, <3>2, <3>3, TakeStep
  <2> QED
    BY <1>10, <2>3, <2>4 DEF LoadNil, LoadFails
<1>11. ASSUME NEW r \in Creates, ExpireRecord(r)
       PROVE  ServerInv'
  <2>1. /\ phase[r] = "live" /\ phase'[r] = "gone"
        /\ \A c \in Creates \ {r} : phase'[c] = phase[c]
        /\ UNCHANGED <<proc, pc, status, target, took>>
    BY <1>0, <1>11, DiscardKept DEF ExpireRecord, request
  <2>2. Answered' /\ Stored' /\ KilledTogether' /\ StopLosesNothing'
    BY <2>1 DEF ServerInv, Answered, Stored, KilledTogether, StopLosesNothing
  <2>3. OnlyLoadConsumes' /\ CreatedIffStored'
    BY <2>1 DEF ServerInv, OnlyLoadConsumes, CreatedIffStored
  <2> QED
    BY <1>0, <2>2, <2>3 DEF ServerInv
<1>12. CASE Signal \/ Drained
  <2>1. UNCHANGED <<pc, status, target, phase, took>> /\ proc # "killed" /\ proc' \in {"draining", "stopped"}
    BY <1>12 DEF Signal, Drained, request, storage
  <2>2. Answered' /\ Stored' /\ KilledTogether'
    BY <2>1 DEF ServerInv, Answered, Stored, KilledTogether
  <2>3. OnlyLoadConsumes' /\ CreatedIffStored'
    BY <2>1 DEF ServerInv, OnlyLoadConsumes, CreatedIffStored
  <2>4. proc' = "stopped" => \A q \in Requests : pc[q] \in {"new", "done", "lost"}
    BY <1>0, <1>12, <2>1
       DEF Signal, Drained, InFlight, TypeOK, Running, Finished, ServerInv, KilledTogether
  <2>5. StopLosesNothing'
    BY <2>1, <2>4 DEF StopLosesNothing, ServerInv, Answered
  <2> QED
    BY <1>0, <2>2, <2>3, <2>5 DEF ServerInv
<1>13. CASE Exit
  <2>1. /\ proc' = "killed" /\ UNCHANGED <<status, target, phase, took>>
        /\ \A q \in Requests : pc'[q] \in {pc[q], "killed"}
    BY <1>13 DEF Exit, request, storage
  <2>2. Answered' /\ Stored' /\ KilledTogether' /\ StopLosesNothing'
    BY <2>1 DEF ServerInv, Answered, Stored, KilledTogether, StopLosesNothing, Unanswered
  <2>3. OnlyLoadConsumes' /\ CreatedIffStored'
    BY <2>1 DEF ServerInv, OnlyLoadConsumes, CreatedIffStored
  <2> QED
    BY <1>0, <2>2, <2>3 DEF ServerInv
<1>14. CASE UNCHANGED vars
  BY <1>0, <1>14
     DEF vars, ServerInv, Answered, Stored, KilledTogether, OnlyLoadConsumes, CreatedIffStored,
         StopLosesNothing
<1> QED
  BY <1>1, <1>2, <1>3, <1>4, <1>5, <1>6, <1>7, <1>8, <1>9, <1>10, <1>11, <1>12, <1>13, <1>14
     DEF Next, CreateStep, FetchStep, AnyStep

(* ServerInv holds in every state of the process.                          *)
LEMMA ServerInvHolds == Spec => []ServerInv
  BY ServerInit, ServerStep, PTL DEF Spec

(* The process never leaves its types.                                     *)
THEOREM ServerTypeCorrect == Spec => []TypeOK
<1>1. ServerInv => TypeOK
  BY DEF ServerInv
<1> QED
  BY <1>1, ServerInvHolds, PTL

(* A key leaves the store only for a fetch that passed the limiter, and a  *)
(* 200 carries the key that this very request took (FetchKey).             *)
THEOREM OnlyLoadConsumesHolds == Spec => []OnlyLoadConsumes
<1>1. ServerInv => OnlyLoadConsumes
  BY DEF ServerInv
<1> QED
  BY <1>1, ServerInvHolds, PTL

(* A key is served in at most one response.                                *)
ServedOnce ==
  \A f, g \in Fetches :
    status[f] = 200 /\ status[g] = 200 /\ target[f] = target[g] /\ target[f] \in Creates => f = g

(* GET /api/keys/{id} answers 200 for a key once, however many requests    *)
(* ask for it at a time.                                                   *)
THEOREM ServedOnceHolds == Spec => []ServedOnce
<1>1. ServerInv => ServedOnce
  BY DEF ServerInv, OnlyLoadConsumes, ServedOnce
<1> QED
  BY <1>1, ServerInvHolds, PTL

(* CreateKey answers 201 exactly when it left a record behind.             *)
THEOREM CreatedIffStoredHolds == Spec => []CreatedIffStored
<1>1. ServerInv => CreatedIffStored
  BY DEF ServerInv
<1> QED
  BY <1>1, ServerInvHolds, PTL

(* A graceful stop (srv.Shutdown in main.go) cuts off no accepted request. *)
THEOREM StopLosesNothingHolds == Spec => []StopLosesNothing
<1>1. ServerInv => StopLosesNothing
  BY DEF ServerInv
<1> QED
  BY <1>1, ServerInvHolds, PTL
=============================================================================

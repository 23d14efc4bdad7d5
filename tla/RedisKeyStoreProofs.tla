------------------------ MODULE RedisKeyStoreProofs ------------------------
(***************************************************************************)
(* Proofs about RedisKeyStore for any number of calls, ids, retries and    *)
(* any ttl.                                                                *)
(***************************************************************************)
EXTENDS RedisKeyStore, TLAPS

-----------------------------------------------------------------------------
(* A call has an id as soon as it, or a command it abandoned, can act on   *)
(* Redis, and none before it starts.                                       *)
HaveIds ==
  /\ \A c \in Calls : cmd[c].st = "idle" => id[c] = Nil
  /\ \A c \in Calls : InFlight(cmd[c]) \/ c \in late => id[c] \in Ids
  /\ \A s \in Savers : cmd[s].st = "returned" => id[s] \in Ids

(* No two Save calls share an id, and a Load knows the id of a Save only   *)
(* after that Save returned.                                               *)
SecretIds ==
  /\ \A s, t \in Savers : id[s] = id[t] /\ id[s] # Nil => s = t
  /\ \A l \in Loaders, s \in Savers : id[l] = id[s] /\ id[l] # Nil => cmd[s].st = "returned"

(* In Redis, in its file and in replies a record sits under its own id.    *)
InPlace ==
  /\ \A i \in Ids, s \in Savers : data[i] = s \/ aofData[i] = s => id[s] = i
  /\ \A l \in Loaders, s \in Savers : reply[l] = s => id[l] = id[s] /\ id[l] \in Ids

(* The inductive invariant behind RightRecord: it survives every fault.    *)
PlaceInv == TypeOK /\ HaveIds /\ SecretIds /\ InPlace

(* The record of a reply has left Redis and is in no other reply.          *)
Moved ==
  /\ \A l \in Loaders, s \in Savers : reply[l] = s => data[id[s]] # s
  /\ \A k, l \in Loaders, s \in Savers : reply[k] = s /\ reply[l] = s => k = l

(* The network executes a command while its attempt lasts or never, and    *)
(* Redis does not restart.                                                 *)
NoFaults == ~LateExecution /\ MaxCrashes = 0

(* The inductive invariant behind AtMostOnce.                              *)
OnceInv == PlaceInv /\ late = {} /\ Moved

-----------------------------------------------------------------------------
(* Before any call has started nothing is stored and nothing is out of     *)
(* place.                                                                  *)
LEMMA PlaceInit == Init => PlaceInv
  BY StoreAssumption, MaxRetriesAssumption
     DEF Init, PlaceInv, TypeOK, HaveIds, SecretIds, InPlace, Calls, Values, NewCall,
         CallType, CallStates, InFlight

(* Every kind of call state the client loop produces is well typed.        *)
LEMMA RetryType ==
  ASSUME NEW c \in CallType
  PROVE  /\ Retry(c) \in CallType
         /\ Retry(c).st \in {"sent", "failed"}
         /\ Refused(c) \in CallType
         /\ Refused(c).st = "failed"
  BY MaxRetriesAssumption DEF Retry, Refused, CallType, CallStates

(* A fresh and a just started call are well typed, and told apart by st.   *)
LEMMA StartType == Start \in CallType /\ Start.st = "sent" /\ NewCall.st = "idle"
  BY MaxRetriesAssumption DEF Start, NewCall, CallType, CallStates

(* Every step keeps the types, given that whoever acts on Redis has an id. *)
LEMMA TypeStep == TypeOK /\ HaveIds /\ [Next]_vars => TypeOK'
<1> SUFFICES ASSUME TypeOK, HaveIds, [Next]_vars
             PROVE  TypeOK'
  OBVIOUS
<1> USE StoreAssumption, StartType DEF Calls, Values
<1>1. ASSUME NEW s \in Savers, StartSave(s)
      PROVE  TypeOK'
  BY <1>1 DEF TypeOK, StartSave, RandomID, redis, aof
<1>2. ASSUME NEW s \in Savers, SaveAborts(s)
      PROVE  TypeOK'
  <2>1. Refused(cmd[s]) \in CallType
    BY RetryType DEF TypeOK
  <2> QED
    BY <1>2, <2>1 DEF TypeOK, SaveAborts, redis, aof
<1>3. ASSUME NEW s \in Savers, ExecSet(s)
      PROVE  TypeOK'
  <2>1. id[s] \in Ids /\ clock + TTL \in Nat
    BY <1>3 DEF ExecSet, HaveIds, InFlight, TypeOK
  <2>2. data' \in [Ids -> Values] /\ expiry' \in [Ids -> Nat]
    BY <1>3, <2>1 DEF ExecSet, Set, TypeOK
  <2>3. cmd' \in [Calls -> CallType]
    BY <1>3 DEF ExecSet, TypeOK, CallType, CallStates
  <2> QED
    BY <1>3, <2>2, <2>3 DEF ExecSet, TypeOK, aof
<1>4. ASSUME NEW s \in Savers, SaveReturns(s)
      PROVE  TypeOK'
  <2>1. cmd' \in [Calls -> CallType]
    BY <1>4 DEF SaveReturns, TypeOK, CallType, CallStates
  <2> QED
    BY <1>4, <2>1 DEF SaveReturns, TypeOK, redis, aof
<1>5. ASSUME NEW l \in Loaders, StartLoad(l)
      PROVE  TypeOK'
  <2>1. PublishedIds \subseteq Ids
    BY DEF PublishedIds, HaveIds
  <2> QED
    BY <1>5, <2>1 DEF TypeOK, StartLoad, redis, aof
<1>6. ASSUME NEW l \in Loaders, ExecGetDel(l)
      PROVE  TypeOK'
  <2>1. id[l] \in Ids
    BY <1>6 DEF ExecGetDel, HaveIds, InFlight
  <2>2. reply' \in [Loaders -> Values] /\ data' \in [Ids -> Values] /\ expiry' = expiry
    BY <1>6, <2>1 DEF ExecGetDel, GetDel, Lookup, TypeOK
  <2>3. cmd' \in [Calls -> CallType]
    BY <1>6 DEF ExecGetDel, TypeOK, CallType, CallStates
  <2> QED
    BY <1>6, <2>2, <2>3 DEF ExecGetDel, TypeOK, aof
<1>7. ASSUME NEW l \in Loaders, LoadReturns(l)
      PROVE  TypeOK'
  <2>1. cmd' \in [Calls -> CallType]
    BY <1>7 DEF LoadReturns, TypeOK, CallType, CallStates
  <2> QED
    BY <1>7, <2>1 DEF LoadReturns, TypeOK, redis, aof
<1>8. ASSUME NEW c \in Calls, Timeout(c)
      PROVE  TypeOK'
  <2>1. Retry(cmd[c]) \in CallType
    BY RetryType DEF TypeOK
  <2>2. reply' \in [Loaders -> Values]
    BY <1>8 DEF Timeout, Forget, TypeOK
  <2>3. late' \in SUBSET Calls
    BY <1>8 DEF Timeout, TypeOK
  <2> QED
    BY <1>8, <2>1, <2>2, <2>3 DEF Timeout, TypeOK, redis, aof
<1>9. ASSUME NEW c \in Calls, Refuse(c)
      PROVE  TypeOK'
  <2>1. Refused(cmd[c]) \in CallType
    BY RetryType DEF TypeOK
  <2> QED
    BY <1>9, <2>1 DEF Refuse, TypeOK, redis, aof
<1>10. ASSUME NEW c \in Calls, ExecLate(c)
       PROVE  TypeOK'
  <2>1. id[c] \in Ids /\ clock + TTL \in Nat
    BY <1>10 DEF ExecLate, HaveIds, TypeOK
  <2>2. data' \in [Ids -> Values] /\ expiry' \in [Ids -> Nat]
    BY <1>10, <2>1 DEF ExecLate, Set, GetDel, TypeOK
  <2> QED
    BY <1>10, <2>2 DEF ExecLate, TypeOK, aof
<1>11. CASE Tick
  BY <1>11 DEF Tick, TypeOK, redis, aof
<1>12. CASE Fsync
  BY <1>12 DEF Fsync, TypeOK, redis, aof
<1>13. CASE Crash
  BY <1>13 DEF Crash, TypeOK, redis, aof
<1>14. CASE UNCHANGED vars
  BY <1>14 DEF vars, TypeOK
<1> QED
  BY <1>1, <1>2, <1>3, <1>4, <1>5, <1>6, <1>7, <1>8, <1>9, <1>10, <1>11, <1>12, <1>13, <1>14
     DEF Next, SaveStep, LoadStep, CallEnds

(* A step that leaves ids, Redis and replies alone and moves call c to     *)
(* another state of the loop keeps PlaceInv, if it neither starts c nor    *)
(* undoes the return of a Save.                                            *)
LEMMA PlaceKept ==
  ASSUME PlaceInv, TypeOK',
         NEW c \in Calls,
         UNCHANGED <<id, data, aofData>>,
         cmd[c].st # "returned",
         cmd'[c].st \in {"sent", "answered", "returned", "failed"},
         cmd[c].st = "idle" => cmd'[c].st = "failed",
         \A d \in Calls \ {c} : cmd'[d] = cmd[d],
         cmd'[c].st \in {"sent", "answered", "returned"} => InFlight(cmd[c]),
         \A l \in Loaders : reply'[l] \in {reply[l], Nil},
         late' \subseteq late \cup (IF InFlight(cmd[c]) THEN {c} ELSE {})
  PROVE  PlaceInv'
<1> USE StoreAssumption DEF Calls
<1>1. HaveIds'
  BY DEF PlaceInv, HaveIds, InFlight
<1>2. SecretIds'
  BY DEF PlaceInv, SecretIds
<1>3. InPlace'
  BY DEF PlaceInv, InPlace
<1> QED
  BY <1>1, <1>2, <1>3 DEF PlaceInv

(* Every step, the faults included, keeps every record under its own id.   *)
LEMMA PlaceStep == PlaceInv /\ [Next]_vars => PlaceInv'
<1> SUFFICES ASSUME PlaceInv, [Next]_vars
             PROVE  PlaceInv'
  OBVIOUS
<1>0. TypeOK /\ TypeOK'
  BY TypeStep DEF PlaceInv
<1> USE StoreAssumption DEF Calls
<1>1. ASSUME NEW s \in Savers, StartSave(s)
      PROVE  PlaceInv'
  <2>1. PICK i \in RandomID : id' = [id EXCEPT ![s] = i]
    BY <1>1 DEF StartSave
  <2>2. i \in Ids /\ i # Nil /\ \A c \in Calls : id[c] # i
    BY <2>1 DEF RandomID, UsedIds
  <2>3. id[s] = Nil /\ cmd[s].st = "idle"
    BY <1>1, StartType DEF StartSave, PlaceInv, HaveIds
  <2>4. /\ id'[s] = i
        /\ \A c \in Calls \ {s} : id'[c] = id[c] /\ cmd'[c] = cmd[c]
        /\ cmd'[s].st = "sent"
        /\ UNCHANGED <<reply, data, aofData, late>>
    BY <1>1, <1>0, <2>1, StartType DEF StartSave, TypeOK, redis, aof
  <2>5. HaveIds'
    BY <2>2, <2>3, <2>4 DEF PlaceInv, HaveIds, InFlight
  <2>6. SecretIds'
    BY <2>2, <2>3, <2>4 DEF PlaceInv, SecretIds
  <2>7. InPlace'
    BY <2>2, <2>3, <2>4 DEF PlaceInv, InPlace
  <2> QED
    BY <1>0, <2>5, <2>6, <2>7 DEF PlaceInv
<1>2. ASSUME NEW s \in Savers, SaveAborts(s)
      PROVE  PlaceInv'
  <2>1. cmd[s].st = "idle" /\ cmd'[s].st = "failed"
    BY <1>2, <1>0, StartType, RetryType DEF SaveAborts, TypeOK
  <2> QED
    BY <1>2, <1>0, <2>1, PlaceKept DEF SaveAborts, TypeOK, redis, aof
<1>3. ASSUME NEW s \in Savers, ExecSet(s)
      PROVE  PlaceInv'
  <2>1. id[s] \in Ids /\ cmd[s].st = "sent"
    BY <1>3 DEF ExecSet, PlaceInv, HaveIds, InFlight
  <2>2. /\ data' = [data EXCEPT ![id[s]] = s]
        /\ \A c \in Calls \ {s} : cmd'[c] = cmd[c]
        /\ cmd'[s].st = "answered"
        /\ UNCHANGED <<id, reply, aofData, late>>
    BY <1>3, <1>0 DEF ExecSet, Set, TypeOK, CallType, aof
  <2>3. HaveIds'
    BY <2>1, <2>2 DEF PlaceInv, HaveIds, InFlight
  <2>4. SecretIds'
    BY <2>1, <2>2 DEF PlaceInv, SecretIds
  <2>5. InPlace'
    BY <1>0, <2>1, <2>2 DEF PlaceInv, InPlace, TypeOK
  <2> QED
    BY <1>0, <2>3, <2>4, <2>5 DEF PlaceInv
<1>4. ASSUME NEW s \in Savers, SaveReturns(s)
      PROVE  PlaceInv'
  <2>1. cmd[s].st = "answered" /\ cmd'[s].st = "returned"
    BY <1>4, <1>0 DEF SaveReturns, TypeOK, CallType
  <2>2. \A c \in Calls \ {s} : cmd'[c] = cmd[c]
    BY <1>4, <1>0 DEF SaveReturns, TypeOK
  <2> QED
    BY <1>4, <1>0, <2>1, <2>2, PlaceKept DEF SaveReturns, InFlight, redis, aof
<1>5. ASSUME NEW l \in Loaders, StartLoad(l)
      PROVE  PlaceInv'
  <2>1. PICK i \in PublishedIds \cup (Ids \ SavedIds) : id' = [id EXCEPT ![l] = i]
    BY <1>5 DEF StartLoad
  <2>2. i \in Ids /\ i # Nil
    BY <2>1 DEF PublishedIds, PlaceInv, HaveIds
  <2>3. \A s \in Savers : id[s] = i => cmd[s].st = "returned"
    BY <2>1, <2>2 DEF PublishedIds, SavedIds, PlaceInv, SecretIds
  <2>4. id[l] = Nil /\ cmd[l].st = "idle"
    BY <1>5, StartType DEF StartLoad, PlaceInv, HaveIds
  <2>5. /\ id'[l] = i
        /\ \A c \in Calls \ {l} : id'[c] = id[c] /\ cmd'[c] = cmd[c]
        /\ cmd'[l].st = "sent"
        /\ UNCHANGED <<reply, data, aofData, late>>
    BY <1>5, <1>0, <2>1, StartType DEF StartLoad, TypeOK, redis, aof
  <2>6. HaveIds'
    BY <2>2, <2>4, <2>5 DEF PlaceInv, HaveIds, InFlight
  <2>7. SecretIds'
    BY <2>2, <2>3, <2>4, <2>5 DEF PlaceInv, SecretIds
  <2>8. InPlace'
    BY <2>2, <2>4, <2>5 DEF PlaceInv, InPlace
  <2> QED
    BY <1>0, <2>6, <2>7, <2>8 DEF PlaceInv
<1>6. ASSUME NEW l \in Loaders, ExecGetDel(l)
      PROVE  PlaceInv'
  <2>1. id[l] \in Ids /\ cmd[l].st = "sent"
    BY <1>6 DEF ExecGetDel, PlaceInv, HaveIds, InFlight
  <2>2. /\ data' = [data EXCEPT ![id[l]] = Nil]
        /\ reply' = [reply EXCEPT ![l] = Lookup(id[l])]
        /\ \A c \in Calls \ {l} : cmd'[c] = cmd[c]
        /\ cmd'[l].st = "answered"
        /\ UNCHANGED <<id, aofData, late>>
    BY <1>6, <1>0 DEF ExecGetDel, GetDel, TypeOK, CallType, aof
  <2>3. HaveIds'
    BY <2>1, <2>2 DEF PlaceInv, HaveIds, InFlight
  <2>4. SecretIds'
    BY <2>1, <2>2 DEF PlaceInv, SecretIds
  <2>5. InPlace'
    BY <1>0, <2>1, <2>2 DEF PlaceInv, InPlace, TypeOK, Lookup
  <2> QED
    BY <1>0, <2>3, <2>4, <2>5 DEF PlaceInv
<1>7. ASSUME NEW l \in Loaders, LoadReturns(l)
      PROVE  PlaceInv'
  <2>1. cmd[l].st = "answered" /\ cmd'[l].st \in {"returned", "failed"}
    BY <1>7, <1>0 DEF LoadReturns, TypeOK, CallType
  <2>2. \A c \in Calls \ {l} : cmd'[c] = cmd[c]
    BY <1>7, <1>0 DEF LoadReturns, TypeOK
  <2> QED
    BY <1>7, <1>0, <2>1, <2>2, PlaceKept DEF LoadReturns, InFlight, redis, aof
<1>8. ASSUME NEW c \in Calls, Timeout(c)
      PROVE  PlaceInv'
  <2>1. InFlight(cmd[c]) /\ cmd'[c].st \in {"sent", "failed"}
    BY <1>8, <1>0, RetryType DEF Timeout, TypeOK
  <2>2. \A d \in Calls \ {c} : cmd'[d] = cmd[d]
    BY <1>8, <1>0 DEF Timeout, TypeOK
  <2>3. \A l \in Loaders : reply'[l] \in {reply[l], Nil}
    BY <1>8, <1>0 DEF Timeout, Forget, TypeOK
  <2>4. late' \subseteq late \cup {c} /\ UNCHANGED <<id, data, aofData>>
    BY <1>8 DEF Timeout, redis, aof
  <2> QED
    BY <1>0, <2>1, <2>2, <2>3, <2>4, PlaceKept DEF InFlight
<1>9. ASSUME NEW c \in Calls, Refuse(c)
      PROVE  PlaceInv'
  <2>1. cmd[c].st = "sent" /\ cmd'[c].st = "failed"
    BY <1>9, <1>0, RetryType DEF Refuse, TypeOK
  <2>2. \A d \in Calls \ {c} : cmd'[d] = cmd[d]
    BY <1>9, <1>0 DEF Refuse, TypeOK
  <2> QED
    BY <1>9, <1>0, <2>1, <2>2, PlaceKept DEF Refuse, redis, aof
<1>10. ASSUME NEW c \in Calls, ExecLate(c)
       PROVE  PlaceInv'
  <2>1. id[c] \in Ids
    BY <1>10 DEF ExecLate, PlaceInv, HaveIds
  <2>2. /\ \A i \in Ids : data'[i] \in {data[i], Nil} \/ (c \in Savers /\ i = id[c] /\ data'[i] = c)
        /\ UNCHANGED <<cmd, id, reply, aofData>>
        /\ late' \subseteq late
    BY <1>10, <1>0, <2>1 DEF ExecLate, Set, GetDel, TypeOK, aof
  <2>3. HaveIds' /\ SecretIds'
    BY <2>2 DEF PlaceInv, HaveIds, SecretIds
  <2>4. InPlace'
    BY <2>2 DEF PlaceInv, InPlace
  <2> QED
    BY <1>0, <2>3, <2>4 DEF PlaceInv
<1>11. CASE Tick
  BY <1>11, <1>0 DEF Tick, PlaceInv, HaveIds, SecretIds, InPlace, redis, aof
<1>12. CASE Fsync
  BY <1>12, <1>0 DEF Fsync, PlaceInv, HaveIds, SecretIds, InPlace, redis
<1>13. CASE Crash
  BY <1>13, <1>0 DEF Crash, PlaceInv, HaveIds, SecretIds, InPlace, aof
<1>14. CASE UNCHANGED vars
  BY <1>14, <1>0 DEF vars, PlaceInv, HaveIds, SecretIds, InPlace
<1> QED
  BY <1>1, <1>2, <1>3, <1>4, <1>5, <1>6, <1>7, <1>8, <1>9, <1>10, <1>11, <1>12, <1>13, <1>14
     DEF Next, SaveStep, LoadStep, CallEnds

(* The calls, the database and its file always hold well-formed values:    *)
(* the retry counter never passes MaxRetries and no command is sent to     *)
(* Redis without a key.                                                    *)
THEOREM TypeCorrect == Spec => []TypeOK
<1>1. Init => PlaceInv
  BY PlaceInit
<1>2. PlaceInv /\ [Next]_vars => PlaceInv'
  BY PlaceStep
<1>3. PlaceInv => TypeOK
  BY DEF PlaceInv
<1> QED
  BY <1>1, <1>2, <1>3, PTL DEF Spec

(* Through lost and late commands, retries and restarts of Redis, a Load   *)
(* only returns the record of a successful Save under the id it asked for. *)
THEOREM RightRecordHolds == Spec => []RightRecord
<1>1. Init => PlaceInv
  BY PlaceInit
<1>2. PlaceInv /\ [Next]_vars => PlaceInv'
  BY PlaceStep
<1>3. PlaceInv => RightRecord
  BY StoreAssumption DEF PlaceInv, SecretIds, InPlace, RightRecord
<1> QED
  BY <1>1, <1>2, <1>3, PTL DEF Spec

-----------------------------------------------------------------------------
(* Initially no reply holds a record and no command is late.               *)
LEMMA OnceInit == Init => OnceInv
<1> SUFFICES ASSUME Init
             PROVE  OnceInv
  OBVIOUS
<1>1. PlaceInv
  BY PlaceInit
<1>2. late = {} /\ Moved
  BY StoreAssumption DEF Init, Moved
<1> QED
  BY <1>1, <1>2 DEF OnceInv

(* A SET that is still to be answered belongs to a record no reply holds.  *)
LEMMA UnpublishedUnread ==
  ASSUME PlaceInv, NEW s \in Savers, cmd[s].st # "returned", NEW l \in Loaders
  PROVE  reply[l] # s
  BY StoreAssumption DEF PlaceInv, SecretIds, InPlace

(* Without faults every step moves a record at most once out of Redis.     *)
LEMMA OnceStep == NoFaults /\ OnceInv /\ [Next]_vars => OnceInv'
<1> SUFFICES ASSUME NoFaults, OnceInv, [Next]_vars
             PROVE  OnceInv'
  OBVIOUS
<1>0. PlaceInv /\ PlaceInv' /\ TypeOK /\ late = {} /\ Moved
  BY PlaceStep DEF OnceInv, PlaceInv
<1> USE StoreAssumption DEF Calls
<1>1. ASSUME NEW s \in Savers, StartSave(s)
      PROVE  OnceInv'
  <2>1. \A l \in Loaders : reply[l] # s
    BY <1>1, <1>0, StartType, UnpublishedUnread DEF StartSave
  <2>2. /\ \A t \in Savers \ {s} : id'[t] = id[t]
        /\ UNCHANGED <<reply, data, late>>
    BY <1>1, <1>0 DEF StartSave, TypeOK, redis
  <2>3. Moved'
    BY <1>0, <2>1, <2>2 DEF Moved
  <2> QED
    BY <1>0, <2>2, <2>3 DEF OnceInv
<1>2. ASSUME NEW s \in Savers, ExecSet(s)
      PROVE  OnceInv'
  <2>1. \A l \in Loaders : reply[l] # s
    BY <1>2, <1>0, UnpublishedUnread DEF ExecSet
  <2>2. data' = [data EXCEPT ![id[s]] = s] /\ UNCHANGED <<id, reply, late>>
    BY <1>2 DEF ExecSet, Set
  <2>3. \A l \in Loaders, t \in Savers : reply[l] = t => id[t] \in Ids
    BY <1>0 DEF PlaceInv, InPlace
  <2>4. Moved'
    BY <1>0, <2>1, <2>2, <2>3 DEF Moved, TypeOK
  <2> QED
    BY <1>0, <2>2, <2>4 DEF OnceInv
<1>3. ASSUME NEW l \in Loaders, ExecGetDel(l)
      PROVE  OnceInv'
  <2>1. id[l] \in Ids
    BY <1>3, <1>0 DEF ExecGetDel, PlaceInv, HaveIds, InFlight
  <2>2. /\ data' = [data EXCEPT ![id[l]] = Nil]
        /\ reply' = [reply EXCEPT ![l] = Lookup(id[l])]
        /\ UNCHANGED <<id, late>>
    BY <1>3 DEF ExecGetDel, GetDel
  <2>3. \A s \in Savers : Lookup(id[l]) = s => data[id[s]] = s /\ id[s] = id[l]
    BY <1>0, <2>1 DEF Lookup, PlaceInv, InPlace
  <2>4. \A k \in Loaders, s \in Savers : reply[k] = s => id[s] \in Ids
    BY <1>0 DEF PlaceInv, InPlace
  <2>5. Moved'
    <3>1. ASSUME NEW k \in Loaders, NEW s \in Savers, reply'[k] = s
          PROVE  data'[id'[s]] # s
      BY <1>0, <2>1, <2>2, <2>3, <2>4, <3>1 DEF Moved, TypeOK
    <3>2. ASSUME NEW k \in Loaders, NEW m \in Loaders, NEW s \in Savers,
                 reply'[k] = s, reply'[m] = s
          PROVE  k = m
      BY <1>0, <2>2, <2>3, <3>2 DEF Moved, TypeOK
    <3> QED
      BY <3>1, <3>2 DEF Moved
  <2> QED
    BY <1>0, <2>2, <2>5 DEF OnceInv
<1>4. ASSUME NEW c \in Calls, Timeout(c)
      PROVE  OnceInv'
  <2>1. UNCHANGED <<id, data, late>>
    BY <1>4, <1>0 DEF Timeout, NoFaults, redis
  <2>2. \A l \in Loaders : reply'[l] \in {reply[l], Nil}
    BY <1>4, <1>0 DEF Timeout, Forget, TypeOK
  <2>3. Moved'
    BY <1>0, <2>1, <2>2 DEF Moved
  <2> QED
    BY <1>0, <2>1, <2>3 DEF OnceInv
<1>5. ASSUME UNCHANGED <<id, reply, data, late>>
      PROVE  OnceInv'
  BY <1>5, <1>0 DEF OnceInv, Moved
<1>6. ASSUME NEW s \in Savers, SaveAborts(s) \/ SaveReturns(s)
      PROVE  OnceInv'
  BY <1>5, <1>6 DEF SaveAborts, SaveReturns, redis
<1>7. ASSUME NEW l \in Loaders, LoadReturns(l)
      PROVE  OnceInv'
  BY <1>5, <1>7 DEF LoadReturns, redis
<1>8. ASSUME NEW l \in Loaders, StartLoad(l)
      PROVE  OnceInv'
  <2>1. UNCHANGED <<reply, data, late>> /\ \A s \in Savers : id'[s] = id[s]
    BY <1>8, <1>0 DEF StartLoad, TypeOK, redis
  <2>2. Moved'
    BY <1>0, <2>1 DEF Moved
  <2> QED
    BY <1>0, <2>1, <2>2 DEF OnceInv
<1>9. ASSUME NEW c \in Calls, Refuse(c)
      PROVE  OnceInv'
  BY <1>5, <1>9 DEF Refuse, redis
<1>10. ASSUME NEW c \in Calls, ExecLate(c)
       PROVE  FALSE
  BY <1>10, <1>0 DEF ExecLate
<1>11. CASE Tick \/ Fsync
  BY <1>5, <1>11 DEF Tick, Fsync, redis
<1>12. ~Crash
  BY <1>0 DEF Crash, NoFaults, TypeOK
<1>13. CASE UNCHANGED vars
  BY <1>5, <1>13 DEF vars
<1> QED
  BY <1>1, <1>2, <1>3, <1>4, <1>6, <1>7, <1>8, <1>9, <1>10, <1>11, <1>12, <1>13
     DEF Next, SaveStep, LoadStep, CallEnds

(* mission.md:17.  As long as Redis does not restart and executes no       *)
(* command after its attempt ended, no two Load calls return the same      *)
(* record, whatever is lost and repeated.                                  *)
THEOREM AtMostOnceHolds == NoFaults /\ Spec => []AtMostOnce
<1>1. Init => OnceInv
  BY OnceInit
<1>2. NoFaults /\ OnceInv /\ [Next]_vars => OnceInv'
  BY OnceStep
<1>3. OnceInv => AtMostOnce
  BY DEF OnceInv, Moved, AtMostOnce, Received
<1>4. CASE NoFaults
  BY <1>1, <1>2, <1>3, <1>4, PTL DEF Spec
<1> QED
  BY <1>4

(* Without faults no step brings back, or prolongs, the record of a Save   *)
(* that is over.                                                           *)
LEMMA FinalStep ==
  NoFaults /\ OnceInv /\ Next =>
    \A s \in Savers : Over(s) /\ id[s] # Nil /\ data'[id[s]] = s
                      => data[id[s]] = s /\ expiry'[id[s]] = expiry[id[s]]
<1> SUFFICES ASSUME NoFaults, OnceInv, Next, NEW s \in Savers,
                    Over(s), id[s] # Nil, data'[id[s]] = s
             PROVE  data[id[s]] = s /\ expiry'[id[s]] = expiry[id[s]]
  OBVIOUS
<1>0. PlaceInv /\ TypeOK /\ late = {} /\ id[s] \in Ids
  BY DEF OnceInv, PlaceInv, TypeOK, Calls
<1> USE StoreAssumption DEF Calls
<1>1. ASSUME NEW t \in Savers, ExecSet(t)
      PROVE  data[id[s]] = s /\ expiry'[id[s]] = expiry[id[s]]
  <2>1. t # s
    BY <1>1 DEF ExecSet, Over
  <2>2. id[t] # id[s]
    BY <1>0, <2>1 DEF PlaceInv, SecretIds
  <2> QED
    BY <1>0, <1>1, <2>2 DEF ExecSet, Set, TypeOK
<1>2. ASSUME NEW l \in Loaders, ExecGetDel(l)
      PROVE  data[id[s]] = s /\ expiry'[id[s]] = expiry[id[s]]
  BY <1>0, <1>2 DEF ExecGetDel, GetDel, TypeOK
<1>3. ASSUME NEW c \in Calls, ExecLate(c)
      PROVE  FALSE
  BY <1>3, <1>0 DEF ExecLate
<1>4. ~Crash
  BY <1>0 DEF Crash, NoFaults, TypeOK
<1>5. ASSUME UNCHANGED redis
      PROVE  data[id[s]] = s /\ expiry'[id[s]] = expiry[id[s]]
  BY <1>5 DEF redis
<1>6. ASSUME NEW t \in Savers, StartSave(t) \/ SaveAborts(t) \/ SaveReturns(t)
      PROVE  UNCHANGED redis
  BY <1>6 DEF StartSave, SaveAborts, SaveReturns
<1>7. ASSUME NEW l \in Loaders, StartLoad(l) \/ LoadReturns(l)
      PROVE  UNCHANGED redis
  BY <1>7 DEF StartLoad, LoadReturns
<1>8. ASSUME NEW c \in Calls, Timeout(c) \/ Refuse(c)
      PROVE  UNCHANGED redis
  BY <1>8 DEF Timeout, Refuse
<1>9. ASSUME Tick \/ Fsync
      PROVE  UNCHANGED redis
  BY <1>9 DEF Tick, Fsync
<1> QED
  BY <1>1, <1>2, <1>3, <1>4, <1>5, <1>6, <1>7, <1>8, <1>9
     DEF Next, SaveStep, LoadStep, CallEnds

(* Under the same assumption a finished Save is final: no repeated SET     *)
(* resurrects a consumed key or prolongs its life.                         *)
THEOREM FinishedSaveIsFinalHolds == NoFaults /\ Spec => FinishedSaveIsFinal
<1>1. Init => OnceInv
  BY OnceInit
<1>2. NoFaults /\ OnceInv /\ [Next]_vars => OnceInv'
  BY OnceStep
<1>3. NoFaults /\ OnceInv /\ [Next]_vars =>
        [\A s \in Savers : Over(s) /\ id[s] # Nil /\ data'[id[s]] = s
           => data[id[s]] = s /\ expiry'[id[s]] = expiry[id[s]]]_vars
  BY FinalStep
<1>4. CASE NoFaults
  BY <1>1, <1>2, <1>3, <1>4, PTL DEF Spec, FinishedSaveIsFinal
<1> QED
  BY <1>4

-----------------------------------------------------------------------------
(* The refinement of KeyStore.  Most steps leave the readers alone and     *)
(* move records nowhere or to "gone", which KeyStore allows as Discard.    *)
ReadersKept == \A l \in Loaders, s \in Savers : Received(l, s)' <=> Received(l, s)
OnlyLosses  == \A s \in Savers : Phase(s)' \in {Phase(s), "gone"}

(* Two functions that agree but at s differ by an EXCEPT at s.             *)
LEMMA OneChanged ==
  ASSUME NEW S, NEW s \in S, NEW F, NEW G, NEW v,
         F = [t \in S |-> F[t]], G = [t \in S |-> G[t]],
         \A t \in S : G[t] = IF t = s THEN v ELSE F[t]
  PROVE  G = [F EXCEPT ![s] = v]
  OBVIOUS

(* A step after which records have only been lost is a Discard of          *)
(* KeyStore.                                                               *)
LEMMA DiscardStep ==
  ASSUME ReadersKept, OnlyLosses
  PROVE  Store!Next
<1> DEFINE R == {s \in Savers : Phase(s)' # Phase(s)}
<1>1. [s \in Savers |-> Phase(s)'] =
        [s \in Savers |-> IF s \in R THEN "gone" ELSE [t \in Savers |-> Phase(t)][s]]
  BY DEF OnlyLosses
<1>2. [s \in Savers |-> {l \in Loaders : Received(l, s)'}] =
        [s \in Savers |-> {l \in Loaders : Received(l, s)}]
  BY DEF ReadersKept
<1>3. R \in SUBSET Savers
  OBVIOUS
<1>4. Store!Discard(R)
  BY <1>1, <1>2 DEF Store!Discard
<1> QED
  BY <1>3, <1>4 DEF Store!Next

(* The phase of a record depends on its own call, on what Redis shows      *)
(* under its id and on the replies that carry it.                          *)
LEMMA PhaseOf ==
  ASSUME NEW s \in Savers, TypeOK
  PROVE  /\ cmd[s].st \in {"idle", "sent", "answered"} => Phase(s) = "new"
         /\ cmd[s].st = "returned" /\ (Lookup(id[s]) = s \/ OnTheWay(s)) => Phase(s) = "live"
         /\ cmd[s].st = "returned" /\ ~(Lookup(id[s]) = s \/ OnTheWay(s)) => Phase(s) = "gone"
         /\ cmd[s].st = "failed" => Phase(s) = "gone"
  BY DEF Phase, TypeOK, Calls, CallType, CallStates

(* The same for the state after a step.                                    *)
LEMMA PhaseOfNext ==
  ASSUME NEW s \in Savers, TypeOK'
  PROVE  /\ cmd'[s].st \in {"idle", "sent", "answered"} => Phase(s)' = "new"
         /\ cmd'[s].st = "returned" /\ (Lookup(id[s])' = s \/ OnTheWay(s)') => Phase(s)' = "live"
         /\ cmd'[s].st = "returned" /\ ~(Lookup(id[s])' = s \/ OnTheWay(s)') => Phase(s)' = "gone"
         /\ cmd'[s].st = "failed" => Phase(s)' = "gone"
  BY DEF Phase, TypeOK, Calls, CallType, CallStates

(* A step of one Save call, or of time: no reply changes, and a record can *)
(* only disappear from Redis.                                              *)
LEMMA SaverLosses ==
  ASSUME TypeOK, TypeOK',
         \A l \in Loaders : reply'[l] = reply[l] /\ cmd'[l] = cmd[l],
         \A s \in Savers :
            \/ cmd'[s] = cmd[s] /\ (Lookup(id[s])' = s => Lookup(id[s]) = s)
            \/ cmd[s].st # "returned" /\ cmd'[s].st = "failed"
            \/ cmd[s].st \in {"idle", "sent", "answered"} /\ cmd'[s].st \in {"sent", "answered"}
  PROVE  ReadersKept /\ OnlyLosses
<1>1. ReadersKept
  BY DEF ReadersKept, Received
<1>2. \A s \in Savers : OnTheWay(s)' <=> OnTheWay(s)
  BY DEF OnTheWay
<1>3. ASSUME NEW s \in Savers
      PROVE  Phase(s)' \in {Phase(s), "gone"}
  <2>1. cmd[s].st \in CallStates /\ cmd'[s].st \in CallStates
    BY DEF TypeOK, Calls, CallType
  <2> QED
    BY <1>2, <2>1, PhaseOf, PhaseOfNext DEF CallStates
<1> QED
  BY <1>1, <1>3 DEF OnlyLosses

(* Every fault-free step is seen by callers as a step of KeyStore or as    *)
(* none.                                                                   *)
LEMMA RefinementStep == NoFaults /\ OnceInv /\ OnceInv' /\ [Next]_vars => [Store!Next]_(Store!vars)
<1> SUFFICES ASSUME NoFaults, OnceInv, OnceInv', [Next]_vars
             PROVE  [Store!Next]_(Store!vars)
  OBVIOUS
<1>0. /\ TypeOK /\ TypeOK' /\ late = {}
      /\ HaveIds /\ SecretIds /\ InPlace /\ Moved /\ Moved'
  BY DEF OnceInv, PlaceInv
<1> USE StoreAssumption DEF Calls
<1>1. ASSUME NEW s \in Savers, StartSave(s)
      PROVE  Store!Next
  <2>1. cmd[s].st = "idle" /\ cmd'[s].st = "sent"
    BY <1>0, <1>1, StartType DEF StartSave, TypeOK
  <2>2. \A t \in Savers \ {s} : cmd'[t] = cmd[t] /\ Lookup(id[t])' = Lookup(id[t])
    BY <1>0, <1>1 DEF StartSave, TypeOK, Lookup, redis
  <2>3. \A l \in Loaders : reply'[l] = reply[l] /\ cmd'[l] = cmd[l]
    BY <1>0, <1>1 DEF StartSave, TypeOK
  <2> QED
    BY <1>0, <2>1, <2>2, <2>3, SaverLosses, DiscardStep
<1>2. ASSUME NEW s \in Savers, SaveAborts(s)
      PROVE  Store!Next
  <2>1. cmd[s].st = "idle" /\ cmd'[s].st = "failed"
    BY <1>0, <1>2, StartType, RetryType DEF SaveAborts, TypeOK
  <2>2. \A t \in Savers \ {s} : cmd'[t] = cmd[t] /\ Lookup(id[t])' = Lookup(id[t])
    BY <1>0, <1>2 DEF SaveAborts, TypeOK, Lookup, redis
  <2>3. \A l \in Loaders : reply'[l] = reply[l] /\ cmd'[l] = cmd[l]
    BY <1>0, <1>2 DEF SaveAborts, TypeOK
  <2> QED
    BY <1>0, <2>1, <2>2, <2>3, SaverLosses, DiscardStep
<1>3. ASSUME NEW s \in Savers, ExecSet(s)
      PROVE  Store!Next
  <2>1. cmd[s].st = "sent" /\ cmd'[s].st = "answered" /\ id[s] \in Ids
    BY <1>0, <1>3 DEF ExecSet, TypeOK, CallType, HaveIds, InFlight
  <2>2. ASSUME NEW t \in Savers \ {s}
        PROVE  \/ cmd'[t] = cmd[t] /\ (Lookup(id[t])' = t => Lookup(id[t]) = t)
               \/ cmd[t].st # "returned" /\ cmd'[t].st = "failed"
               \/ cmd[t].st \in {"idle", "sent", "answered"} /\ cmd'[t].st \in {"sent", "answered"}
    <3>1. cmd'[t] = cmd[t] /\ id' = id /\ clock' = clock
      BY <1>0, <1>3 DEF ExecSet, TypeOK
    <3>2. id[t] # id[s]
      BY <1>0, <2>1 DEF SecretIds
    <3>3. data'[id[t]] = data[id[t]] /\ expiry'[id[t]] = expiry[id[t]]
      BY <1>0, <1>3, <3>2 DEF ExecSet, Set, TypeOK
    <3> QED
      BY <3>1, <3>3 DEF Lookup
  <2>3. \A l \in Loaders : reply'[l] = reply[l] /\ cmd'[l] = cmd[l]
    BY <1>0, <1>3 DEF ExecSet, TypeOK
  <2> QED
    BY <1>0, <2>1, <2>2, <2>3, SaverLosses, DiscardStep
<1>4. ASSUME NEW s \in Savers, SaveReturns(s)
      PROVE  Store!Next
  <2>1. cmd[s].st = "answered" /\ cmd'[s].st = "returned"
    BY <1>0, <1>4 DEF SaveReturns, TypeOK, CallType
  <2>2. /\ \A c \in Calls \ {s} : cmd'[c] = cmd[c]
        /\ UNCHANGED <<id, reply, data, expiry, clock>>
    BY <1>0, <1>4 DEF SaveReturns, TypeOK, redis
  <2>3. ReadersKept /\ \A t \in Savers : OnTheWay(t)' <=> OnTheWay(t)
    BY <2>2 DEF ReadersKept, Received, OnTheWay
  <2>4. \A t \in Savers : Lookup(id[t])' = Lookup(id[t])
    BY <2>2 DEF Lookup
  <2>5. \A t \in Savers \ {s} : Phase(t)' = Phase(t)
    BY <2>2, <2>3, <2>4 DEF Phase
  <2>6. Phase(s) = "new"
    BY <1>0, <2>1, PhaseOf
  <2>7. CASE Phase(s)' = "live"
    <3>1. [t \in Savers |-> Phase(t)'] = [[t \in Savers |-> Phase(t)] EXCEPT ![s] = "live"]
      BY <2>5, <2>7
    <3>2. [t \in Savers |-> {l \in Loaders : Received(l, t)'}] =
            [t \in Savers |-> {l \in Loaders : Received(l, t)}]
      BY <2>3 DEF ReadersKept
    <3>3. Store!Publish(s)
      BY <2>6, <3>1, <3>2 DEF Store!Publish
    <3> QED
      BY <3>3 DEF Store!Next
  <2>8. CASE Phase(s)' = "gone"
    BY <2>3, <2>5, <2>8, DiscardStep DEF OnlyLosses
  <2> QED
    BY <1>0, <2>1, <2>7, <2>8, PhaseOfNext
<1>5. ASSUME NEW l \in Loaders, StartLoad(l)
      PROVE  Store!Next
  <2>1. cmd[l].st = "idle" /\ cmd'[l].st = "sent"
    BY <1>0, <1>5, StartType DEF StartLoad, TypeOK
  <2>2. /\ \A c \in Calls \ {l} : cmd'[c] = cmd[c] /\ id'[c] = id[c]
        /\ UNCHANGED <<reply, data, expiry, clock>>
    BY <1>0, <1>5 DEF StartLoad, TypeOK, redis
  <2>3. ReadersKept /\ \A t \in Savers : OnTheWay(t)' <=> OnTheWay(t)
    BY <2>1, <2>2 DEF ReadersKept, Received, OnTheWay
  <2>4. \A t \in Savers : Lookup(id[t])' = Lookup(id[t]) /\ cmd'[t] = cmd[t]
    BY <2>2 DEF Lookup
  <2>5. OnlyLosses
    BY <2>3, <2>4 DEF OnlyLosses, Phase
  <2> QED
    BY <2>3, <2>5, DiscardStep
<1>6. ASSUME NEW l \in Loaders, ExecGetDel(l)
      PROVE  Store!Next
  <2>1. cmd[l].st = "sent" /\ cmd'[l].st = "answered" /\ id[l] \in Ids
    BY <1>0, <1>6 DEF ExecGetDel, TypeOK, CallType, HaveIds, InFlight
  <2>2. /\ \A c \in Calls \ {l} : cmd'[c] = cmd[c]
        /\ \A k \in Loaders \ {l} : reply'[k] = reply[k]
        /\ reply'[l] = Lookup(id[l])
        /\ data' = [data EXCEPT ![id[l]] = Nil]
        /\ UNCHANGED <<id, expiry, clock>>
    BY <1>0, <1>6 DEF ExecGetDel, GetDel, TypeOK
  <2>3. ReadersKept
    BY <2>1, <2>2 DEF ReadersKept, Received
  <2>4. ASSUME NEW t \in Savers
        PROVE  Phase(t)' \in {Phase(t), "gone"}
    <3>1. cmd'[t] = cmd[t] /\ cmd[t].st \in CallStates
      BY <1>0, <2>2 DEF TypeOK, CallType
    <3>2. ASSUME cmd[t].st = "returned", Lookup(id[t])' = t \/ OnTheWay(t)'
          PROVE  Lookup(id[t]) = t \/ OnTheWay(t)
      <4>1. id[t] \in Ids
        BY <1>0, <3>2 DEF HaveIds
      <4>2. CASE Lookup(id[t])' = t
        BY <1>0, <2>2, <4>1, <4>2 DEF Lookup, TypeOK
      <4>3. CASE OnTheWay(t)'
        <5>1. PICK k \in Loaders : cmd'[k].st = "answered" /\ reply'[k] = t
          BY <4>3 DEF OnTheWay
        <5>2. CASE k = l
          <6>1. Lookup(id[l]) = t /\ data[id[l]] = t
            BY <2>2, <5>1, <5>2 DEF Lookup
          <6>2. id[t] = id[l]
            BY <1>0, <2>1, <6>1 DEF InPlace
          <6> QED
            BY <6>1, <6>2
        <5>3. CASE k # l
          BY <2>2, <5>1, <5>3 DEF OnTheWay
        <5> QED
          BY <5>2, <5>3
      <4> QED
        BY <3>2, <4>2, <4>3
    <3> QED
      BY <1>0, <3>1, <3>2, PhaseOf, PhaseOfNext DEF CallStates
  <2> QED
    BY <2>3, <2>4, DiscardStep DEF OnlyLosses
<1>7. ASSUME NEW l \in Loaders, LoadReturns(l)
      PROVE  [Store!Next]_(Store!vars)
  <2>1. /\ cmd[l].st = "answered"
        /\ cmd'[l].st = IF reply[l] = Foreign THEN "failed" ELSE "returned"
    BY <1>0, <1>7 DEF LoadReturns, TypeOK, CallType
  <2>2. /\ \A c \in Calls \ {l} : cmd'[c] = cmd[c]
        /\ UNCHANGED <<id, reply, data, expiry, clock>>
    BY <1>0, <1>7 DEF LoadReturns, TypeOK, redis
  <2>3. \A t \in Savers : Lookup(id[t])' = Lookup(id[t]) /\ cmd'[t] = cmd[t]
    BY <2>2 DEF Lookup
  <2>4. \A t \in Savers : reply[l] # t => (OnTheWay(t)' <=> OnTheWay(t))
    BY <2>1, <2>2 DEF OnTheWay
  <2>5. \A t \in Savers : reply[l] # t => Phase(t)' = Phase(t)
    BY <2>3, <2>4 DEF Phase
  <2>6. CASE reply[l] \notin Savers
    <3>1. ReadersKept
      BY <2>1, <2>2, <2>6 DEF ReadersKept, Received
    <3>2. OnlyLosses
      BY <2>5, <2>6 DEF OnlyLosses
    <3> QED
      BY <3>1, <3>2, DiscardStep
  <2>7. CASE reply[l] \in Savers
    <3>0. PICK s \in Savers : reply[l] = s
      BY <2>7
    <3>1. cmd[s].st = "returned" /\ id[s] \in Ids /\ data[id[s]] # s /\ s # Foreign
      BY <1>0, <3>0 DEF InPlace, SecretIds, Moved
    <3>2. Phase(s) = "live"
      BY <1>0, <2>1, <3>0, <3>1, PhaseOf DEF OnTheWay
    <3>3. ~(Lookup(id[s])' = s)
      BY <2>2, <3>1 DEF Lookup
    <3>4. ~OnTheWay(s)'
      BY <1>0, <2>1, <2>2, <3>0, <3>1 DEF OnTheWay, Moved
    <3>5. Phase(s)' = "gone"
      BY <1>0, <2>3, <3>1, <3>3, <3>4, PhaseOfNext
    <3>6. [t \in Savers |-> Phase(t)'] = [[t \in Savers |-> Phase(t)] EXCEPT ![s] = "gone"]
      BY <2>5, <3>0, <3>5
    <3>7. \A k \in Loaders, t \in Savers :
             Received(k, t)' <=> (Received(k, t) \/ (t = s /\ k = l))
      BY <2>1, <2>2, <3>0, <3>1 DEF Received
    <3>8. ASSUME NEW t \in Savers
          PROVE  {k \in Loaders : Received(k, t)'} =
                   IF t = s THEN {k \in Loaders : Received(k, t)} \cup {l}
                            ELSE {k \in Loaders : Received(k, t)}
      BY <3>7
    <3> DEFINE F == [t \in Savers |-> {k \in Loaders : Received(k, t)}]
               G == [t \in Savers |-> {k \in Loaders : Received(k, t)'}]
    <3>9. G = [F EXCEPT ![s] = @ \cup {l}]
      <4>1. /\ F = [t \in Savers |-> F[t]]
            /\ G = [t \in Savers |-> G[t]]
        OBVIOUS
      <4>2. \A t \in Savers : G[t] = IF t = s THEN F[s] \cup {l} ELSE F[t]
        BY <3>8
      <4> HIDE DEF F, G
      <4> QED
        BY <4>1, <4>2, OneChanged
    <3>10. Store!Take(s, l)
      BY <3>1, <3>2, <3>6, <3>9 DEF Store!Take
    <3> QED
      BY <3>1, <3>10 DEF Store!Next
  <2> QED
    BY <2>6, <2>7
<1>8. ASSUME NEW c \in Calls, Timeout(c) \/ Refuse(c)
      PROVE  Store!Next
  <2>1. InFlight(cmd[c]) /\ cmd'[c].st \in {"sent", "failed"}
    BY <1>0, <1>8, RetryType DEF Timeout, Refuse, TypeOK, InFlight
  <2>2. /\ \A d \in Calls \ {c} : cmd'[d] = cmd[d]
        /\ \A k \in Loaders \ {c} : reply'[k] = reply[k]
        /\ UNCHANGED <<id, data, expiry, clock>>
    BY <1>0, <1>8 DEF Timeout, Refuse, Forget, TypeOK, redis
  <2>3. ReadersKept
    BY <2>1, <2>2 DEF ReadersKept, Received, InFlight
  <2>4. \A t \in Savers : Lookup(id[t])' = Lookup(id[t]) /\ (OnTheWay(t)' => OnTheWay(t))
    BY <2>1, <2>2 DEF Lookup, OnTheWay
  <2>5. ASSUME NEW t \in Savers
        PROVE  Phase(t)' \in {Phase(t), "gone"}
    <3>1. cmd[t].st \in CallStates
      BY <1>0 DEF TypeOK, CallType
    <3>2. CASE t = c
      BY <1>0, <2>1, <3>2, PhaseOf, PhaseOfNext DEF InFlight
    <3>3. CASE t # c
      BY <1>0, <2>2, <2>4, <3>1, <3>3, PhaseOf, PhaseOfNext DEF CallStates
    <3> QED
      BY <3>2, <3>3
  <2> QED
    BY <2>3, <2>5, DiscardStep DEF OnlyLosses
<1>9. ASSUME NEW c \in Calls, ExecLate(c)
      PROVE  FALSE
  BY <1>9, <1>0 DEF ExecLate
<1>10. CASE Tick
  <2>1. UNCHANGED <<cmd, id, reply, data, expiry>> /\ clock' = clock + 1
    BY <1>10 DEF Tick, redis
  <2>2. ASSUME NEW t \in Savers, cmd[t].st = "returned", Lookup(id[t])' = t
        PROVE  Lookup(id[t]) = t
    <3>1. id[t] \in Ids /\ expiry[id[t]] \in Nat /\ clock \in Nat
      BY <1>0, <2>2 DEF HaveIds, TypeOK
    <3> QED
      BY <2>1, <2>2, <3>1 DEF Lookup
  <2>3. ReadersKept /\ \A t \in Savers : OnTheWay(t)' <=> OnTheWay(t)
    BY <2>1 DEF ReadersKept, Received, OnTheWay
  <2>4. ASSUME NEW t \in Savers
        PROVE  Phase(t)' \in {Phase(t), "gone"}
    <3>1. cmd'[t] = cmd[t] /\ cmd[t].st \in CallStates
      BY <1>0, <2>1 DEF TypeOK, CallType
    <3> QED
      BY <1>0, <2>2, <2>3, <3>1, PhaseOf, PhaseOfNext DEF CallStates
  <2> QED
    BY <2>3, <2>4, DiscardStep DEF OnlyLosses
<1>11. ~Fsync /\ ~Crash
  BY <1>0 DEF Fsync, Crash, NoFaults, TypeOK
<1>12. CASE UNCHANGED vars
  BY <1>12 DEF vars, Store!vars, Phase, Received, Lookup, OnTheWay
<1> QED
  BY <1>1, <1>2, <1>3, <1>4, <1>5, <1>6, <1>7, <1>8, <1>9, <1>10, <1>11, <1>12
     DEF Next, SaveStep, LoadStep, CallEnds

(* Without restarts and late commands the Redis store implements KeyStore: *)
(* with every reply that can be lost and every command that is repeated,   *)
(* callers see records that go from new to live to gone, and one reader.   *)
THEOREM Implements == NoFaults /\ Spec => ImplementsKeyStore
<1>1. Init => OnceInv
  BY OnceInit
<1>2. NoFaults /\ OnceInv /\ [Next]_vars => OnceInv'
  BY OnceStep
<1>3. Init => Store!Init
  <2> SUFFICES ASSUME Init
               PROVE  Store!Init
    OBVIOUS
  <2>1. \A c \in Calls : cmd[c].st = "idle"
    BY StartType DEF Init
  <2>2. \A s \in Savers : Phase(s) = "new" /\ \A l \in Loaders : ~Received(l, s)
    BY <2>1 DEF Phase, Received, Calls
  <2> QED
    BY <2>2 DEF Store!Init
<1>4. NoFaults /\ OnceInv /\ OnceInv' /\ [Next]_vars => [Store!Next]_(Store!vars)
  BY RefinementStep
<1>5. CASE NoFaults
  BY <1>1, <1>2, <1>3, <1>4, <1>5, PTL DEF Spec, Store!Spec, ImplementsKeyStore
<1> QED
  BY <1>5
=============================================================================

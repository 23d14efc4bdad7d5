--------------------------- MODULE RedisKeyStore ---------------------------
(***************************************************************************)
(* redisKeyStore (store.go:70-108): Save is SET id payload PX ttl, Load is *)
(* GETDEL id, each sent through the retrying client of RedisClient to a    *)
(* Redis server that other goroutines, and the rate limiter, share.        *)
(*                                                                         *)
(* Calls run concurrently.  A request or a reply may be lost; the client   *)
(* then repeats the command.  With LateExecution an abandoned command may  *)
(* still reach Redis later; with MaxCrashes > 0 Redis may restart from its *)
(* append-only file and forget what was not yet synced.                    *)
(***************************************************************************)
EXTENDS RedisClient

CONSTANTS Savers,        \* Save calls; a call stands for the record it carries
          Loaders,       \* Load calls
          Ids,           \* keys of the Redis database
          CounterKeys,   \* the keys of Ids that belong to the rate limiter
          Nil,           \* no value; the reply goredis.Nil
          Foreign,       \* a value that json.Unmarshal into Record rejects
          TTL,           \* the ttl of every Save, in clock ticks
          MaxTime,       \* bound on the clock
          MaxCrashes,    \* bound on Redis restarts
          LateExecution  \* may Redis execute a command after its attempt ended?

Calls  == Savers \cup Loaders
Values == Savers \cup {Nil, Foreign}

ASSUME StoreAssumption ==
  /\ Savers \cap Loaders = {}
  /\ CounterKeys \subseteq Ids
  /\ Nil \notin Savers \cup Ids
  /\ Foreign \notin Savers
  /\ Foreign # Nil
  /\ TTL \in Nat /\ MaxTime \in Nat /\ MaxCrashes \in Nat
  /\ LateExecution \in BOOLEAN

VARIABLES cmd,        \* cmd[c]: the client loop of call c
          id,         \* id[c]: the key call c works on, Nil before it has one
          reply,      \* reply[l]: the value GETDEL answered to l
          data,       \* Redis: the value of each key
          expiry,     \* Redis: the last instant each key may be read
          aofData,    \* Redis: data and expiry as last synced to the
          aofExpiry,  \*        append-only file
          late,       \* calls with an abandoned command still on its way
          clock, crashes

redis == <<data, expiry>>
aof   == <<aofData, aofExpiry>>
vars  == <<cmd, id, reply, data, expiry, aofData, aofExpiry, late, clock, crashes>>

TypeOK ==
  /\ cmd \in [Calls -> CallType]
  /\ id \in [Calls -> Ids \cup {Nil}]
  /\ reply \in [Loaders -> Values]
  /\ data \in [Ids -> Values]
  /\ expiry \in [Ids -> Nat]
  /\ aofData \in [Ids -> Values]
  /\ aofExpiry \in [Ids -> Nat]
  /\ late \in SUBSET Calls
  /\ clock \in 0..MaxTime
  /\ crashes \in 0..MaxCrashes

Init ==
  /\ cmd = [c \in Calls |-> NewCall]
  /\ id = [c \in Calls |-> Nil]
  /\ reply = [l \in Loaders |-> Nil]
  /\ data = [i \in Ids |-> IF i \in CounterKeys THEN Foreign ELSE Nil]
  /\ expiry = [i \in Ids |-> MaxTime]
  /\ aofData = data
  /\ aofExpiry = expiry
  /\ late = {}
  /\ clock = 0
  /\ crashes = 0

UsedIds == {id[c] : c \in Calls}

(* The ids that somebody outside the server can know: those Save returned. *)
PublishedIds == {id[s] : s \in {s \in Savers : cmd[s].st = "returned"}}

SavedIds == {id[s] : s \in Savers}

(* What GETDEL, or GET, sees under key i: an expired key is absent.        *)
Lookup(i) == IF clock > expiry[i] THEN Nil ELSE data[i]

-----------------------------------------------------------------------------
(* Faulty variant of RandomID: ids that may repeat. *)
RepeatingID == Ids \ CounterKeys

(* Save draws 16 random bytes: an id nobody else has or has asked for.     *)
RandomID == Ids \ (UsedIds \cup CounterKeys)

StartSave(s) ==
  /\ cmd[s] = NewCall
  /\ \E i \in RandomID : id' = [id EXCEPT ![s] = i]
  /\ cmd' = [cmd EXCEPT ![s] = Start]
  /\ UNCHANGED <<reply, redis, aof, late, clock, crashes>>

(* randomID or json.Marshal fails: Save returns before it reaches Redis.   *)
SaveAborts(s) ==
  /\ cmd[s] = NewCall
  /\ cmd' = [cmd EXCEPT ![s] = Refused(@)]
  /\ UNCHANGED <<id, reply, redis, aof, late, clock, crashes>>

Set(s) == /\ data' = [data EXCEPT ![id[s]] = s]
          /\ expiry' = [expiry EXCEPT ![id[s]] = clock + TTL]

ExecSet(s) ==
  /\ cmd[s].st = "sent"
  /\ Set(s)
  /\ cmd' = [cmd EXCEPT ![s].st = "answered"]
  /\ UNCHANGED <<id, reply, aof, late, clock, crashes>>

SaveReturns(s) ==
  /\ cmd[s].st = "answered"
  /\ cmd' = [cmd EXCEPT ![s].st = "returned"]
  /\ UNCHANGED <<id, reply, redis, aof, late, clock, crashes>>

(* FetchKey passes any path segment on to Load, so a Load may ask for an   *)
(* id no Save drew; the random id of a Save that has not returned is       *)
(* nobody's to ask for.                                                    *)
StartLoad(l) ==
  /\ cmd[l] = NewCall
  /\ \E i \in PublishedIds \cup (Ids \ SavedIds) : id' = [id EXCEPT ![l] = i]
  /\ cmd' = [cmd EXCEPT ![l] = Start]
  /\ UNCHANGED <<reply, redis, aof, late, clock, crashes>>

(* Faulty variant of GetDel: GET instead of GETDEL. *)
GetOnly(i) == UNCHANGED redis

(* Faulty variant of GetDel: GETEX, which renews the ttl. *)
GetEx(i) == /\ expiry' = [expiry EXCEPT ![i] = clock + TTL]
            /\ UNCHANGED data

GetDel(i) == /\ data' = [data EXCEPT ![i] = Nil]
             /\ UNCHANGED expiry

ExecGetDel(l) ==
  /\ cmd[l].st = "sent"
  /\ reply' = [reply EXCEPT ![l] = Lookup(id[l])]
  /\ GetDel(id[l])
  /\ cmd' = [cmd EXCEPT ![l].st = "answered"]
  /\ UNCHANGED <<id, aof, late, clock, crashes>>

(* Load returns (nil, nil) on goredis.Nil, the record, or an error when    *)
(* what it consumed is not the JSON of a Record.                           *)
LoadReturns(l) ==
  /\ cmd[l].st = "answered"
  /\ cmd' = [cmd EXCEPT ![l].st = IF reply[l] = Foreign THEN "failed" ELSE "returned"]
  /\ UNCHANGED <<id, reply, redis, aof, late, clock, crashes>>

-----------------------------------------------------------------------------
(* The attempt of c times out or its connection breaks: request or reply   *)
(* is lost and the client repeats the command or gives up.                 *)
Forget(c) == IF c \in Loaders THEN [reply EXCEPT ![c] = Nil] ELSE reply

Timeout(c) ==
  /\ InFlight(cmd[c])
  /\ cmd' = [cmd EXCEPT ![c] = Retry(@)]
  /\ reply' = Forget(c)
  /\ \/ late' = late
     \/ LateExecution /\ cmd[c].st = "sent" /\ late' = late \cup {c}
  /\ UNCHANGED <<id, redis, aof, clock, crashes>>

(* Redis answers with an error the client does not retry.                  *)
Refuse(c) ==
  /\ cmd[c].st = "sent"
  /\ cmd' = [cmd EXCEPT ![c] = Refused(@)]
  /\ UNCHANGED <<id, reply, redis, aof, late, clock, crashes>>

(* An abandoned command reaches Redis after all; nobody reads its reply.   *)
ExecLate(c) ==
  /\ c \in late
  /\ late' = late \ {c}
  /\ IF c \in Savers THEN Set(c) ELSE GetDel(id[c])
  /\ UNCHANGED <<cmd, id, reply, aof, clock, crashes>>

Tick ==
  /\ clock < MaxTime
  /\ clock' = clock + 1
  /\ UNCHANGED <<cmd, id, reply, redis, aof, late, crashes>>

(* docker-compose.yml runs Redis with appendonly yes and the default       *)
(* appendfsync everysec: what was written since the last sync is lost.     *)
Fsync ==
  /\ MaxCrashes > 0
  /\ aof # redis
  /\ aofData' = data
  /\ aofExpiry' = expiry
  /\ UNCHANGED <<cmd, id, reply, redis, late, clock, crashes>>

Crash ==
  /\ crashes < MaxCrashes
  /\ crashes' = crashes + 1
  /\ data' = aofData
  /\ expiry' = aofExpiry
  /\ UNCHANGED <<cmd, id, reply, aof, late, clock>>

SaveStep(s) == StartSave(s) \/ SaveAborts(s) \/ ExecSet(s) \/ SaveReturns(s)
LoadStep(l) == StartLoad(l) \/ ExecGetDel(l) \/ LoadReturns(l)
CallEnds(c) == Timeout(c) \/ Refuse(c)

Next ==
  \/ \E s \in Savers : SaveStep(s)
  \/ \E l \in Loaders : LoadStep(l)
  \/ \E c \in Calls : CallEnds(c) \/ ExecLate(c)
  \/ Tick \/ Fsync \/ Crash

Spec == Init /\ [][Next]_vars

(* The client's read timeout ends an attempt that gets no reply, and a     *)
(* reply that arrived is read: a started call always takes a step.         *)
Fairness ==
  /\ \A s \in Savers : WF_vars(SaveReturns(s) \/ Timeout(s))
  /\ \A l \in Loaders : WF_vars(LoadReturns(l) \/ Timeout(l))

FairSpec == Spec /\ Fairness

-----------------------------------------------------------------------------
Received(l, s) == cmd[l].st = "returned" /\ reply[l] = s
Over(c) == cmd[c].st \in {"returned", "failed"}

(* mission.md:17, "can read it exactly once": two Load calls never return  *)
(* the same record, however requests and replies are lost and repeated.    *)
AtMostOnce ==
  \A s \in Savers : \A k, l \in Loaders : Received(k, s) /\ Received(l, s) => k = l

(* A Load answers only with the record of a Save that succeeded, under the *)
(* id that Save returned: a Save that ended in an error (its reply lost,   *)
(* its command perhaps executed) never surfaces, and no late command or    *)
(* restart ever puts one record under the id of another.                   *)
RightRecord ==
  \A l \in Loaders, s \in Savers :
    reply[l] = s => cmd[s].st = "returned" /\ id[l] = id[s]

(* Once Save is over its record is only ever removed: no repeated SET      *)
(* brings back a consumed key or extends the ttl the sender asked for.     *)
FinishedSaveIsFinal ==
  [][\A s \in Savers :
       Over(s) /\ id[s] # Nil /\ data'[id[s]] = s
         => data[id[s]] = s /\ expiry'[id[s]] = expiry[id[s]]]_vars

(* The retry loop is bounded: every call returns a result or an error.     *)
EveryCallEnds == \A c \in Calls : InFlight(cmd[c]) ~> Over(c)

(* README: "Returns 404 if the key has already been fetched or never       *)
(* existed": a Load that finds nothing under the id of a finished Save     *)
(* whose ttl has not run out was beaten by a Load that got the record.     *)
NotFoundMeansFetched ==
  \A l \in Loaders, s \in Savers :
    cmd[l].st = "returned" /\ reply[l] = Nil /\ id[l] = id[s] /\ clock <= expiry[id[s]]
      => \E k \in Loaders : reply[k] = s

-----------------------------------------------------------------------------
(* The store as its callers see it: a record is live from the return of    *)
(* its Save while it is readable in Redis or on its way to a reader.       *)
OnTheWay(s) == \E l \in Loaders : cmd[l].st = "answered" /\ reply[l] = s

Phase(s) ==
  CASE cmd[s].st \in {"idle", "sent", "answered"} -> "new"
    [] cmd[s].st = "returned" /\ (Lookup(id[s]) = s \/ OnTheWay(s)) -> "live"
    [] OTHER -> "gone"

Store == INSTANCE KeyStore WITH
           Records <- Savers,
           Readers <- Loaders,
           phase   <- [s \in Savers |-> Phase(s)],
           readers <- [s \in Savers |-> {l \in Loaders : Received(l, s)}]

(* Without late execution and restarts the Redis store keeps the promise   *)
(* of KeyStore.                                                            *)
ImplementsKeyStore == Store!Spec
=============================================================================

---------------------------- MODULE MemKeyStore ----------------------------
(***************************************************************************)
(* memKeyStore (store.go:20-59), the in-memory store that main.go selects  *)
(* for STORE=mem: a Go map guarded by one mutex.  Every statement between  *)
(* Lock and Unlock that reads or writes the map is a step of its own, so   *)
(* mutual exclusion is what the mutex does, not what the model assumes.    *)
(***************************************************************************)
EXTENDS Naturals

CONSTANTS Savers,    \* Save calls; a call stands for the record it carries
          Loaders,   \* Load calls
          Ids,       \* the ids randomID can draw and Load can be asked for
          Nil,       \* no entry, no id, no lock holder; the (nil, nil) result
          TTL,       \* the ttl of every Save, in clock ticks
          MaxTime    \* bound on the clock

Calls == Savers \cup Loaders

ASSUME MemAssumption ==
  /\ Savers \cap Loaders = {}
  /\ Nil \notin Calls \cup Ids
  /\ TTL \in Nat /\ MaxTime \in Nat

VARIABLES pc,      \* pc[c]: the statement call c is at
          id,      \* id[c]: the id Save drew or Load was asked for
          mu,      \* the mutex: the call that holds it, or Nil
          data,    \* the map: the record of each id
          expiry,  \* the map: the expiry of each entry
          entry,   \* entry[l]: the local variable entry.rec of Load l
          due,     \* due[l]: the local variable entry.expiry of Load l
          result,  \* result[l]: what Load l returns
          clock

vars == <<pc, id, mu, data, expiry, entry, due, result, clock>>

Steps == {"idle", "lock", "insert", "lookup", "delete", "check", "unlock", "done", "failed"}

TypeOK ==
  /\ pc \in [Calls -> Steps]
  /\ id \in [Calls -> Ids \cup {Nil}]
  /\ mu \in Calls \cup {Nil}
  /\ data \in [Ids -> Savers \cup {Nil}]
  /\ expiry \in [Ids -> Nat]
  /\ entry \in [Loaders -> Savers \cup {Nil}]
  /\ due \in [Loaders -> Nat]
  /\ result \in [Loaders -> Savers \cup {Nil}]
  /\ clock \in 0..MaxTime

Init ==
  /\ pc = [c \in Calls |-> "idle"]
  /\ id = [c \in Calls |-> Nil]
  /\ mu = Nil
  /\ data = [i \in Ids |-> Nil]
  /\ expiry = [i \in Ids |-> 0]
  /\ entry = [l \in Loaders |-> Nil]
  /\ due = [l \in Loaders |-> 0]
  /\ result = [l \in Loaders |-> Nil]
  /\ clock = 0

PublishedIds == {id[s] : s \in {s \in Savers : pc[s] = "done"}}
SavedIds     == {id[s] : s \in Savers}

Goto(c, from, to) == pc[c] = from /\ pc' = [pc EXCEPT ![c] = to]

-----------------------------------------------------------------------------
(* randomID: 16 random bytes, an id no call has drawn or asked for.        *)
StartSave(s) ==
  /\ Goto(s, "idle", "lock")
  /\ \E i \in Ids \ {id[c] : c \in Calls} : id' = [id EXCEPT ![s] = i]
  /\ UNCHANGED <<mu, data, expiry, entry, due, result, clock>>

(* randomID returns an error. *)
SaveAborts(s) ==
  /\ Goto(s, "idle", "failed")
  /\ UNCHANGED <<id, mu, data, expiry, entry, due, result, clock>>

StartLoad(l) ==
  /\ Goto(l, "idle", "lock")
  /\ \E i \in PublishedIds \cup (Ids \ SavedIds) : id' = [id EXCEPT ![l] = i]
  /\ UNCHANGED <<mu, data, expiry, entry, due, result, clock>>

(* Faulty variant of Lock: the map is used without the mutex. *)
NoLock(c) ==
  /\ Goto(c, "lock", IF c \in Savers THEN "insert" ELSE "lookup")
  /\ UNCHANGED <<id, mu, data, expiry, entry, due, result, clock>>

Lock(c) ==
  /\ mu = Nil
  /\ mu' = c
  /\ Goto(c, "lock", IF c \in Savers THEN "insert" ELSE "lookup")
  /\ UNCHANGED <<id, data, expiry, entry, due, result, clock>>

(* Faulty variant of Insert: the ttl is subtracted. *)
InsertBackdated(s) ==
  /\ Goto(s, "insert", "unlock")
  /\ data' = [data EXCEPT ![id[s]] = s]
  /\ expiry' = [expiry EXCEPT ![id[s]] = clock - TTL]
  /\ UNCHANGED <<id, mu, entry, due, result, clock>>

Insert(s) ==
  /\ Goto(s, "insert", "unlock")
  /\ data' = [data EXCEPT ![id[s]] = s]
  /\ expiry' = [expiry EXCEPT ![id[s]] = clock + TTL]
  /\ UNCHANGED <<id, mu, entry, due, result, clock>>

(* entry, ok := m.data[id] *)
Find(l) ==
  /\ Goto(l, "lookup", IF data[id[l]] = Nil THEN "unlock" ELSE "delete")
  /\ entry' = [entry EXCEPT ![l] = data[id[l]]]
  /\ due' = [due EXCEPT ![l] = expiry[id[l]]]
  /\ UNCHANGED <<id, mu, data, expiry, result, clock>>

Delete(l) ==
  /\ Goto(l, "delete", "check")
  /\ data' = [data EXCEPT ![id[l]] = Nil]
  /\ UNCHANGED <<id, mu, expiry, entry, due, result, clock>>

(* time.Now().After(entry.expiry), read after the entry was deleted.       *)
Check(l) ==
  /\ Goto(l, "check", "unlock")
  /\ result' = [result EXCEPT ![l] = IF clock > due[l] THEN Nil ELSE entry[l]]
  /\ UNCHANGED <<id, mu, data, expiry, entry, due, clock>>

(* Faulty variant of Unlock: the early return of Load skips it. *)
UnlockIfFound(c) ==
  /\ mu' = IF c \in Loaders /\ entry[c] = Nil THEN mu ELSE Nil
  /\ Goto(c, "unlock", "done")
  /\ UNCHANGED <<id, data, expiry, entry, due, result, clock>>

(* Unlock, deferred in Load, and the return. *)
Unlock(c) ==
  /\ mu' = Nil
  /\ Goto(c, "unlock", "done")
  /\ UNCHANGED <<id, data, expiry, entry, due, result, clock>>

Tick ==
  /\ clock < MaxTime
  /\ clock' = clock + 1
  /\ UNCHANGED <<pc, id, mu, data, expiry, entry, due, result>>

SaveStep(s) == StartSave(s) \/ SaveAborts(s) \/ Insert(s)
LoadStep(l) == StartLoad(l) \/ Find(l) \/ Delete(l) \/ Check(l)

Next ==
  \/ \E s \in Savers : SaveStep(s)
  \/ \E l \in Loaders : LoadStep(l)
  \/ \E c \in Calls : Lock(c) \/ Unlock(c)
  \/ Tick

Spec == Init /\ [][Next]_vars

(* The Go scheduler runs every goroutine, sync.Mutex is starvation-free    *)
(* (a waiter of 1 ms takes over), and time passes.  No call has to start.  *)
Fairness ==
  /\ \A s \in Savers : WF_vars(Insert(s))
  /\ \A l \in Loaders : WF_vars(Find(l) \/ Delete(l) \/ Check(l))
  /\ \A c \in Calls : SF_vars(Lock(c)) /\ WF_vars(Unlock(c))
  /\ WF_vars(Tick)

FairSpec == Spec /\ Fairness

-----------------------------------------------------------------------------
(* The store as its callers see it (KeyStore): a record is live from the   *)
(* return of its Save while it is in the map and not expired, or in the    *)
(* hands of the Load that is consuming it.                                 *)
InHand(s) ==
  \E l \in Loaders : \/ pc[l] \in {"delete", "check"} /\ entry[l] = s /\ clock <= due[l]
                     \/ pc[l] = "unlock" /\ result[l] = s

InMap(s) == data[id[s]] = s /\ clock <= expiry[id[s]]

Phase(s) ==
  CASE pc[s] \notin {"done", "failed"} -> "new"
    [] pc[s] = "done" /\ (InHand(s) \/ InMap(s)) -> "live"
    [] OTHER -> "gone"

Store == INSTANCE KeyStore WITH
           Records <- Savers,
           Readers <- Loaders,
           phase   <- [s \in Savers |-> Phase(s)],
           readers <- [s \in Savers |->
                         {l \in Loaders : pc[l] = "done" /\ result[l] = s}]

(* The mutex-guarded map keeps the promise of KeyStore: however the        *)
(* goroutines interleave, lookup and delete of one Load are never split by *)
(* another, so each record reaches at most one reader, and a record whose  *)
(* ttl ran out before the expiry check, even while its Load waited for the *)
(* mutex, reaches none.                                                    *)
ImplementsKeyStore == Store!Spec

(* Nobody waits forever: every Save and Load that starts comes back.       *)
EveryCallReturns == \A c \in Calls : pc[c] = "lock" ~> pc[c] = "done"
=============================================================================

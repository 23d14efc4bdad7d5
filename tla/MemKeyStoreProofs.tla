------------------------- MODULE MemKeyStoreProofs -------------------------
(***************************************************************************)
(* Proofs about MemKeyStore for any number of calls and ids and any ttl.   *)
(***************************************************************************)
EXTENDS MemKeyStore, TLAPS

-----------------------------------------------------------------------------
(* The statements between Lock and Unlock.                                 *)
Guarded == {"insert", "lookup", "delete", "check", "unlock"}

(* Mutual exclusion: whoever is between Lock and Unlock is the one call    *)
(* that holds the mutex.                                                   *)
Mutex == \A c \in Calls : pc[c] \in Guarded <=> mu = c

(* Save and Load run their own statements only.                            *)
OwnSteps ==
  /\ \A s \in Savers : pc[s] \in {"idle", "lock", "insert", "unlock", "done", "failed"}
  /\ \A l \in Loaders : pc[l] \in {"idle", "lock", "lookup", "delete", "check", "unlock", "done"}

(* A call has an id from its start on.                                     *)
HaveIds == \A c \in Calls : IF pc[c] \in {"idle", "failed"} THEN id[c] = Nil ELSE id[c] \in Ids

(* No two Save calls share an id, and a Load knows the id of a Save only   *)
(* after that Save returned.                                               *)
SecretIds ==
  /\ \A s, t \in Savers : id[s] = id[t] /\ id[s] # Nil => s = t
  /\ \A l \in Loaders, s \in Savers : id[l] = id[s] /\ id[l] # Nil => pc[s] = "done"

(* A record sits under its own id, in the map and in the local variables   *)
(* of the Loads, and only its Save put it there.                           *)
InPlace ==
  /\ \A i \in Ids, s \in Savers : data[i] = s => id[s] = i /\ pc[s] \in {"unlock", "done"}
  /\ \A l \in Loaders, s \in Savers : entry[l] = s => id[l] = id[s] /\ id[l] \in Ids
  /\ \A l \in Loaders, s \in Savers : result[l] = s => entry[l] = s /\ pc[l] \in {"unlock", "done"}

(* What a Load found is still what the map holds when it deletes it; after *)
(* that the record is in no map entry, and in no other Load.               *)
Moved ==
  /\ \A l \in Loaders : pc[l] = "delete" => /\ entry[l] \in Savers
                                            /\ data[id[l]] = entry[l]
                                            /\ expiry[id[l]] = due[l]
  /\ \A l \in Loaders, s \in Savers :
       entry[l] = s => /\ pc[l] \in {"delete", "check", "unlock", "done"}
                       /\ pc[l] # "delete" => data[id[s]] # s
  /\ \A k, l \in Loaders, s \in Savers : entry[k] = s /\ entry[l] = s => k = l

(* The inductive invariant behind the refinement.                          *)
MemInv == TypeOK /\ Mutex /\ OwnSteps /\ HaveIds /\ SecretIds /\ InPlace /\ Moved

-----------------------------------------------------------------------------
(* Before any call has started the map is empty and the mutex free.        *)
LEMMA MemInit == Init => MemInv
  BY MemAssumption
     DEF Init, MemInv, TypeOK, Mutex, OwnSteps, HaveIds, SecretIds, InPlace, Moved, Calls,
         Steps, Guarded

(* Every step keeps the types: the map is only used under the id of a call *)
(* that has started.                                                       *)
LEMMA TypeStep == MemInv /\ [Next]_vars => TypeOK'
<1> SUFFICES ASSUME MemInv, [Next]_vars
             PROVE  TypeOK'
  OBVIOUS
<1> USE MemAssumption DEF Calls, MemInv
<1>1. ASSUME NEW s \in Savers, StartSave(s)
      PROVE  TypeOK'
  BY <1>1 DEF StartSave, Goto, TypeOK, Steps
<1>2. ASSUME NEW s \in Savers, SaveAborts(s)
      PROVE  TypeOK'
  BY <1>2 DEF SaveAborts, Goto, TypeOK, Steps
<1>3. ASSUME NEW s \in Savers, Insert(s)
      PROVE  TypeOK'
  <2>1. id[s] \in Ids /\ clock + TTL \in Nat
    BY <1>3 DEF Insert, Goto, HaveIds, TypeOK
  <2>2. data' \in [Ids -> Savers \cup {Nil}] /\ expiry' \in [Ids -> Nat]
    BY <1>3, <2>1 DEF Insert, TypeOK
  <2> QED
    BY <1>3, <2>2 DEF Insert, Goto, TypeOK, Steps
<1>4. ASSUME NEW l \in Loaders, StartLoad(l)
      PROVE  TypeOK'
  <2>1. PublishedIds \subseteq Ids
    BY DEF PublishedIds, HaveIds
  <2> QED
    BY <1>4, <2>1 DEF StartLoad, Goto, TypeOK, Steps
<1>5. ASSUME NEW l \in Loaders, Find(l)
      PROVE  TypeOK'
  <2>1. id[l] \in Ids
    BY <1>5 DEF Find, Goto, HaveIds
  <2>2. data[id[l]] \in Savers \cup {Nil} /\ expiry[id[l]] \in Nat
    BY <2>1 DEF TypeOK
  <2> QED
    BY <1>5, <2>2 DEF Find, Goto, TypeOK, Steps
<1>6. ASSUME NEW l \in Loaders, Delete(l)
      PROVE  TypeOK'
  BY <1>6 DEF Delete, Goto, TypeOK, Steps
<1>7. ASSUME NEW l \in Loaders, Check(l)
      PROVE  TypeOK'
  BY <1>7 DEF Check, Goto, TypeOK, Steps
<1>8. ASSUME NEW c \in Calls, Lock(c)
      PROVE  TypeOK'
  BY <1>8 DEF Lock, Goto, TypeOK, Steps
<1>9. ASSUME NEW c \in Calls, Unlock(c)
      PROVE  TypeOK'
  BY <1>9 DEF Unlock, Goto, TypeOK, Steps
<1>10. CASE Tick
  BY <1>10 DEF Tick, TypeOK
<1>11. CASE UNCHANGED vars
  BY <1>11 DEF vars, TypeOK
<1> QED
  BY <1>1, <1>2, <1>3, <1>4, <1>5, <1>6, <1>7, <1>8, <1>9, <1>10, <1>11
     DEF Next, SaveStep, LoadStep

(* Every statement of Save and Load keeps mutual exclusion and the place   *)
(* of every record.                                                        *)
LEMMA MemStep == MemInv /\ [Next]_vars => MemInv'
<1> SUFFICES ASSUME MemInv, [Next]_vars
             PROVE  MemInv'
  OBVIOUS
<1>0. TypeOK /\ TypeOK'
  BY TypeStep DEF MemInv
<1> USE MemAssumption DEF Calls
<1>1. ASSUME NEW s \in Savers, StartSave(s)
      PROVE  MemInv'
  <2>1. PICK i \in Ids \ {id[c] : c \in Calls} : id' = [id EXCEPT ![s] = i]
    BY <1>1 DEF StartSave
  <2>2. /\ pc[s] = "idle" /\ pc'[s] = "lock" /\ id[s] = Nil /\ id'[s] = i
        /\ \A c \in Calls \ {s} : pc'[c] = pc[c] /\ id'[c] = id[c] /\ id[c] # i
        /\ UNCHANGED <<mu, data, expiry, entry, due, result>>
    BY <1>0, <1>1, <2>1 DEF StartSave, Goto, TypeOK, MemInv, HaveIds
  <2>3. Mutex' /\ OwnSteps'
    BY <2>2 DEF MemInv, Mutex, OwnSteps, Guarded
  <2>4. HaveIds' /\ SecretIds'
    BY <2>2 DEF MemInv, HaveIds, SecretIds
  <2>5. InPlace'
    BY <2>2 DEF MemInv, InPlace
  <2>6. \A l \in Loaders : entry[l] # s
    BY <2>2 DEF MemInv, InPlace
  <2>7. Moved'
    BY <2>2, <2>6 DEF MemInv, Moved
  <2> QED
    BY <1>0, <2>3, <2>4, <2>5, <2>7 DEF MemInv
<1>2. ASSUME NEW s \in Savers, SaveAborts(s)
      PROVE  MemInv'
  <2>1. /\ pc[s] = "idle" /\ pc'[s] = "failed"
        /\ \A c \in Calls \ {s} : pc'[c] = pc[c]
        /\ UNCHANGED <<id, mu, data, expiry, entry, due, result>>
    BY <1>0, <1>2 DEF SaveAborts, Goto, TypeOK
  <2>2. Mutex' /\ OwnSteps'
    BY <2>1 DEF MemInv, Mutex, OwnSteps, Guarded
  <2>3. HaveIds' /\ SecretIds'
    BY <2>1 DEF MemInv, HaveIds, SecretIds
  <2>4. InPlace' /\ Moved'
    BY <2>1 DEF MemInv, InPlace, Moved
  <2> QED
    BY <1>0, <2>2, <2>3, <2>4 DEF MemInv
<1>3. ASSUME NEW s \in Savers, Insert(s)
      PROVE  MemInv'
  <2>1. /\ pc[s] = "insert" /\ pc'[s] = "unlock" /\ id[s] \in Ids
        /\ \A c \in Calls \ {s} : pc'[c] = pc[c]
        /\ data'[id[s]] = s
        /\ \A i \in Ids \ {id[s]} : data'[i] = data[i] /\ expiry'[i] = expiry[i]
        /\ UNCHANGED <<id, mu, entry, due, result>>
    BY <1>0, <1>3 DEF Insert, Goto, TypeOK, MemInv, HaveIds
  <2>2. Mutex' /\ OwnSteps'
    BY <2>1 DEF MemInv, Mutex, OwnSteps, Guarded
  <2>3. HaveIds' /\ SecretIds'
    BY <2>1 DEF MemInv, HaveIds, SecretIds
  <2>4. InPlace'
    BY <2>1 DEF MemInv, InPlace
  <2>5. \A l \in Loaders : entry[l] # s /\ pc[l] # "delete"
    BY <2>1 DEF MemInv, InPlace, SecretIds, Mutex, Guarded
  <2>6. \A t \in Savers : t # s => data'[id[s]] # t
    BY <2>1
  <2>7. Moved'
    BY <1>0, <2>1, <2>5, <2>6 DEF MemInv, Moved, InPlace
  <2> QED
    BY <1>0, <2>2, <2>3, <2>4, <2>7 DEF MemInv
<1>4. ASSUME NEW l \in Loaders, StartLoad(l)
      PROVE  MemInv'
  <2>1. PICK i \in PublishedIds \cup (Ids \ SavedIds) : id' = [id EXCEPT ![l] = i]
    BY <1>4 DEF StartLoad
  <2>2. i \in Ids /\ \A s \in Savers : id[s] = i => pc[s] = "done"
    BY <2>1 DEF PublishedIds, SavedIds, MemInv, HaveIds, SecretIds
  <2>3. /\ pc[l] = "idle" /\ pc'[l] = "lock" /\ id[l] = Nil /\ id'[l] = i
        /\ \A c \in Calls \ {l} : pc'[c] = pc[c] /\ id'[c] = id[c]
        /\ UNCHANGED <<mu, data, expiry, entry, due, result>>
    BY <1>0, <1>4, <2>1 DEF StartLoad, Goto, TypeOK, MemInv, HaveIds
  <2>4. Mutex' /\ OwnSteps'
    BY <2>3 DEF MemInv, Mutex, OwnSteps, Guarded
  <2>5. HaveIds' /\ SecretIds'
    BY <2>2, <2>3 DEF MemInv, HaveIds, SecretIds
  <2>6. InPlace'
    BY <2>3 DEF MemInv, InPlace
  <2>7. Moved'
    BY <2>3 DEF MemInv, Moved
  <2> QED
    BY <1>0, <2>4, <2>5, <2>6, <2>7 DEF MemInv
<1>5. ASSUME NEW l \in Loaders, Find(l)
      PROVE  MemInv'
  <2>1. /\ pc[l] = "lookup" /\ id[l] \in Ids
        /\ pc'[l] = IF data[id[l]] = Nil THEN "unlock" ELSE "delete"
        /\ \A c \in Calls \ {l} : pc'[c] = pc[c]
        /\ entry'[l] = data[id[l]] /\ due'[l] = expiry[id[l]]
        /\ \A k \in Loaders \ {l} : entry'[k] = entry[k] /\ due'[k] = due[k]
        /\ UNCHANGED <<id, mu, data, expiry, result>>
    BY <1>0, <1>5 DEF Find, Goto, TypeOK, MemInv, HaveIds
  <2>2. Mutex' /\ OwnSteps'
    BY <2>1 DEF MemInv, Mutex, OwnSteps, Guarded
  <2>3. HaveIds' /\ SecretIds'
    BY <2>1 DEF MemInv, HaveIds, SecretIds
  <2>4. InPlace'
    BY <1>0, <2>1 DEF MemInv, InPlace, TypeOK
  <2>5. \A k \in Loaders : k # l => pc[k] \notin Guarded
    BY <2>1 DEF MemInv, Mutex, Guarded
  <2>6. \A k \in Loaders \ {l} : entry[k] = data[id[l]] => entry[k] \notin Savers
    <3> SUFFICES ASSUME NEW k \in Loaders \ {l}, NEW s \in Savers,
                        entry[k] = s, data[id[l]] = s
                 PROVE  FALSE
      OBVIOUS
    <3>1. id[s] = id[l] /\ pc[k] # "delete"
      BY <2>1, <2>5 DEF MemInv, InPlace, Guarded
    <3> QED
      BY <3>1 DEF MemInv, Moved
  <2>7. Moved'
    BY <1>0, <2>1, <2>5, <2>6 DEF MemInv, Moved, TypeOK, Guarded
  <2> QED
    BY <1>0, <2>2, <2>3, <2>4, <2>7 DEF MemInv
<1>6. ASSUME NEW l \in Loaders, Delete(l)
      PROVE  MemInv'
  <2>1. /\ pc[l] = "delete" /\ pc'[l] = "check" /\ id[l] \in Ids
        /\ \A c \in Calls \ {l} : pc'[c] = pc[c]
        /\ data'[id[l]] = Nil
        /\ \A i \in Ids \ {id[l]} : data'[i] = data[i]
        /\ UNCHANGED <<id, mu, expiry, entry, due, result>>
    BY <1>0, <1>6 DEF Delete, Goto, TypeOK, MemInv, HaveIds
  <2>2. Mutex' /\ OwnSteps'
    BY <2>1 DEF MemInv, Mutex, OwnSteps, Guarded
  <2>3. HaveIds' /\ SecretIds'
    BY <2>1 DEF MemInv, HaveIds, SecretIds
  <2>4. InPlace'
    BY <2>1 DEF MemInv, InPlace
  <2>5. \A k \in Loaders : k # l => pc[k] # "delete"
    BY <2>1 DEF MemInv, Mutex, Guarded
  <2>6. Moved'
    BY <2>1, <2>5 DEF MemInv, Moved, InPlace
  <2> QED
    BY <1>0, <2>2, <2>3, <2>4, <2>6 DEF MemInv
<1>7. ASSUME NEW l \in Loaders, Check(l)
      PROVE  MemInv'
  <2>1. /\ pc[l] = "check" /\ pc'[l] = "unlock"
        /\ \A c \in Calls \ {l} : pc'[c] = pc[c]
        /\ result'[l] \in {Nil, entry[l]}
        /\ \A k \in Loaders \ {l} : result'[k] = result[k]
        /\ UNCHANGED <<id, mu, data, expiry, entry, due>>
    BY <1>0, <1>7 DEF Check, Goto, TypeOK
  <2>2. Mutex' /\ OwnSteps'
    BY <2>1 DEF MemInv, Mutex, OwnSteps, Guarded
  <2>3. HaveIds' /\ SecretIds'
    BY <2>1 DEF MemInv, HaveIds, SecretIds
  <2>4. InPlace'
    BY <2>1 DEF MemInv, InPlace
  <2>5. Moved'
    BY <2>1 DEF MemInv, Moved
  <2> QED
    BY <1>0, <2>2, <2>3, <2>4, <2>5 DEF MemInv
<1>8. ASSUME NEW c \in Calls, Lock(c)
      PROVE  MemInv'
  <2>1. /\ pc[c] = "lock" /\ pc'[c] = IF c \in Savers THEN "insert" ELSE "lookup"
        /\ \A d \in Calls \ {c} : pc'[d] = pc[d]
        /\ mu = Nil /\ mu' = c
        /\ UNCHANGED <<id, data, expiry, entry, due, result>>
    BY <1>0, <1>8 DEF Lock, Goto, TypeOK
  <2>2. Mutex' /\ OwnSteps'
    BY <2>1 DEF MemInv, Mutex, OwnSteps, Guarded
  <2>3. HaveIds' /\ SecretIds'
    BY <2>1 DEF MemInv, HaveIds, SecretIds
  <2>4. InPlace' /\ Moved'
    BY <2>1 DEF MemInv, InPlace, Moved
  <2> QED
    BY <1>0, <2>2, <2>3, <2>4 DEF MemInv
<1>9. ASSUME NEW c \in Calls, Unlock(c)
      PROVE  MemInv'
  <2>1. /\ pc[c] = "unlock" /\ pc'[c] = "done"
        /\ \A d \in Calls \ {c} : pc'[d] = pc[d]
        /\ mu = c /\ mu' = Nil
        /\ UNCHANGED <<id, data, expiry, entry, due, result>>
    BY <1>0, <1>9 DEF Unlock, Goto, TypeOK, MemInv, Mutex, Guarded
  <2>2. Mutex' /\ OwnSteps'
    BY <2>1 DEF MemInv, Mutex, OwnSteps, Guarded
  <2>3. HaveIds' /\ SecretIds'
    BY <2>1 DEF MemInv, HaveIds, SecretIds
  <2>4. InPlace' /\ Moved'
    BY <2>1 DEF MemInv, InPlace, Moved
  <2> QED
    BY <1>0, <2>2, <2>3, <2>4 DEF MemInv
<1>10. CASE Tick
  BY <1>0, <1>10 DEF Tick, MemInv, Mutex, OwnSteps, HaveIds, SecretIds, InPlace, Moved
<1>11. CASE UNCHANGED vars
  BY <1>0, <1>11 DEF vars, MemInv, Mutex, OwnSteps, HaveIds, SecretIds, InPlace, Moved
<1> QED
  BY <1>1, <1>2, <1>3, <1>4, <1>5, <1>6, <1>7, <1>8, <1>9, <1>10, <1>11
     DEF Next, SaveStep, LoadStep

(* The in-memory store never leaves its types, whatever the interleaving.  *)
THEOREM MemTypeCorrect == Spec => []TypeOK
<1>1. MemInv => TypeOK
  BY DEF MemInv
<1> QED
  BY <1>1, MemInit, MemStep, PTL DEF Spec

-----------------------------------------------------------------------------
(* The refinement.  Load l has returned record s.                          *)
Received(l, s) == pc[l] = "done" /\ result[l] = s

(* Steps that only lose records: they leave the readers alone and move     *)
(* records nowhere or to "gone", which KeyStore allows as Discard.         *)
ReadersKept == \A l \in Loaders, s \in Savers : Received(l, s)' <=> Received(l, s)
OnlyLosses  == \A s \in Savers : Phase(s)' \in {Phase(s), "gone"}

(* A step after which records have only been lost is a Discard of          *)
(* KeyStore.                                                               *)
LEMMA DiscardStep ==
  ASSUME ReadersKept, OnlyLosses
  PROVE  Store!Next
<1> DEFINE R == {s \in Savers : Phase(s)' # Phase(s)}
<1>1. [s \in Savers |-> Phase(s)'] =
        [s \in Savers |-> IF s \in R THEN "gone" ELSE [t \in Savers |-> Phase(t)][s]]
  BY DEF OnlyLosses
<1>2. [s \in Savers |-> {l \in Loaders : pc'[l] = "done" /\ result'[l] = s}] =
        [s \in Savers |-> {l \in Loaders : pc[l] = "done" /\ result[l] = s}]
  BY DEF ReadersKept, Received
<1>3. R \in SUBSET Savers
  OBVIOUS
<1>4. Store!Discard(R)
  BY <1>1, <1>2 DEF Store!Discard
<1> QED
  BY <1>3, <1>4 DEF Store!Next

(* A record is new until its Save ended; then it is live while a Load      *)
(* holds it or the map shows it.                                           *)
LEMMA PhaseOf ==
  ASSUME NEW s \in Savers
  PROVE  /\ pc[s] \notin {"done", "failed"} => Phase(s) = "new"
         /\ pc[s] = "done" /\ (InHand(s) \/ InMap(s)) => Phase(s) = "live"
         /\ pc[s] = "done" /\ ~(InHand(s) \/ InMap(s)) => Phase(s) = "gone"
         /\ pc[s] = "failed" => Phase(s) = "gone"
  BY DEF Phase

(* The same for the state after a step.                                    *)
LEMMA PhaseOfNext ==
  ASSUME NEW s \in Savers
  PROVE  /\ pc'[s] \notin {"done", "failed"} => Phase(s)' = "new"
         /\ pc'[s] = "done" /\ (InHand(s)' \/ InMap(s)') => Phase(s)' = "live"
         /\ pc'[s] = "done" /\ ~(InHand(s)' \/ InMap(s)') => Phase(s)' = "gone"
         /\ pc'[s] = "failed" => Phase(s)' = "gone"
  BY DEF Phase

(* A step that leaves every published record where it is, or takes it from *)
(* view, and publishes none, loses records at most.                        *)
LEMMA LossStep ==
  ASSUME ReadersKept,
         \A s \in Savers :
            \/ pc'[s] = pc[s] /\ (pc[s] = "done" /\ (InHand(s)' \/ InMap(s)') => InHand(s) \/ InMap(s))
            \/ pc[s] \notin {"done", "failed"} /\ pc'[s] # "done"
  PROVE  Store!Next
<1>1. ASSUME NEW s \in Savers
      PROVE  Phase(s)' \in {Phase(s), "gone"}
  BY PhaseOf, PhaseOfNext
<1> QED
  BY <1>1, DiscardStep DEF OnlyLosses

(* Every step of the in-memory store is seen by callers as a step of       *)
(* KeyStore or as none.                                                    *)
LEMMA RefinementStep == MemInv /\ MemInv' /\ [Next]_vars => [Store!Next]_(Store!vars)
<1> SUFFICES ASSUME MemInv, MemInv', [Next]_vars
             PROVE  [Store!Next]_(Store!vars)
  OBVIOUS
<1>0. TypeOK /\ TypeOK' /\ HaveIds /\ SecretIds /\ InPlace /\ Moved /\ OwnSteps
  BY DEF MemInv
<1> USE MemAssumption DEF Calls
<1>1. ASSUME NEW s \in Savers, StartSave(s) \/ SaveAborts(s)
      PROVE  Store!Next
  <2>1. /\ pc[s] = "idle" /\ pc'[s] \in {"lock", "failed"}
        /\ \A c \in Calls \ {s} : pc'[c] = pc[c] /\ id'[c] = id[c]
        /\ UNCHANGED <<data, expiry, entry, due, result, clock>>
    BY <1>0, <1>1 DEF StartSave, SaveAborts, Goto, TypeOK
  <2>2. ReadersKept
    BY <2>1 DEF ReadersKept, Received
  <2>3. \A t \in Savers \ {s} : (InHand(t)' <=> InHand(t)) /\ (InMap(t)' <=> InMap(t))
    BY <2>1 DEF InHand, InMap
  <2> QED
    BY <2>1, <2>2, <2>3, LossStep
<1>2. ASSUME NEW s \in Savers, Insert(s)
      PROVE  Store!Next
  <2>1. /\ pc[s] = "insert" /\ pc'[s] = "unlock" /\ id[s] \in Ids
        /\ \A c \in Calls \ {s} : pc'[c] = pc[c]
        /\ \A i \in Ids \ {id[s]} : data'[i] = data[i] /\ expiry'[i] = expiry[i]
        /\ UNCHANGED <<id, entry, due, result, clock>>
    BY <1>0, <1>2 DEF Insert, Goto, TypeOK, HaveIds
  <2>2. ReadersKept
    BY <2>1 DEF ReadersKept, Received
  <2>3. ASSUME NEW t \in Savers \ {s}, pc[t] = "done"
        PROVE  (InHand(t)' <=> InHand(t)) /\ (InMap(t)' <=> InMap(t))
    <3>1. id[t] \in Ids /\ id[t] # id[s]
      BY <1>0, <2>1, <2>3 DEF HaveIds, SecretIds
    <3> QED
      BY <2>1, <3>1 DEF InHand, InMap
  <2> QED
    BY <2>1, <2>2, <2>3, LossStep
<1>3. ASSUME NEW l \in Loaders, StartLoad(l)
      PROVE  Store!Next
  <2>1. /\ pc[l] = "idle" /\ pc'[l] = "lock"
        /\ \A c \in Calls \ {l} : pc'[c] = pc[c] /\ id'[c] = id[c]
        /\ UNCHANGED <<data, expiry, entry, due, result, clock>>
    BY <1>0, <1>3 DEF StartLoad, Goto, TypeOK
  <2>2. ReadersKept
    BY <2>1 DEF ReadersKept, Received
  <2>3. \A t \in Savers : pc'[t] = pc[t] /\ (InHand(t)' <=> InHand(t)) /\ (InMap(t)' <=> InMap(t))
    BY <2>1 DEF InHand, InMap
  <2> QED
    BY <2>2, <2>3, LossStep
<1>4. ASSUME NEW l \in Loaders, Find(l)
      PROVE  Store!Next
  <2>1. /\ pc[l] = "lookup" /\ pc'[l] \in {"unlock", "delete"} /\ id[l] \in Ids
        /\ \A c \in Calls \ {l} : pc'[c] = pc[c]
        /\ entry'[l] = data[id[l]] /\ due'[l] = expiry[id[l]]
        /\ \A k \in Loaders \ {l} : entry'[k] = entry[k] /\ due'[k] = due[k]
        /\ UNCHANGED <<id, data, expiry, result, clock>>
    BY <1>0, <1>4 DEF Find, Goto, TypeOK, HaveIds
  <2>2. ReadersKept
    BY <2>1 DEF ReadersKept, Received
  <2>3. \A t \in Savers : result[l] # t
    BY <1>0, <2>1 DEF InPlace
  <2>4. ASSUME NEW t \in Savers, InHand(t)' \/ InMap(t)'
        PROVE  InHand(t) \/ InMap(t)
    <3>1. CASE InMap(t)'
      BY <2>1, <3>1 DEF InMap
    <3>2. CASE InHand(t)'
      <4>1. PICK k \in Loaders :
               \/ pc'[k] \in {"delete", "check"} /\ entry'[k] = t /\ clock' <= due'[k]
               \/ pc'[k] = "unlock" /\ result'[k] = t
        BY <3>2 DEF InHand
      <4>2. CASE k = l
        <5>1. data[id[l]] = t /\ clock <= expiry[id[l]]
          BY <2>1, <2>3, <4>1, <4>2
        <5> QED
          BY <1>0, <2>1, <5>1 DEF InMap, InPlace
      <4>3. CASE k # l
        BY <2>1, <4>1, <4>3 DEF InHand
      <4> QED
        BY <4>2, <4>3
    <3> QED
      BY <2>4, <3>1, <3>2
  <2>5. \A t \in Savers : pc'[t] = pc[t]
    BY <2>1
  <2> QED
    BY <2>2, <2>4, <2>5, LossStep
<1>5. ASSUME NEW l \in Loaders, Delete(l)
      PROVE  Store!Next
  <2>1. /\ pc[l] = "delete" /\ pc'[l] = "check" /\ id[l] \in Ids
        /\ \A c \in Calls \ {l} : pc'[c] = pc[c]
        /\ data'[id[l]] = Nil
        /\ \A i \in Ids \ {id[l]} : data'[i] = data[i]
        /\ UNCHANGED <<id, expiry, entry, due, result, clock>>
    BY <1>0, <1>5 DEF Delete, Goto, TypeOK, HaveIds
  <2>2. ReadersKept
    BY <2>1 DEF ReadersKept, Received
  <2>3. \A t \in Savers : InHand(t)' <=> InHand(t)
    BY <2>1 DEF InHand
  <2>4. \A t \in Savers : pc[t] = "done" /\ InMap(t)' => InMap(t)
    BY <1>0, <2>1 DEF InMap, HaveIds
  <2>5. \A t \in Savers : pc'[t] = pc[t]
    BY <2>1
  <2> QED
    BY <2>2, <2>3, <2>4, <2>5, LossStep
<1>6. ASSUME NEW l \in Loaders, Check(l)
      PROVE  Store!Next
  <2>1. /\ pc[l] = "check" /\ pc'[l] = "unlock"
        /\ \A c \in Calls \ {l} : pc'[c] = pc[c]
        /\ result'[l] = IF clock > due[l] THEN Nil ELSE entry[l]
        /\ \A k \in Loaders \ {l} : result'[k] = result[k]
        /\ clock \in Nat /\ due[l] \in Nat
        /\ UNCHANGED <<id, data, expiry, entry, due, clock>>
    BY <1>0, <1>6 DEF Check, Goto, TypeOK
  <2>2. ReadersKept
    BY <2>1 DEF ReadersKept, Received
  <2>3. \A t \in Savers : InMap(t)' <=> InMap(t)
    BY <2>1 DEF InMap
  <2>4. \A t \in Savers : InHand(t)' => InHand(t)
    BY <2>1 DEF InHand
  <2>5. \A t \in Savers : pc'[t] = pc[t]
    BY <2>1
  <2> QED
    BY <2>2, <2>3, <2>4, <2>5, LossStep
<1>7. ASSUME NEW c \in Calls, Lock(c)
      PROVE  Store!Next
  <2>1. /\ pc[c] = "lock" /\ pc'[c] \in {"insert", "lookup"}
        /\ \A d \in Calls \ {c} : pc'[d] = pc[d]
        /\ UNCHANGED <<id, data, expiry, entry, due, result, clock>>
    BY <1>0, <1>7 DEF Lock, Goto, TypeOK
  <2>2. ReadersKept
    BY <2>1 DEF ReadersKept, Received
  <2>3. \A t \in Savers : (InHand(t)' <=> InHand(t)) /\ (InMap(t)' <=> InMap(t))
    BY <2>1 DEF InHand, InMap
  <2> QED
    BY <2>1, <2>2, <2>3, LossStep
<1>8. ASSUME NEW s \in Savers, Unlock(s)
      PROVE  Store!Next
  <2>1. /\ pc[s] = "unlock" /\ pc'[s] = "done"
        /\ \A d \in Calls \ {s} : pc'[d] = pc[d]
        /\ UNCHANGED <<id, data, expiry, entry, due, result, clock>>
    BY <1>0, <1>8 DEF Unlock, Goto, TypeOK
  <2>2. ReadersKept
    BY <2>1 DEF ReadersKept, Received
  <2>3. \A t \in Savers : (InHand(t)' <=> InHand(t)) /\ (InMap(t)' <=> InMap(t))
    BY <2>1 DEF InHand, InMap
  <2>4. \A t \in Savers \ {s} : Phase(t)' = Phase(t)
    BY <2>1, <2>3 DEF Phase
  <2>5. Phase(s) = "new" /\ Phase(s)' \in {"live", "gone"}
    BY <2>1, PhaseOf, PhaseOfNext
  <2>6. CASE Phase(s)' = "live"
    <3>1. [t \in Savers |-> Phase(t)'] = [[t \in Savers |-> Phase(t)] EXCEPT ![s] = "live"]
      BY <2>4, <2>6
    <3>2. [t \in Savers |-> {l \in Loaders : pc'[l] = "done" /\ result'[l] = t}] =
            [t \in Savers |-> {l \in Loaders : pc[l] = "done" /\ result[l] = t}]
      BY <2>2 DEF ReadersKept, Received
    <3>3. Store!Publish(s)
      BY <2>5, <3>1, <3>2 DEF Store!Publish
    <3> QED
      BY <3>3 DEF Store!Next
  <2>7. CASE Phase(s)' = "gone"
    BY <2>2, <2>4, <2>7, DiscardStep DEF OnlyLosses
  <2> QED
    BY <2>5, <2>6, <2>7
<1>9. ASSUME NEW l \in Loaders, Unlock(l)
      PROVE  Store!Next
  <2>1. /\ pc[l] = "unlock" /\ pc'[l] = "done"
        /\ \A d \in Calls \ {l} : pc'[d] = pc[d]
        /\ UNCHANGED <<id, data, expiry, entry, due, result, clock>>
    BY <1>0, <1>9 DEF Unlock, Goto, TypeOK
  <2>2. \A t \in Savers : pc'[t] = pc[t] /\ (InMap(t)' <=> InMap(t))
    BY <2>1 DEF InMap
  <2>3. \A t \in Savers : result[l] # t => (InHand(t)' <=> InHand(t))
    BY <2>1 DEF InHand
  <2>4. CASE result[l] \notin Savers
    <3>1. ReadersKept
      BY <2>1, <2>4 DEF ReadersKept, Received
    <3> QED
      BY <2>2, <2>3, <2>4, <3>1, LossStep
  <2>5. CASE result[l] \in Savers
    <3>1. PICK s \in Savers : result[l] = s
      BY <2>5
    <3>2. /\ entry[l] = s /\ id[l] = id[s] /\ id[s] \in Ids /\ pc[s] = "done"
          /\ data[id[s]] # s /\ s # Nil
      BY <1>0, <2>1, <3>1 DEF InPlace, SecretIds, Moved, TypeOK
    <3>3. Phase(s) = "live"
      BY <2>1, <3>1, <3>2, PhaseOf DEF InHand
    <3>4. ~InMap(s)' /\ ~InHand(s)'
      BY <1>0, <2>1, <3>1, <3>2 DEF InMap, InHand, InPlace, Moved
    <3>5. Phase(s)' = "gone"
      BY <2>2, <3>2, <3>4, PhaseOfNext
    <3>6. \A t \in Savers \ {s} : Phase(t)' = Phase(t)
      BY <2>2, <2>3, <3>1 DEF Phase
    <3>7. [t \in Savers |-> Phase(t)'] = [[t \in Savers |-> Phase(t)] EXCEPT ![s] = "gone"]
      BY <3>5, <3>6
    <3> DEFINE F == [t \in Savers |-> {k \in Loaders : pc[k] = "done" /\ result[k] = t}]
               G == [t \in Savers |-> {k \in Loaders : pc'[k] = "done" /\ result'[k] = t}]
    <3>8. \A t \in Savers : G[t] = IF t = s THEN F[t] \cup {l} ELSE F[t]
      BY <2>1, <3>1
    <3>9. G = [F EXCEPT ![s] = @ \cup {l}]
      BY <3>8
    <3>10. Store!Take(s, l)
      BY <3>1, <3>3, <3>7, <3>9 DEF Store!Take
    <3> QED
      BY <3>1, <3>10 DEF Store!Next
  <2> QED
    BY <2>4, <2>5
<1>10. CASE Tick
  <2>1. UNCHANGED <<pc, id, data, expiry, entry, due, result>> /\ clock' = clock + 1
    BY <1>10 DEF Tick
  <2>2. ReadersKept
    BY <2>1 DEF ReadersKept, Received
  <2>3. clock \in Nat /\ (\A l \in Loaders : due[l] \in Nat) /\ \A i \in Ids : expiry[i] \in Nat
    BY <1>0 DEF TypeOK
  <2>4. \A t \in Savers : InHand(t)' => InHand(t)
    BY <2>1, <2>3 DEF InHand
  <2>5. \A t \in Savers : pc[t] = "done" /\ InMap(t)' => InMap(t)
    BY <1>0, <2>1, <2>3 DEF InMap, HaveIds
  <2>6. \A t \in Savers : pc'[t] = pc[t]
    BY <2>1
  <2> QED
    BY <2>2, <2>4, <2>5, <2>6, LossStep
<1>11. CASE UNCHANGED vars
  BY <1>11 DEF vars, Store!vars, Phase, InHand, InMap
<1> QED
  BY <1>1, <1>2, <1>3, <1>4, <1>5, <1>6, <1>7, <1>8, <1>9, <1>10, <1>11
     DEF Next, SaveStep, LoadStep

(* The mutex-guarded map implements KeyStore: however the goroutines       *)
(* interleave and time passes, callers see records that go from new to     *)
(* live to gone, each read by one Load at most and none after its ttl.     *)
THEOREM MemImplements == Spec => ImplementsKeyStore
<1>1. Init => Store!Init
  <2> SUFFICES ASSUME Init
               PROVE  Store!Init
    OBVIOUS
  <2>1. \A c \in Calls : pc[c] = "idle"
    BY DEF Init
  <2>2. \A s \in Savers : Phase(s) = "new" /\ \A l \in Loaders : ~(pc[l] = "done" /\ result[l] = s)
    BY <2>1 DEF Phase, Calls
  <2> QED
    BY <2>2 DEF Store!Init
<1> QED
  BY <1>1, MemInit, MemStep, RefinementStep, PTL DEF Spec, Store!Spec, ImplementsKeyStore
=============================================================================

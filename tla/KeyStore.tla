------------------------------ MODULE KeyStore ------------------------------
(***************************************************************************)
(* What a KeyBank key store promises (interface KeyStore, store.go:14-17). *)
(*                                                                         *)
(* Save hands a record to the store and publishes an id for it; Load       *)
(* consumes the record of an id.  The promise is the one-time property of  *)
(* mission.md: a record is read by at most one Load, and a record that has *)
(* been read, has expired or has been lost never comes back.               *)
(*                                                                         *)
(* RedisKeyStore and MemKeyStore are shown to implement this module.       *)
(***************************************************************************)
CONSTANTS Records,  \* the records that Save is called with, one per call
          Readers   \* the Load calls

VARIABLES phase,    \* where a record is in its life
          readers   \* the Load calls that returned the record

vars == <<phase, readers>>

Phases == {"new", "live", "gone"}

TypeOK == /\ phase \in [Records -> Phases]
          /\ readers \in [Records -> SUBSET Readers]

Init == /\ phase = [r \in Records |-> "new"]
        /\ readers = [r \in Records |-> {}]

(* Save returns the id of r: from now on a Load can reach it. *)
Publish(r) == /\ phase[r] = "new"
              /\ phase' = [phase EXCEPT ![r] = "live"]
              /\ UNCHANGED readers

(* Load l returns r, which is consumed by it. *)
Take(r, l) == /\ phase[r] = "live"
              /\ phase' = [phase EXCEPT ![r] = "gone"]
              /\ readers' = [readers EXCEPT ![r] = @ \cup {l}]

(* The records of R end unread: their Save failed, they expired, or the    *)
(* answer that carried them was lost.                                      *)
Discard(R) == /\ phase' = [r \in Records |-> IF r \in R THEN "gone" ELSE phase[r]]
              /\ UNCHANGED readers

Next == \/ \E r \in Records : Publish(r)
        \/ \E r \in Records, l \in Readers : Take(r, l)
        \/ \E R \in SUBSET Records : Discard(R)

Spec == Init /\ [][Next]_vars

-----------------------------------------------------------------------------
(* mission.md:17: the recipient can read a message exactly once.  No two   *)
(* Load calls ever return the same record.                                 *)
AtMostOneReader == \A r \in Records : \A k, l \in readers[r] : k = l
=============================================================================

--------------------------- MODULE KeyStoreProofs ---------------------------
(***************************************************************************)
(* The one-time property of the abstract store, for any number of records  *)
(* and Load calls.  Every implementation of KeyStore inherits it.          *)
(***************************************************************************)
EXTENDS KeyStore, TLAPS

(* The inductive invariant: a record with a reader is gone, so nobody can  *)
(* take it again.                                                          *)
ReadInv ==
  /\ TypeOK
  /\ \A r \in Records : readers[r] # {} => phase[r] = "gone"
  /\ AtMostOneReader

(* Every step of the store keeps a record with a reader out of reach.      *)
LEMMA ReadStep == ReadInv /\ [Next]_vars => ReadInv'
<1> SUFFICES ASSUME ReadInv, [Next]_vars
             PROVE  ReadInv'
  OBVIOUS
<1> USE DEF ReadInv, TypeOK, Phases, AtMostOneReader
<1>1. ASSUME NEW r \in Records, Publish(r)
      PROVE  ReadInv'
  BY <1>1 DEF Publish
<1>2. ASSUME NEW r \in Records, NEW l \in Readers, Take(r, l)
      PROVE  ReadInv'
  <2>1. readers[r] = {}
    BY <1>2 DEF Take
  <2>2. readers'[r] = {l} /\ \A s \in Records : s # r => readers'[s] = readers[s]
    BY <1>2, <2>1 DEF Take
  <2> QED
    BY <1>2, <2>2 DEF Take
<1>3. ASSUME NEW R \in SUBSET Records, Discard(R)
      PROVE  ReadInv'
  BY <1>3 DEF Discard
<1>4. CASE UNCHANGED vars
  BY <1>4 DEF vars
<1> QED
  BY <1>1, <1>2, <1>3, <1>4 DEF Next

(* Whatever is published, taken and discarded in whatever order, no two    *)
(* Load calls return the same record (interface KeyStore, mission.md:17).  *)
THEOREM OneReader == Spec => []AtMostOneReader
<1>1. Init => ReadInv
  BY DEF Init, ReadInv, TypeOK, Phases, AtMostOneReader
<1>2. ReadInv /\ [Next]_vars => ReadInv'
  BY ReadStep
<1>3. ReadInv => AtMostOneReader
  BY DEF ReadInv
<1> QED
  BY <1>1, <1>2, <1>3, PTL DEF Spec
=============================================================================

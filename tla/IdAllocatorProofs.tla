------------------------- MODULE IdAllocatorProofs -------------------------
(* Ids are never issued twice: proof for any number of nodes and any batch. *)
EXTENDS IdAllocator, SequenceTheorems, TLAPS

TypeOK ==
    /\ stored \in Nat
    /\ base \in [Nodes -> Nat] /\ end \in [Nodes -> Nat]
    /\ seen \in [Nodes -> Nat \cup {-1}]
    /\ issued \in Seq(Nat)

\* No range is overdrawn, and no id is beyond the counter.
Bounded ==
    /\ \A n \in Nodes : base[n] <= end[n]
    /\ \A i \in DOMAIN issued : issued[i] <= stored

IdInv == TypeOK /\ Bounded /\ RangesOwned /\ IdsDistinct

\* Handing out an id that is new keeps the ids distinct.
LEMMA AppendNew ==
    ASSUME issued \in Seq(Nat), IdsDistinct,
           NEW id \in Nat, \A i \in DOMAIN issued : issued[i] # id,
           issued' = Append(issued, id)
    PROVE  /\ IdsDistinct'
           /\ issued' \in Seq(Nat)
           /\ \A i \in DOMAIN issued' : issued'[i] = id \/ \E j \in DOMAIN issued : issued'[i] = issued[j]
<1>1. /\ issued' \in Seq(Nat)
      /\ DOMAIN issued' = 1 .. Len(issued) + 1
      /\ \A i \in 1 .. Len(issued) : issued'[i] = issued[i]
      /\ issued'[Len(issued) + 1] = id
  BY AppendProperties, LenProperties
<1>2. DOMAIN issued = 1 .. Len(issued) /\ Len(issued) \in Nat
  BY LenProperties
<1>3. \A i \in DOMAIN issued' : i \in DOMAIN issued \/ i = Len(issued) + 1
  BY <1>1, <1>2
<1>4. IdsDistinct'
  <2> SUFFICES ASSUME NEW i \in DOMAIN issued', NEW j \in DOMAIN issued',
                      issued'[i] = issued'[j]
               PROVE  i = j
    BY DEF IdsDistinct
  <2>1. CASE i \in DOMAIN issued /\ j \in DOMAIN issued
    BY <2>1, <1>1, <1>2 DEF IdsDistinct
  <2>2. CASE i = Len(issued) + 1 /\ j \in DOMAIN issued
    BY <2>2, <1>1, <1>2
  <2>3. CASE i \in DOMAIN issued /\ j = Len(issued) + 1
    BY <2>3, <1>1, <1>2
  <2>4. QED
    BY <2>1, <2>2, <2>3, <1>3
<1>5. QED
  BY <1>1, <1>2, <1>3, <1>4

LEMMA InitId == Init => IdInv
BY IdAssumption DEF Init, IdInv, TypeOK, Bounded, RangesOwned, IdsDistinct

\* An id from the range of a node that has some left.
LEMMA AllocIDKeeps ==
    ASSUME IdInv, NEW n \in Nodes, AllocID(n)
    PROVE  IdInv'
<1> USE DEF IdInv, TypeOK
<1> DEFINE id == base[n] + 1
<1>1. /\ id \in Nat /\ base[n] \in Nat /\ end[n] \in Nat
      /\ base[n] < end[n] /\ id <= stored
  BY DEF AllocID, Bounded, RangesOwned
<1>2. \A i \in DOMAIN issued : issued[i] \in Nat
  BY ElementOfSeq, LenProperties
<1>3. \A i \in DOMAIN issued : issued[i] # id
  BY <1>1, <1>2 DEF RangesOwned
<1>4. issued' = Append(issued, id)
  BY DEF AllocID
<1>5. /\ base' = [base EXCEPT ![n] = id]
      /\ UNCHANGED <<stored, end, seen>>
  BY DEF AllocID
<1> HIDE DEF id
<1>6. /\ IdsDistinct' /\ issued' \in Seq(Nat)
      /\ \A i \in DOMAIN issued' : issued'[i] = id \/ \E j \in DOMAIN issued : issued'[i] = issued[j]
  BY <1>1, <1>3, <1>4, AppendNew
<1>7. TypeOK'
  BY <1>1, <1>5, <1>6
<1>8. \A m \in Nodes : base'[m] = IF m = n THEN id ELSE base[m]
  BY <1>5
<1>9. id = base[n] + 1
  BY DEF id
<1>10. Bounded'
  <2>1. \A m \in Nodes : base'[m] <= end'[m]
    BY <1>1, <1>5, <1>8, <1>9 DEF Bounded
  <2>2. \A i \in DOMAIN issued' : issued'[i] <= stored'
    BY <1>1, <1>2, <1>5, <1>6 DEF Bounded
  <2>3. QED
    BY <2>1, <2>2 DEF Bounded
<1>11. RangesOwned'
  <2> SUFFICES ASSUME NEW k \in Nodes
               PROVE  /\ end'[k] <= stored'
                      /\ \A m \in Nodes \ {k} : end'[m] <= base'[k] \/ end'[k] <= base'[m]
                                                \/ base'[k] = end'[k] \/ base'[m] = end'[m]
                      /\ \A i \in DOMAIN issued' : issued'[i] <= base'[k] \/ issued'[i] > end'[k]
    BY DEF RangesOwned
  <2>1. end'[k] <= stored'
    BY <1>5 DEF RangesOwned
  <2>2. \A m \in Nodes : base[m] \in Nat /\ end[m] \in Nat /\ base[m] <= end[m]
    BY DEF Bounded
  <2>3. \A m \in Nodes \ {k} : end'[m] <= base'[k] \/ end'[k] <= base'[m]
                               \/ base'[k] = end'[k] \/ base'[m] = end'[m]
    BY <1>1, <1>5, <1>8, <1>9, <2>2 DEF RangesOwned
  <2>4. id <= base'[k] \/ id > end'[k]
    <3>1. CASE k = n
      BY <3>1, <1>1, <1>8
    <3>2. CASE k # n
      <4>1. \/ end[k] <= base[n] \/ end[n] <= base[k]
            \/ base[n] = end[n] \/ base[k] = end[k]
        BY <3>2 DEF RangesOwned
      <4>2. base'[k] = base[k] /\ end'[k] = end[k]
        BY <3>2, <1>5, <1>8
      <4>3. base[k] \in Nat /\ end[k] \in Nat
        BY <2>2
      <4> HIDE DEF IdInv, TypeOK
      <4>4. QED
        BY <4>1, <4>2, <4>3, <1>1, <1>9
    <3>3. QED
      BY <3>1, <3>2
  <2>5. \A j \in DOMAIN issued : issued[j] <= base'[k] \/ issued[j] > end'[k]
    BY <1>1, <1>2, <1>5, <1>8, <1>9, <2>2 DEF RangesOwned
  <2>6. QED
    BY <1>6, <2>1, <2>3, <2>4, <2>5
<1>12. QED
  BY <1>6, <1>7, <1>10, <1>11

\* A new range starts at the counter, above every range and every id.
LEMMA GenerateKeeps ==
    ASSUME IdInv, NEW n \in Nodes, Generate(n)
    PROVE  IdInv'
<1> USE DEF IdInv, TypeOK
<1> DEFINE id == stored + 1
<1>1. seen[n] = stored /\ id \in Nat /\ idBatch \in Nat /\ idBatch > 0
  BY IdAssumption DEF Generate, txnSucceeds
<1>2. \A i \in DOMAIN issued : issued[i] \in Nat
  BY ElementOfSeq, LenProperties
<1>3. \A i \in DOMAIN issued : issued[i] # id
  BY <1>1, <1>2 DEF Bounded
<1>4. newBase(n) = stored
  BY <1>1 DEF newBase
<1>5. /\ issued' = Append(issued, id)
      /\ base' = [base EXCEPT ![n] = id]
      /\ end' = [end EXCEPT ![n] = stored + idBatch]
      /\ stored' = stored + idBatch
      /\ seen' = [seen EXCEPT ![n] = -1]
  BY <1>1, <1>4 DEF Generate
<1>6. id = stored + 1
  OBVIOUS
<1> HIDE DEF id
<1>7. /\ IdsDistinct' /\ issued' \in Seq(Nat)
      /\ \A i \in DOMAIN issued' : issued'[i] = id \/ \E j \in DOMAIN issued : issued'[i] = issued[j]
  BY <1>1, <1>3, <1>5, AppendNew
<1>8. /\ \A m \in Nodes : base'[m] = IF m = n THEN id ELSE base[m]
      /\ \A m \in Nodes : end'[m] = IF m = n THEN stored + idBatch ELSE end[m]
  BY <1>5
<1>9. TypeOK'
  <2>1. stored' \in Nat /\ end' \in [Nodes -> Nat] /\ base' \in [Nodes -> Nat]
    BY <1>1, <1>5
  <2>2. seen' \in [Nodes -> Nat \cup {-1}]
    BY <1>5
  <2>3. QED
    BY <2>1, <2>2, <1>7
<1>10. \A m \in Nodes : base[m] \in Nat /\ end[m] \in Nat /\ base[m] <= end[m] /\ end[m] <= stored
  BY DEF Bounded, RangesOwned
<1> stored \in Nat
  OBVIOUS
<1> HIDE DEF IdInv, TypeOK
<1>11. Bounded'
  <2>1. \A m \in Nodes : base'[m] <= end'[m]
    <3> TAKE m \in Nodes
    <3>1. CASE m = n
      BY <3>1, <1>1, <1>6, <1>8
    <3>2. CASE m # n
      BY <3>2, <1>8, <1>10
    <3>3. QED
      BY <3>1, <3>2
  <2>2. \A i \in DOMAIN issued' : issued'[i] <= stored'
    BY <1>1, <1>2, <1>5, <1>6, <1>7 DEF Bounded, IdInv
  <2>3. QED
    BY <2>1, <2>2 DEF Bounded
<1>12. RangesOwned'
  <2> SUFFICES ASSUME NEW k \in Nodes
               PROVE  /\ end'[k] <= stored'
                      /\ \A m \in Nodes \ {k} : end'[m] <= base'[k] \/ end'[k] <= base'[m]
                                                \/ base'[k] = end'[k] \/ base'[m] = end'[m]
                      /\ \A i \in DOMAIN issued' : issued'[i] <= base'[k] \/ issued'[i] > end'[k]
    BY DEF RangesOwned
  <2>1. CASE k = n
    <3>1. base'[k] = id /\ end'[k] = stored + idBatch
      BY <2>1, <1>8
    <3>2. \A m \in Nodes \ {k} : end'[m] = end[m] /\ base'[m] = base[m]
      BY <2>1, <1>8
    <3>3. end'[k] <= stored'
      BY <3>1, <1>1, <1>5
    <3>4. \A m \in Nodes \ {k} : end'[m] <= base'[k]
      BY <3>1, <3>2, <1>1, <1>6, <1>10
    <3>5. \A j \in DOMAIN issued : issued[j] <= base'[k]
      BY <3>1, <1>2, <1>6 DEF IdInv, Bounded
    <3>6. QED
      BY <1>7, <3>1, <3>3, <3>4, <3>5, <1>1
  <2>2. CASE k # n
    <3>1. base'[k] = base[k] /\ end'[k] = end[k] /\ base[k] \in Nat /\ end[k] \in Nat /\ end[k] <= stored
      BY <2>2, <1>8, <1>10
    <3>2. end'[k] <= stored'
      BY <3>1, <1>1, <1>5
    <3>3. ASSUME NEW m \in Nodes \ {k}
          PROVE  end'[m] <= base'[k] \/ end'[k] <= base'[m]
                 \/ base'[k] = end'[k] \/ base'[m] = end'[m]
      <4>1. CASE m = n
        BY <4>1, <3>1, <1>1, <1>6, <1>8
      <4>2. CASE m # n
        <5>1. base'[m] = base[m] /\ end'[m] = end[m]
          BY <4>2, <1>8
        <5>2. QED
          BY <5>1, <3>1 DEF IdInv, RangesOwned
      <4>3. QED
        BY <4>1, <4>2
    <3>4. id > end'[k]
      BY <3>1, <1>1, <1>6
    <3>5. \A j \in DOMAIN issued : issued[j] <= base'[k] \/ issued[j] > end'[k]
      BY <3>1 DEF IdInv, RangesOwned
    <3>6. QED
      BY <1>7, <3>2, <3>3, <3>4, <3>5
  <2>3. QED
    BY <2>1, <2>2
<1>13. QED
  BY <1>7, <1>9, <1>11, <1>12 DEF IdInv

\* No step but these two issues an id; the counter only grows.
LEMMA OthersKeep ==
    ASSUME IdInv,
           \/ LeaderChange
           \/ \E n \in Nodes : GetID(n) \/ GenerateFails(n) \/ Restart(n)
    PROVE  IdInv'
<1> USE DEF IdInv, TypeOK
<1>1. \A i \in DOMAIN issued : issued[i] \in Nat
  BY ElementOfSeq, LenProperties
<1>2. \A m \in Nodes : base[m] \in Nat /\ end[m] \in Nat
  OBVIOUS
<1>3. CASE LeaderChange
  BY <1>3 DEF LeaderChange, Bounded, RangesOwned, IdsDistinct
<1>4. ASSUME NEW n \in Nodes, GetID(n) PROVE IdInv'
  BY <1>4 DEF GetID, Bounded, RangesOwned, IdsDistinct
<1>5. ASSUME NEW n \in Nodes, GenerateFails(n) PROVE IdInv'
  <2>1. stored' \in Nat /\ stored' >= stored
    BY <1>5, IdAssumption DEF GenerateFails, txnSucceeds
  <2>2. UNCHANGED <<base, end, issued>> /\ seen' \in [Nodes -> Nat \cup {-1}]
    BY <1>5 DEF GenerateFails
  <2>3. Bounded' /\ RangesOwned'
    BY <1>1, <1>2, <2>1, <2>2 DEF Bounded, RangesOwned
  <2>4. QED
    BY <2>1, <2>2, <2>3 DEF IdsDistinct
<1>6. ASSUME NEW n \in Nodes, Restart(n) PROVE IdInv'
  <2>1. /\ base' = [base EXCEPT ![n] = 0] /\ end' = [end EXCEPT ![n] = 0]
        /\ seen' = [seen EXCEPT ![n] = -1] /\ UNCHANGED <<stored, issued>>
    BY <1>6 DEF Restart
  <2>2. \A m \in Nodes : /\ base'[m] = IF m = n THEN 0 ELSE base[m]
                         /\ end'[m] = IF m = n THEN 0 ELSE end[m]
    BY <2>1
  <2>3. Bounded'
    BY <1>1, <1>2, <2>1, <2>2 DEF Bounded
  <2>4. RangesOwned'
    BY <1>1, <1>2, <2>1, <2>2 DEF RangesOwned
  <2>5. TypeOK' /\ IdsDistinct'
    BY <2>1 DEF IdsDistinct
  <2>6. QED
    BY <2>3, <2>4, <2>5
<1>7. QED
  BY <1>3, <1>4, <1>5, <1>6

\* The invariant holds in every state of the allocator.
LEMMA IdInvariant == Spec => []IdInv
<1>1. IdInv /\ [Next]_vars => IdInv'
  <2> SUFFICES ASSUME IdInv, [Next]_vars PROVE IdInv'
    OBVIOUS
  <2>1. CASE UNCHANGED vars
    BY <2>1 DEF vars, IdInv, TypeOK, Bounded, RangesOwned, IdsDistinct
  <2>2. CASE Next
    BY <2>2, AllocIDKeeps, GenerateKeeps, OthersKeep DEF Next
  <2>3. QED
    BY <2>1, <2>2
<1>2. QED
  BY InitId, <1>1, PTL DEF Spec

\* AllocID never returns the same id twice, for any set of prophet nodes and
\* any batch size, in every order of leader changes, lost answers and restarts.
THEOREM IdsNeverRepeat == Spec => []IdsDistinct
<1>1. IdInv => IdsDistinct
  BY DEF IdInv
<1>2. QED
  BY IdInvariant, <1>1, PTL

\* The ids a node has left in memory stay its own: below the counter, in no
\* other node's range and never returned before, however long the node was not
\* the leader in between.
THEOREM RangesStayOwned == Spec => []RangesOwned
<1>1. IdInv => RangesOwned
  BY DEF IdInv
<1>2. QED
  BY IdInvariant, <1>1, PTL
=============================================================================

--------------------------- MODULE EventBusProofs ---------------------------
(***************************************************************************)
(* Proofs about EventBus for every set of threads, capacity and bound:      *)
(* BusInv is inductive, the safety properties and the refinement of         *)
(* BusLedger follow from it, and so do the order in which a single consumer *)
(* takes events and the refinement of BoundedQueue by a serial client.      *)
(***************************************************************************)
EXTENDS EventBusInvariant, EventBusRefinement, EventBusClaims, FiniteSetTheorems, TLAPS

C == Cardinality(Consumers)
P == Cardinality(Producers)

(* The numbers of threads are natural numbers, and there is a producer.  It *)
(* makes the bounds of event_bus.c:31-55 meaningful.                        *)
LEMMA Counts ==
  /\ C \in Nat
  /\ P \in Nat
  /\ P >= 1
  /\ Capacity \in Nat
  /\ Capacity >= 1
  /\ MaxPublish \in Nat
  /\ WordSize \in Nat
  /\ WordSize >= MaxPublish + C + Capacity
<1>1. C \in Nat /\ P \in Nat
  BY ThreadsAssumption, FS_CardinalityType DEF C, P
<1>2. P # 0
  BY ThreadsAssumption, FS_EmptySet DEF P
<1>3. QED
  BY <1>1, <1>2, WordAssumption DEF C, P

(* A position of the ring is always one of its slots (event_bus.c:38, 52).  *)
LEMMA SlotInRing ==
  ASSUME NEW i \in Nat
  PROVE  Slot(i) \in Slots
BY WordAssumption DEF Slot, Slots

(* Threads in some call, and publishers or consumers of a kind, are finite   *)
(* sets no larger than their role.                                          *)
LEMMA FiniteRoles ==
  ASSUME TypeOK, RoleInv
  PROVE  /\ IsFiniteSet(Admitting) /\ Cardinality(Admitting) \in Nat
         /\ IsFiniteSet(Speculating) /\ Cardinality(Speculating) \in Nat
         /\ Cardinality(Speculating) <= C
         /\ \A k : /\ IsFiniteSet(Undecided(k))
                   /\ Cardinality(Undecided(k)) \in Nat
                   /\ Cardinality(Undecided(k)) <= Cardinality(Speculating)
         /\ \A b : /\ IsFiniteSet(Early(b))
                   /\ Cardinality(Early(b)) \in Nat
                   /\ Cardinality(Early(b)) <= P
<1>1. Admitting \in SUBSET Producers
  BY DEF RoleInv, Admitting, At
<1>2. Speculating \in SUBSET Consumers
  BY DEF RoleInv, Speculating, At
<1>3. \A k : Undecided(k) \in SUBSET Speculating
  BY DEF Undecided, Speculating, At
<1>4. \A b : Early(b) \in SUBSET Producers
  BY DEF RoleInv, Early
<1>5. IsFiniteSet(Admitting) /\ Cardinality(Admitting) \in Nat
  BY <1>1, ThreadsAssumption, FS_Subset, FS_CardinalityType
<1>6. /\ IsFiniteSet(Speculating) /\ Cardinality(Speculating) \in Nat
      /\ Cardinality(Speculating) <= C
  BY <1>2, ThreadsAssumption, FS_Subset, FS_CardinalityType DEF C
<1>7. ASSUME NEW k
      PROVE  /\ IsFiniteSet(Undecided(k))
             /\ Cardinality(Undecided(k)) \in Nat
             /\ Cardinality(Undecided(k)) <= Cardinality(Speculating)
  BY <1>3, <1>6, FS_Subset, FS_CardinalityType
<1>8. ASSUME NEW b
      PROVE  /\ IsFiniteSet(Early(b))
             /\ Cardinality(Early(b)) \in Nat
             /\ Cardinality(Early(b)) <= P
  BY <1>4, ThreadsAssumption, FS_Subset, FS_CardinalityType DEF P
<1>9. QED
  BY <1>5, <1>6, <1>7, <1>8

(* The first state, before event_bus_init, satisfies the invariant.         *)
LEMMA InitInv == Init => BusInv
<1>   SUFFICES ASSUME Init
               PROVE  BusInv
  OBVIOUS
<1>2. TypeOK
  <2>1. Uniform(Zero) \in Structs
    BY SMT DEF Uniform, Structs
  <2>2. ZeroRing \in [Slots -> Structs]
    BY <2>1 DEF ZeroRing
  <2>3. QED
    BY <2>1, <2>2 DEF Init, TypeOK, Labels, Returns
<1>3. /\ Admitting = {}
      /\ Speculating = {}
      /\ \A k : Undecided(k) = {}
      /\ \A b : Early(b) = {}
  BY DEF Init, Admitting, Speculating, Undecided, Early, At
<1>4. Cardinality({}) = 0
  BY FS_EmptySet
<1>5. DownInv /\ RoleInv
  BY DEF Init, DownInv, RoleInv
<1>6. BoundInv /\ TailInv
  BY <1>3, <1>4, Counts DEF Init, BoundInv, TailInv
<1>7. SeenInv /\ AdmitInv
  BY DEF Init, SeenInv, AdmitInv
<1>8. Taken = 0
  BY <1>3, <1>4 DEF Init, Taken
<1>9. TakenInv
  BY <1>3, <1>4, <1>8, Counts DEF TakenInv, Indices, C, Init
<1>10. OverrunInv
  BY <1>3, <1>4, <1>8, Counts DEF OverrunInv, Indices, C, P, Init
<1>11. QED
  BY <1>2, <1>5, <1>6, <1>7, <1>9, <1>10 DEF BusInv

(* event_bus_publish, line 34: the caller joins Admitting with the newest    *)
(* view of g_head, so it is Early for no bound already reached.             *)
LEMMA CallPublishInv ==
  ASSUME BusInv, NEW t \in Producers, NEW e \in Events, CallPublish(t, e)
  PROVE  BusInv' /\ Taken' = Taken
<1> USE DEF BusInv
<1>1. t \in Threads
  BY DEF Threads
<1>2. TypeOK'
  <2>1. Uniform(e) \in Structs
    BY SMT DEF Uniform, Structs
  <2>2. QED
    BY <1>1, <2>1 DEF TypeOK, CallPublish, Labels, Returns
<1>3. /\ Admitting' = Admitting \cup {t} /\ t \notin Admitting
      /\ Speculating' = Speculating
      /\ \A k : Undecided(k)' = Undecided(k)
      /\ \A b \in Indices : head >= b => Early(b)' = Early(b)
  BY <1>1, Counts
     DEF TypeOK, CallPublish, Admitting, Speculating, Undecided, Early, At, Indices, C
<1>4. Cardinality(Admitting') = Cardinality(Admitting) + 1
  BY <1>3, FiniteRoles, FS_AddElement
<1>5. Taken' = Taken
  BY <1>3 DEF CallPublish, Taken
<1>6. DownInv' /\ RoleInv'
  BY <1>1 DEF TypeOK, CallPublish, DownInv, RoleInv
<1>7. BoundInv'
  BY <1>4, FiniteRoles, Counts DEF TypeOK, CallPublish, BoundInv
<1>8. TailInv' /\ SeenInv'
  BY <1>1, <1>3 DEF TypeOK, CallPublish, TailInv, SeenInv
<1>9. AdmitInv'
  BY <1>1, <1>5 DEF TypeOK, CallPublish, AdmitInv
<1>10. TakenInv'
  BY <1>3, <1>5 DEF CallPublish, TakenInv
<1>11. OverrunInv'
  BY <1>3, <1>5 DEF CallPublish, OverrunInv
<1>12. QED
  BY <1>2, <1>5, <1>6, <1>7, <1>8, <1>9, <1>10, <1>11

(* Line 36, the ring looks full: the caller leaves.                         *)
LEMMA RefuseInv ==
  ASSUME BusInv, NEW t \in Producers, Refuse(t)
  PROVE  BusInv' /\ Taken' = Taken
<1> USE DEF BusInv
<1>1. t \in Threads
  BY DEF Threads
<1>2. TypeOK'
  <2>1. Uniform(Zero) \in Structs
    BY SMT DEF Uniform, Structs
  <2>2. QED
    BY <1>1, <2>1 DEF TypeOK, Refuse, Labels, Returns
<1>3. /\ Admitting' = Admitting \ {t} /\ t \in Admitting
      /\ Speculating' = Speculating
      /\ \A k : Undecided(k)' = Undecided(k)
      /\ \A b : Early(b)' \in SUBSET Early(b)
  BY <1>1 DEF TypeOK, Refuse, Admitting, Speculating, Undecided, Early, At
<1>4. Cardinality(Admitting') = Cardinality(Admitting) - 1
  BY <1>3, FiniteRoles, FS_RemoveElement
<1>5. Taken' = Taken
  BY <1>3 DEF Refuse, Taken
<1>6. DownInv' /\ RoleInv'
  BY <1>1 DEF TypeOK, Refuse, DownInv, RoleInv
<1>7. BoundInv'
  BY <1>4, FiniteRoles, Counts DEF TypeOK, Refuse, BoundInv
<1>8. TailInv' /\ SeenInv'
  BY <1>1, <1>3 DEF TypeOK, Refuse, TailInv, SeenInv
<1>9. AdmitInv'
  BY <1>1, <1>5 DEF TypeOK, Refuse, AdmitInv
<1>10. TakenInv'
  BY <1>3, <1>5 DEF Refuse, TakenInv
<1>11. OverrunInv'
  <2>1. ASSUME NEW b \in Indices
        PROVE  Cardinality(Early(b)') <= Cardinality(Early(b)) /\ Cardinality(Early(b)') \in Nat
    BY <1>3, FiniteRoles, FS_Subset, FS_CardinalityType
  <2>2. Taken \in Int
    BY FiniteRoles DEF TypeOK, Taken
  <2>3. QED
    BY <1>5, <2>1, <2>2, FiniteRoles, Counts DEF TypeOK, Refuse, OverrunInv, Indices, C, P
<1>12. QED
  BY <1>2, <1>5, <1>6, <1>7, <1>8, <1>9, <1>10, <1>11

(* Line 36, there is room: g_tail exceeds what was taken by one for each     *)
(* consumer at most, so the room was inflated by that much at most.         *)
LEMMA AdmitStepInv ==
  ASSUME BusInv, NEW t \in Producers, Admit(t)
  PROVE  BusInv' /\ Taken' = Taken
<1> USE DEF BusInv
<1>1. t \in Threads
  BY DEF Threads
<1>2. TypeOK'
  BY <1>1 DEF TypeOK, Admit, Labels
<1>3. /\ Admitting' = Admitting
      /\ t \in Admitting
      /\ Speculating' = Speculating
      /\ \A k : Undecided(k)' = Undecided(k)
      /\ \A b : Early(b)' = Early(b)
  BY <1>1 DEF TypeOK, Admit, Admitting, Speculating, Undecided, Early, At
<1>4. Taken' = Taken
  BY <1>3 DEF Admit, Taken
<1>5. DownInv' /\ RoleInv'
  BY <1>1 DEF TypeOK, Admit, DownInv, RoleInv
<1>6. BoundInv' /\ TailInv' /\ SeenInv'
  BY <1>1, <1>3 DEF TypeOK, Admit, BoundInv, TailInv, SeenInv
<1>7. AdmitInv'
  <2>1. /\ reg[t] \in Nat /\ reg[t] <= head /\ head <= MaxPublish
        /\ head \in Nat /\ tail \in Nat
    BY <1>1, FiniteRoles, Counts DEF TypeOK, SeenInv, BoundInv, Admit
  <2>2. tail <= Taken + C
    BY FiniteRoles, Counts DEF TypeOK, Taken
  <2>3. reg[t] < tail + Capacity
    BY <2>1, Counts DEF Admit, USub
  <2>4. reg[t] < Taken + C + Capacity
    BY <2>1, <2>2, <2>3, FiniteRoles, Counts DEF Taken
  <2>5. QED
    BY <1>1, <1>4, <2>4 DEF TypeOK, Admit, AdmitInv, C
<1>8. TakenInv'
  BY <1>3, <1>4 DEF Admit, TakenInv
<1>9. OverrunInv'
  BY <1>3, <1>4 DEF Admit, OverrunInv
<1>10. QED
  BY <1>2, <1>4, <1>5, <1>6, <1>7, <1>8, <1>9

(* Lines 37-38: the claim moves g_head, and the caller leaves Early(b) for   *)
(* every bound b that this claim or an earlier one reached.                 *)
LEMMA ClaimInv ==
  ASSUME BusInv, NEW t \in Producers, Claim(t)
  PROVE  BusInv' /\ Taken' = Taken
<1> USE DEF BusInv
<1>1. t \in Threads
  BY DEF Threads
<1>2. TypeOK'
  BY <1>1 DEF TypeOK, Claim, Labels
<1>3. /\ Admitting' = Admitting \ {t} /\ t \in Admitting
      /\ Speculating' = Speculating
      /\ \A k : Undecided(k)' = Undecided(k)
      /\ \A b : Early(b)' = Early(b) \ {t}
      /\ \A b : reg[t] < b => t \in Early(b)
  BY <1>1 DEF TypeOK, Claim, Admitting, Speculating, Undecided, Early, At
<1>4. Cardinality(Admitting') = Cardinality(Admitting) - 1
  BY <1>3, FiniteRoles, FS_RemoveElement
<1>5. Taken' = Taken /\ Taken \in Int
  BY <1>3, FiniteRoles DEF TypeOK, Claim, Taken
<1>6. DownInv' /\ RoleInv'
  BY <1>1 DEF TypeOK, Claim, DownInv, RoleInv
<1>7. BoundInv'
  BY <1>4, FiniteRoles, Counts DEF TypeOK, Claim, BoundInv
<1>8. TailInv' /\ SeenInv'
  BY <1>1, <1>3 DEF TypeOK, Claim, TailInv, SeenInv, Admitting, At
<1>9. AdmitInv'
  BY <1>1, <1>5 DEF TypeOK, Claim, AdmitInv
<1>10. TakenInv'
  BY <1>3, <1>5, Counts DEF TypeOK, Claim, TakenInv, Indices, C
<1>11. OverrunInv'
  <2>1. SUFFICES ASSUME NEW b \in Indices,
                        b >= Taken + C + Capacity,
                        head + 1 >= b
                 PROVE  head + 1 + Cardinality(Early(b)') <= b + P - 1
    BY <1>5 DEF OverrunInv, Claim, C, P
  <2>2. b \in Nat /\ head \in Nat /\ reg[t] \in Nat
    BY <1>1, Counts DEF Indices, TypeOK, C
  <2>3. reg[t] < b
    BY <1>1, <1>5, <2>1, <2>2, Counts DEF AdmitInv, Claim, C
  <2>4. Cardinality(Early(b)') = Cardinality(Early(b)) - 1
    BY <1>3, <2>3, FiniteRoles, FS_RemoveElement
  <2>5. CASE head >= b
    BY <2>1, <2>2, <2>4, <2>5, FiniteRoles, Counts DEF OverrunInv, C, P
  <2>6. CASE head + 1 = b
    BY <2>2, <2>4, <2>6, FiniteRoles, Counts
  <2>7. QED
    BY <2>1, <2>2, <2>5, <2>6
<1>12. QED
  BY <1>2, <1>5, <1>6, <1>7, <1>8, <1>9, <1>10, <1>11

(* Line 46: the consumer's unit in g_tail is covered by its own membership   *)
(* in Speculating.                                                          *)
LEMMA CallConsumeInv ==
  ASSUME BusInv, NEW t \in Consumers, CallConsume(t)
  PROVE  BusInv' /\ Taken' = Taken
<1> USE DEF BusInv
<1>1. t \in Threads
  BY DEF Threads
<1>2. TypeOK'
  <2>1. Uniform(Zero) \in Structs
    BY SMT DEF Uniform, Structs
  <2>2. QED
    BY <1>1, <2>1 DEF TypeOK, CallConsume, Labels, Returns
<1>3. /\ Admitting' = Admitting
      /\ Speculating' = Speculating \cup {t} /\ t \notin Speculating
      /\ \A k \in Indices :
           Undecided(k)' = IF tail < k THEN Undecided(k) \cup {t} ELSE Undecided(k)
      /\ \A k : t \notin Undecided(k)
      /\ \A b : Early(b)' = Early(b)
  BY <1>1 DEF TypeOK, CallConsume, Admitting, Speculating, Undecided, Early, At
<1>4. Cardinality(Speculating') = Cardinality(Speculating) + 1
  BY <1>3, FiniteRoles, FS_AddElement
<1>5. Taken' = Taken /\ Taken \in Int
  BY <1>4, FiniteRoles DEF TypeOK, CallConsume, Taken
<1>6. DownInv' /\ RoleInv'
  BY <1>1 DEF TypeOK, CallConsume, DownInv, RoleInv
<1>7. BoundInv' /\ SeenInv'
  BY <1>1, <1>3 DEF TypeOK, CallConsume, BoundInv, SeenInv, Admitting, At
<1>8. TailInv'
  BY <1>4, FiniteRoles DEF TypeOK, CallConsume, TailInv
<1>9. AdmitInv'
  BY <1>1, <1>5 DEF TypeOK, CallConsume, AdmitInv
<1>10. TakenInv'
  <2>1. SUFFICES ASSUME NEW k \in Indices, k >= head
                 PROVE  Taken + Cardinality(Undecided(k)') <= k
    BY <1>5 DEF TakenInv, CallConsume
  <2>2. k \in Nat
    BY Counts DEF Indices, C
  <2>3. CASE tail < k
    <3>1. Cardinality(Undecided(k)') = Cardinality(Undecided(k)) + 1
      BY <1>3, <2>3, FiniteRoles, FS_AddElement
    <3>2. Taken + Cardinality(Undecided(k)) <= tail
      BY FiniteRoles DEF Taken, TypeOK
    <3>3. QED
      BY <1>5, <2>2, <2>3, <3>1, <3>2, FiniteRoles DEF TypeOK
  <2>4. CASE ~(tail < k)
    BY <1>3, <2>1, <2>4 DEF TakenInv
  <2>5. QED
    BY <2>3, <2>4
<1>11. OverrunInv'
  BY <1>3, <1>5 DEF CallConsume, OverrunInv
<1>12. QED
  BY <1>2, <1>5, <1>6, <1>7, <1>8, <1>9, <1>10, <1>11

(* Lines 47-48, no event: the increment stays to be taken back.             *)
LEMMA MissInv ==
  ASSUME BusInv, NEW t \in Consumers, Miss(t)
  PROVE  BusInv' /\ Taken' = Taken
<1> USE DEF BusInv
<1>1. t \in Threads
  BY DEF Threads
<1>2. TypeOK'
  BY <1>1 DEF TypeOK, Miss, Labels
<1>3. /\ Admitting' = Admitting
      /\ Speculating' = Speculating
      /\ \A k : Undecided(k)' \in SUBSET Undecided(k)
      /\ \A b : Early(b)' = Early(b)
  BY <1>1 DEF TypeOK, Miss, Admitting, Speculating, Undecided, Early, At
<1>4. Taken' = Taken /\ Taken \in Int
  BY <1>3, FiniteRoles DEF TypeOK, Miss, Taken
<1>5. DownInv' /\ RoleInv'
  BY <1>1 DEF TypeOK, Miss, DownInv, RoleInv
<1>6. BoundInv' /\ SeenInv' /\ TailInv'
  BY <1>1, <1>3 DEF TypeOK, Miss, BoundInv, SeenInv, TailInv, Admitting, At
<1>7. AdmitInv'
  BY <1>1, <1>4 DEF TypeOK, Miss, AdmitInv
<1>8. TakenInv'
  <2>1. ASSUME NEW k \in Indices
        PROVE  /\ Cardinality(Undecided(k)') \in Nat
               /\ Cardinality(Undecided(k)') <= Cardinality(Undecided(k))
    BY <1>3, FiniteRoles, FS_Subset, FS_CardinalityType
  <2>2. QED
    BY <1>4, <2>1, FiniteRoles, Counts DEF Miss, TakenInv, Indices, C
<1>9. OverrunInv'
  BY <1>3, <1>4 DEF Miss, OverrunInv
<1>10. QED
  BY <1>2, <1>4, <1>5, <1>6, <1>7, <1>8, <1>9

(* Lines 49-50: g_tail covers the unit that is taken back.                  *)
LEMMA UndoInv ==
  ASSUME BusInv, NEW t \in Consumers, Undo(t)
  PROVE  BusInv' /\ Taken' = Taken
<1> USE DEF BusInv
<1>1. t \in Threads
  BY DEF Threads
<1>2. /\ Admitting' = Admitting
      /\ Speculating' = Speculating \ {t} /\ t \in Speculating
      /\ \A k : Undecided(k)' = Undecided(k)
      /\ \A b : Early(b)' = Early(b)
  BY <1>1 DEF TypeOK, Undo, Admitting, Speculating, Undecided, Early, At
<1>3. Cardinality(Speculating') = Cardinality(Speculating) - 1
  BY <1>2, FiniteRoles, FS_RemoveElement
<1>4. Cardinality(Speculating) >= 1
  BY <1>2, FiniteRoles, FS_EmptySet
<1>5. TypeOK'
  <2>1. tail - 1 \in Nat
    BY <1>4, FiniteRoles DEF TypeOK, TailInv
  <2>2. QED
    BY <1>1, <2>1 DEF TypeOK, Undo, Labels, Returns
<1>6. Taken' = Taken
  BY <1>3, FiniteRoles DEF TypeOK, Undo, Taken
<1>7. DownInv' /\ RoleInv'
  BY <1>1 DEF TypeOK, Undo, DownInv, RoleInv
<1>8. BoundInv' /\ SeenInv'
  BY <1>1, <1>2 DEF TypeOK, Undo, BoundInv, SeenInv, Admitting, At
<1>9. TailInv'
  BY <1>3, FiniteRoles DEF TypeOK, Undo, TailInv
<1>10. AdmitInv'
  BY <1>1, <1>6 DEF TypeOK, Undo, AdmitInv
<1>11. TakenInv' /\ OverrunInv'
  BY <1>2, <1>6 DEF Undo, TakenInv, OverrunInv
<1>12. QED
  BY <1>6, <1>5, <1>7, <1>8, <1>9, <1>10, <1>11

(* Lines 47-48 and 52: the claim is below g_head, so it was counted among    *)
(* the undecided ones below every index not yet published.                  *)
LEMMA TakeInv ==
  ASSUME BusInv, NEW t \in Consumers, Take(t)
  PROVE  BusInv' /\ Taken' = Taken + 1
<1> USE DEF BusInv
<1>1. t \in Threads
  BY DEF Threads
<1>2. TypeOK'
  BY <1>1 DEF TypeOK, Take, Labels
<1>3. /\ Admitting' = Admitting
      /\ Speculating' = Speculating \ {t} /\ t \in Speculating
      /\ \A k \in Indices : k >= head => /\ Undecided(k)' = Undecided(k) \ {t}
                                         /\ t \in Undecided(k)
      /\ \A b : Early(b)' = Early(b)
  BY <1>1, Counts
     DEF TypeOK, Take, Admitting, Speculating, Undecided, Early, At, Indices, C
<1>4. Cardinality(Speculating') = Cardinality(Speculating) - 1
  BY <1>3, FiniteRoles, FS_RemoveElement
<1>5. Taken' = Taken + 1 /\ Taken \in Int
  BY <1>4, FiniteRoles DEF TypeOK, Take, Taken
<1>6. DownInv' /\ RoleInv'
  BY <1>1 DEF TypeOK, Take, DownInv, RoleInv
<1>7. BoundInv' /\ SeenInv'
  BY <1>1, <1>3 DEF TypeOK, Take, BoundInv, SeenInv, Admitting, At
<1>8. TailInv'
  BY <1>4, FiniteRoles DEF TypeOK, Take, TailInv
<1>9. AdmitInv'
  BY <1>1, <1>5, Counts DEF TypeOK, Take, AdmitInv, C
<1>10. TakenInv'
  <2>1. ASSUME NEW k \in Indices, k >= head
        PROVE  Cardinality(Undecided(k)') = Cardinality(Undecided(k)) - 1
    BY <1>3, <2>1, FiniteRoles, FS_RemoveElement
  <2>2. QED
    BY <1>5, <2>1, FiniteRoles, Counts DEF Take, TakenInv, Indices, C
<1>11. OverrunInv'
  BY <1>3, <1>5, Counts DEF Take, OverrunInv, Indices, C
<1>12. QED
  BY <1>2, <1>5, <1>6, <1>7, <1>8, <1>9, <1>10, <1>11

(* A step that moves neither counter and none of the threads that compete    *)
(* for indices keeps the account: the copies of lines 39 and 53, a call on a *)
(* closed bus, a count, and the shutdown of an idle one.                    *)
LEMMA FrameInv ==
  ASSUME BusInv, TypeOK', DownInv', RoleInv', SeenInv', head' = head, tail' = tail,
         \A u \in Threads :
           pc[u] \in {"loadTail", "claim", "loadHead", "undo"}
             \/ pc'[u] \in {"loadTail", "claim", "loadHead", "undo"}
           => pc'[u] = pc[u] /\ reg'[u] = reg[u]
  PROVE  BusInv' /\ Taken' = Taken
<1> USE DEF BusInv
<1>1. /\ Admitting' = Admitting
      /\ Speculating' = Speculating
      /\ \A k : Undecided(k)' = Undecided(k)
      /\ \A b : Early(b)' = Early(b)
  BY DEF Admitting, Speculating, Undecided, Early, At
<1>2. Taken' = Taken
  BY <1>1 DEF Taken
<1>3. BoundInv' /\ TailInv'
  BY <1>1 DEF BoundInv, TailInv
<1>4. AdmitInv'
  BY <1>2 DEF AdmitInv
<1>5. TakenInv' /\ OverrunInv'
  BY <1>1, <1>2 DEF TakenInv, OverrunInv
<1>6. QED
  BY <1>2, <1>3, <1>4, <1>5

(* event_bus_init starts from a bus that no thread is in.                   *)
LEMMA BusInitInv ==
  ASSUME BusInv, BusInit
  PROVE  BusInv' /\ Taken' = 0
<1> USE DEF BusInv
<1>1. TypeOK'
  <2>1. Uniform(Zero) \in Structs
    BY SMT DEF Uniform, Structs
  <2>2. ZeroRing \in [Slots -> Structs]
    BY <2>1 DEF ZeroRing
  <2>3. QED
    BY <2>2 DEF TypeOK, BusInit
<1>2. \A u \in Threads : pc[u] = "idle" /\ pc'[u] = "idle"
  BY DEF TypeOK, BusInit, At
<1>3. /\ Admitting' = {}
      /\ Speculating' = {}
      /\ \A k : Undecided(k)' = {}
      /\ \A b : Early(b)' = {}
  BY <1>2 DEF Admitting, Speculating, Undecided, Early, At
<1>4. Cardinality({}) = 0
  BY FS_EmptySet
<1>5. DownInv' /\ RoleInv'
  BY <1>2 DEF DownInv, RoleInv
<1>6. BoundInv' /\ TailInv'
  BY <1>3, <1>4, Counts DEF BusInit, BoundInv, TailInv
<1>7. SeenInv' /\ AdmitInv'
  BY <1>2 DEF SeenInv, AdmitInv
<1>8. Taken' = 0
  BY <1>3, <1>4 DEF BusInit, Taken
<1>9. TakenInv'
  BY <1>3, <1>4, <1>8, Counts DEF BusInit, TakenInv, Indices, C
<1>10. OverrunInv'
  BY <1>3, <1>4, <1>8, Counts DEF BusInit, OverrunInv, Indices, C, P
<1>11. QED
  BY <1>1, <1>5, <1>6, <1>7, <1>8, <1>9, <1>10

(* event_bus_shutdown finds no thread inside a call.                        *)
LEMMA BusShutdownInv ==
  ASSUME BusInv, BusShutdown
  PROVE  BusInv' /\ Taken' = Taken
<1> USE DEF BusInv
<1>1. TypeOK'
  <2>1. Uniform(Zero) \in Structs
    BY SMT DEF Uniform, Structs
  <2>2. ZeroRing \in [Slots -> Structs]
    BY <2>1 DEF ZeroRing
  <2>3. QED
    BY <2>2 DEF TypeOK, BusShutdown
<1>2. DownInv' /\ RoleInv' /\ SeenInv'
  BY DEF TypeOK, BusShutdown, DownInv, RoleInv, SeenInv, At
<1>3. QED
  BY <1>1, <1>2, FrameInv DEF BusShutdown

(* Lines 33 and 45: a call on a closed bus returns at once.                 *)
LEMMA CallClosedInv ==
  ASSUME BusInv, NEW t \in Threads, CallClosed(t)
  PROVE  BusInv' /\ Taken' = Taken
<1> USE DEF BusInv
<1>1. TypeOK'
  BY DEF TypeOK, CallClosed, Returns
<1>2. DownInv' /\ RoleInv' /\ SeenInv'
  BY DEF CallClosed, DownInv, RoleInv, SeenInv
<1>3. QED
  BY <1>1, <1>2, FrameInv DEF CallClosed

(* No index at or above g_head has been taken: TakenInv at g_head itself.    *)
LEMMA TakenFromInv ==
  ASSUME BusInv
  PROVE  Taken \in Nat /\ Taken <= head
<1>1. head \in Indices
  BY FiniteRoles, Counts DEF BusInv, TypeOK, BoundInv, Indices, C
<1>2. Taken + Cardinality(Undecided(head)) <= head
  BY <1>1 DEF BusInv, TakenInv, TypeOK
<1>3. QED
  BY <1>2, FiniteRoles DEF BusInv, TypeOK, TailInv, Taken

(* event_bus_pending, line 59: the caller competes for no index.             *)
LEMMA CallPendingInv ==
  ASSUME BusInv, NEW t \in Observers, CallPending(t)
  PROVE  BusInv' /\ Taken' = Taken
<1> USE DEF BusInv
<1>1. t \in Threads
  BY DEF Threads
<1>2. TypeOK'
  <2>1. Uniform(Zero) \in Structs
    BY SMT DEF Uniform, Structs
  <2>2. QED
    BY <1>1, <2>1 DEF TypeOK, CallPending, Labels, Returns
<1>3. DownInv' /\ RoleInv' /\ SeenInv'
  BY <1>1 DEF TypeOK, CallPending, DownInv, RoleInv, SeenInv
<1>4. \A u \in Threads : u # t => pc'[u] = pc[u] /\ reg'[u] = reg[u]
  BY <1>1 DEF TypeOK, CallPending
<1>5. pc[t] = "idle" /\ pc'[t] = "countTail"
  BY <1>1 DEF TypeOK, CallPending
<1>6. QED
  BY <1>2, <1>3, <1>4, <1>5, FrameInv DEF CallPending

(* Line 60: g_tail is ahead of the loaded g_head by the consumers at most,   *)
(* so the difference of the two is a size_t.                                *)
LEMMA AnswerInv ==
  ASSUME BusInv, NEW t \in Observers, Answer(t)
  PROVE  BusInv' /\ Taken' = Taken
<1> USE DEF BusInv
<1>1. t \in Threads
  BY DEF Threads
<1>2. TypeOK'
  <2>1. reg[t] \in Nat /\ head \in Nat /\ tail \in Nat
    BY <1>1 DEF TypeOK
  <2>2. tail <= WordSize
    <3>1. head <= MaxPublish
      BY <2>1, FiniteRoles, Counts DEF BoundInv
    <3>2. Taken <= head /\ Taken = tail - Cardinality(Speculating)
      BY TakenFromInv DEF Taken
    <3>3. QED
      BY <2>1, <3>1, <3>2, FiniteRoles, Counts
  <2>3. USub(reg[t], tail) \in Nat
    BY <2>1, <2>2, Counts DEF USub
  <2>4. QED
    BY <1>1, <2>3 DEF TypeOK, Answer, Labels, Returns
<1>3. DownInv' /\ RoleInv' /\ SeenInv'
  BY <1>1 DEF TypeOK, Answer, DownInv, RoleInv, SeenInv
<1>4. \A u \in Threads : u # t => pc'[u] = pc[u] /\ reg'[u] = reg[u]
  BY <1>1 DEF TypeOK, Answer
<1>5. pc[t] = "countTail" /\ pc'[t] = "idle"
  BY <1>1 DEF TypeOK, Answer
<1>6. QED
  BY <1>2, <1>3, <1>4, <1>5, FrameInv DEF Answer

(* Line 39: a part of the copy into the slot.                               *)
LEMMA CopyInInv ==
  ASSUME BusInv, NEW t \in Producers, NEW f \in Fields, CopyIn(t, f)
  PROVE  BusInv' /\ Taken' = Taken
<1> USE DEF BusInv
<1>1. t \in Threads
  BY DEF Threads
<1>2. TypeOK'
  <2>1. Uniform(Zero) \in Structs
    BY SMT DEF Uniform, Structs
  <2>2. Slot(reg[t]) \in Slots
    BY <1>1, SlotInRing DEF TypeOK
  <2>3. ring' \in [Slots -> Structs]
    BY <1>1, <2>2 DEF TypeOK, CopyIn, Structs
  <2>4. QED
    BY <1>1, <2>1, <2>3 DEF TypeOK, CopyIn, Labels, Returns
<1>3. DownInv' /\ RoleInv' /\ SeenInv'
  BY <1>1 DEF TypeOK, CopyIn, DownInv, RoleInv, SeenInv
<1>4. \A u \in Threads : u # t => pc'[u] = pc[u] /\ reg'[u] = reg[u]
  BY <1>1 DEF TypeOK, CopyIn
<1>5. pc[t] = "copyIn" /\ pc'[t] \in {"copyIn", "idle"}
  BY <1>1 DEF TypeOK, CopyIn
<1>6. QED
  BY <1>2, <1>3, <1>4, <1>5, FrameInv DEF CopyIn

(* Line 53: a part of the copy out of the slot.                             *)
LEMMA CopyOutInv ==
  ASSUME BusInv, NEW t \in Consumers, NEW f \in Fields, CopyOut(t, f)
  PROVE  BusInv' /\ Taken' = Taken
<1> USE DEF BusInv
<1>1. t \in Threads
  BY DEF Threads
<1>2. TypeOK'
  <2>1. Slot(reg[t]) \in Slots
    BY <1>1, SlotInRing DEF TypeOK
  <2>2. ring[Slot(reg[t])][f] \in Events \cup {Zero}
    BY <2>1 DEF TypeOK, Structs
  <2>3. buf' \in [Threads -> Structs]
    BY <1>1, <2>2 DEF TypeOK, CopyOut, Structs
  <2>4. QED
    BY <1>1, <2>3 DEF TypeOK, CopyOut, Labels, Returns
<1>3. DownInv' /\ RoleInv' /\ SeenInv'
  BY <1>1 DEF TypeOK, CopyOut, DownInv, RoleInv, SeenInv
<1>4. \A u \in Threads : u # t => pc'[u] = pc[u] /\ reg'[u] = reg[u]
  BY <1>1 DEF TypeOK, CopyOut
<1>5. pc[t] = "copyOut" /\ pc'[t] \in {"copyOut", "idle"}
  BY <1>1 DEF TypeOK, CopyOut
<1>6. QED
  BY <1>2, <1>3, <1>4, <1>5, FrameInv DEF CopyOut

(* BusInv is inductive over every step of event_bus.c.                      *)
LEMMA StepInv == BusInv /\ [Next]_vars => BusInv'
<1> SUFFICES ASSUME BusInv, [Next]_vars
             PROVE  BusInv'
  OBVIOUS
<1>1. CASE BusInit
  BY <1>1, BusInitInv
<1>2. CASE BusShutdown
  BY <1>2, BusShutdownInv
<1>3. CASE \E t \in Threads : CallClosed(t)
  BY <1>3, CallClosedInv
<1>4. CASE \E t \in Producers : \E e \in Events : CallPublish(t, e)
  BY <1>4, CallPublishInv
<1>5. CASE \E t \in Producers : PublishStep(t)
  BY <1>5, RefuseInv, AdmitStepInv, ClaimInv, CopyInInv DEF PublishStep
<1>6. CASE \E t \in Consumers : CallConsume(t)
  BY <1>6, CallConsumeInv
<1>7. CASE \E t \in Consumers : ConsumeStep(t)
  BY <1>7, MissInv, UndoInv, TakeInv, CopyOutInv DEF ConsumeStep
<1>8. CASE \E t \in Observers : CallPending(t)
  BY <1>8, CallPendingInv
<1>9. CASE \E t \in Observers : Answer(t)
  BY <1>9, AnswerInv
<1>10. CASE UNCHANGED vars
  <2>1. TypeOK' /\ DownInv' /\ RoleInv' /\ SeenInv'
    BY <1>10 DEF vars, BusInv, TypeOK, DownInv, RoleInv, SeenInv
  <2>2. QED
    BY <1>10, <2>1, FrameInv DEF vars
<1>11. QED
  BY <1>1, <1>2, <1>3, <1>4, <1>5, <1>6, <1>7, <1>8, <1>9, <1>10 DEF Next

(* The invariant of event_bus.c:31-62 holds of any number of racing threads. *)
THEOREM BusInvariant == Spec => []BusInv
BY InitInv, StepInv, PTL DEF Spec

(* Every variable of the bus keeps its type; g_tail never passes below zero  *)
(* (event_bus.c:49).                                                        *)
THEOREM TypeCorrect == Spec => []TypeOK
<1>1. BusInv => TypeOK
  BY DEF BusInv
<1>2. QED
  BY <1>1, BusInvariant, PTL

(* Consumers obtain no more events than were published, although two of them *)
(* may be handed the same one (event_bus.c:46-52).                          *)
THEOREM NoMoreTakenThanPublished == Spec => []TakenAtMostPublished
BY TakenFromInv, BusInvariant, PTL DEF TakenAtMostPublished

(* With b the bound that no fresh check passes, OverrunInv limits g_head.   *)
LEMMA OverrunFromInv == BusInv => OverrunBounded
<1> SUFFICES ASSUME BusInv, head - Taken > Capacity + Overrun
             PROVE  FALSE
  BY FiniteRoles, Counts DEF BusInv, TypeOK, OverrunBounded, Overrun, Taken, C, P
<1>1. /\ head \in Nat /\ Taken \in Int /\ head <= MaxPublish
      /\ head - Taken > Capacity + P - 1 + C
  BY FiniteRoles, Counts DEF BusInv, TypeOK, Taken, BoundInv, Overrun, C, P
<1>2. Taken >= 0
  BY FiniteRoles DEF BusInv, TypeOK, Taken, TailInv
<1>3. PICK b \in Indices : b = Taken + C + Capacity /\ b <= head
  BY <1>1, <1>2, Counts DEF Indices, C
<1>4. head + Cardinality(Early(b)) <= b + P - 1
  BY <1>1, <1>3 DEF BusInv, OverrunInv, C, P
<1>5. Cardinality(Early(b)) \in Nat
  BY FiniteRoles DEF BusInv
<1>6. QED
  BY <1>1, <1>3, <1>4, <1>5, Counts

(* The ring is overrun by no more than Overrun events, whatever the threads  *)
(* were doing when it filled up (event_bus.c:34-37).                        *)
THEOREM OverrunIsBounded == Spec => []OverrunBounded
BY OverrunFromInv, BusInvariant, PTL

(* The answer of event_bus_pending, whose two loads are apart, misses what   *)
(* was published between them and the consumers' increments, and nothing    *)
(* else: it never counts an event that is gone, and wraps around zero only   *)
(* when it misses more than is left (event_bus.c:57-62).                    *)
THEOREM PendingAccounted == Spec => PendingAnswered
<1>1. ASSUME BusInv, NEW t \in Observers, Answer(t)
      PROVE  LET left == head - Taken
                 missed == head - reg[t] + Cardinality(Speculating)
             IN  /\ left >= 0 /\ missed >= 0
                 /\ missed <= left => reg'[t] = left - missed
                 /\ missed > left => reg'[t] = WordSize - (missed - left)
  <2>1. t \in Threads
    BY DEF Threads
  <2>2. /\ head \in Nat /\ tail \in Nat /\ reg[t] \in Nat /\ reg[t] <= head
        /\ reg'[t] = USub(reg[t], tail)
    BY <1>1, <2>1 DEF BusInv, TypeOK, SeenInv, Answer
  <2>3. /\ Taken <= head /\ tail = Taken + Cardinality(Speculating)
        /\ Taken \in Nat /\ Cardinality(Speculating) \in Nat
    BY <1>1, <2>2, TakenFromInv, FiniteRoles DEF BusInv, Taken
  <2> HIDE DEF Taken
  <2>4. QED
    BY <2>2, <2>3, Counts DEF USub
<1>2. BusInv /\ [Next]_vars =>
        [\A t \in Observers : Answer(t) =>
           LET left == head - Taken
               missed == head - reg[t] + Cardinality(Speculating)
           IN  /\ left >= 0 /\ missed >= 0
               /\ missed <= left => reg'[t] = left - missed
               /\ missed > left => reg'[t] = WordSize - (missed - left)]_vars
  BY <1>1
<1>3. QED
  BY <1>2, BusInvariant, PTL DEF Spec, PendingAnswered

(* A refused publish (event_bus.c:36) is accounted for: with nobody between  *)
(* two accesses the ring does hold its capacity.                            *)
THEOREM RefusalsHaveCause == Spec => RefusedForCause
<1>1. ASSUME BusInv, NEW t \in Producers, Refuse(t), Speculating = {}, head <= reg[t]
      PROVE  head - Taken >= Capacity
  <2>1. t \in Threads
    BY DEF Threads
  <2>2. /\ head \in Nat /\ tail \in Nat /\ reg[t] = head
        /\ USub(reg[t], tail) >= Capacity
    BY <1>1, <2>1 DEF BusInv, TypeOK, SeenInv, Refuse
  <2>3. Taken = tail
    BY <1>1, <2>2, FS_EmptySet DEF Taken
  <2>4. tail <= head
    BY <1>1, <2>3, TakenFromInv
  <2>5. QED
    BY <2>2, <2>3, <2>4 DEF USub
<1>2. BusInv => head \in Nat /\ \A t \in Producers : reg[t] \in Nat
  BY DEF BusInv, TypeOK, Threads
<1>3. BusInv /\ [Next]_vars =>
        [\A t \in Producers : Refuse(t) =>
           head - Taken >= Capacity \/ Speculating # {} \/ head > reg[t]]_vars
  BY <1>1, <1>2
<1>4. QED
  BY <1>3, BusInvariant, PTL DEF Spec, RefusedForCause

(* The bus keeps the account of BusLedger: claiming an index (line 37) is    *)
(* the only publish, passing the check of line 48 the only take, and every   *)
(* other step of the racing threads leaves the account alone.               *)
THEOREM LedgerImplemented == Spec => LedgerSpec
<1> DEFINE Inv == BusInv /\ TakenAtMostPublished /\ OverrunBounded
<1>1. Init => Ledger!Init
  <2> SUFFICES ASSUME Init
               PROVE  Taken = 0
    BY DEF Init, Ledger!Init
  <2>1. Speculating = {}
    BY DEF Init, Speculating, At
  <2>2. QED
    BY <2>1, FS_EmptySet DEF Init, Taken
<1>2. Inv /\ Inv' /\ [Next]_vars => [Ledger!Next]_Ledger!vars
  <2> SUFFICES ASSUME Inv, Inv', [Next]_vars
               PROVE  [Ledger!Next]_Ledger!vars
    OBVIOUS
  <2> USE DEF Ledger!Next, Ledger!vars
  <2>1. CASE BusInit
    BY <2>1, BusInitInv DEF BusInit, Ledger!Open
  <2>2. CASE BusShutdown
    BY <2>2, BusShutdownInv DEF BusShutdown, Ledger!Close
  <2>3. CASE \E t \in Threads : CallClosed(t)
    BY <2>3, CallClosedInv DEF CallClosed
  <2>4. CASE \E t \in Producers : \E e \in Events : CallPublish(t, e)
    BY <2>4, CallPublishInv DEF CallPublish
  <2>5. ASSUME NEW t \in Producers, PublishStep(t)
        PROVE  [Ledger!Next]_Ledger!vars
    <3>1. CASE Refuse(t)
      BY <3>1, RefuseInv DEF Refuse
    <3>2. CASE Admit(t)
      BY <3>2, AdmitStepInv DEF Admit
    <3>3. CASE Claim(t)
      <4>1. alive
        BY <3>3 DEF Claim, BusInv, DownInv, Threads
      <4>2. head' = head + 1 /\ Taken' = Taken /\ alive' = alive
        BY <3>3, ClaimInv DEF Claim
      <4>3. /\ head \in Int /\ Taken \in Int
            /\ Capacity + Overrun \in Int
        BY FiniteRoles, Counts DEF BusInv, TypeOK, Taken, Overrun, C, P
      <4>4. head + 1 - Taken <= Capacity + Overrun
        <5>1. head' - Taken' <= Capacity + Overrun
          BY DEF OverrunBounded, Overrun
        <5>2. QED
          BY <4>2, <4>3, <5>1
      <4>5. Ledger!Publish
        BY <4>1, <4>2, <4>3, <4>4 DEF Ledger!Publish
      <4>6. QED
        BY <4>5
    <3>4. CASE \E f \in Fields : CopyIn(t, f)
      BY <3>4, CopyInInv DEF CopyIn
    <3>5. QED
      BY <2>5, <3>1, <3>2, <3>3, <3>4 DEF PublishStep
  <2>6. CASE \E t \in Consumers : CallConsume(t)
    BY <2>6, CallConsumeInv DEF CallConsume
  <2>7. ASSUME NEW t \in Consumers, ConsumeStep(t)
        PROVE  [Ledger!Next]_Ledger!vars
    <3>1. CASE Miss(t)
      BY <3>1, MissInv DEF Miss
    <3>2. CASE Undo(t)
      BY <3>2, UndoInv DEF Undo
    <3>3. CASE Take(t)
      <4>1. alive
        BY <3>3 DEF Take, BusInv, DownInv, Threads
      <4>2. head' = head /\ Taken' = Taken + 1 /\ alive' = alive
        BY <3>3, TakeInv DEF Take
      <4>3. head \in Int /\ Taken \in Int
        BY FiniteRoles DEF BusInv, TypeOK, Taken
      <4>4. Taken + 1 <= head
        BY <4>2 DEF TakenAtMostPublished
      <4>5. Ledger!Take
        BY <4>1, <4>2, <4>3, <4>4 DEF Ledger!Take
      <4>6. QED
        BY <4>5
    <3>4. CASE \E f \in Fields : CopyOut(t, f)
      BY <3>4, CopyOutInv DEF CopyOut
    <3>5. QED
      BY <2>7, <3>1, <3>2, <3>3, <3>4 DEF ConsumeStep
  <2>8. CASE \E t \in Observers : CallPending(t)
    BY <2>8, CallPendingInv DEF CallPending
  <2>9. CASE \E t \in Observers : Answer(t)
    BY <2>9, AnswerInv DEF Answer
  <2>10. CASE UNCHANGED vars
    BY <2>10 DEF vars, Taken, Speculating, At
  <2>11. QED
    BY <2>1, <2>2, <2>3, <2>4, <2>5, <2>6, <2>7, <2>8, <2>9, <2>10 DEF Next
<1>3. QED
  BY <1>1, <1>2, BusInvariant, NoMoreTakenThanPublished, OverrunIsBounded, PTL
     DEF Spec, LedgerSpec, Ledger!Spec

-----------------------------------------------------------------------------
(* A single consumer *)

(* Between line 46 and the comparison of line 48 the only consumer holds the *)
(* last value of g_tail: nobody else moves it.                              *)
ClaimedLast(c) == pc[c] \in {"loadHead", "undo"} => tail = reg[c] + 1

(* Only the call and the take-back write g_tail, and a local is written by  *)
(* its owner only.                                                          *)
LEMMA ClaimedLastStep ==
  ASSUME NEW c, Consumers = {c}, BusInv, ClaimedLast(c), [Next]_vars
  PROVE  ClaimedLast(c)'
<1> USE DEF ClaimedLast
<1>1. c \in Threads /\ c \in Consumers /\ TypeOK
  BY DEF Threads, BusInv
<1>2. CASE BusInit
  BY <1>1, <1>2 DEF BusInit, At, TypeOK
<1>3. CASE BusShutdown
  BY <1>3 DEF BusShutdown
<1>4. CASE \E t \in Threads : CallClosed(t)
  BY <1>4 DEF CallClosed
<1>5. ASSUME NEW t \in Producers, NEW e \in Events, CallPublish(t, e)
      PROVE  ClaimedLast(c)'
  BY <1>1, <1>5 DEF CallPublish, TypeOK, Threads
<1>6. ASSUME NEW t \in Producers, PublishStep(t)
      PROVE  ClaimedLast(c)'
  <2>1. t \in Threads
    BY DEF Threads
  <2>2. CASE Refuse(t)
    BY <1>1, <2>1, <2>2 DEF Refuse, TypeOK
  <2>3. CASE Admit(t)
    BY <1>1, <2>1, <2>3 DEF Admit, TypeOK
  <2>4. CASE Claim(t)
    BY <1>1, <2>1, <2>4 DEF Claim, TypeOK
  <2>5. ASSUME NEW f \in Fields, CopyIn(t, f)
        PROVE  ClaimedLast(c)'
    BY <1>1, <2>1, <2>5 DEF CopyIn, TypeOK
  <2>6. QED
    BY <1>6, <2>2, <2>3, <2>4, <2>5 DEF PublishStep
<1>7. CASE CallConsume(c)
  BY <1>1, <1>7 DEF CallConsume, TypeOK
<1>8. CASE ConsumeStep(c)
  <2>1. CASE Miss(c)
    BY <2>1 DEF Miss
  <2>2. CASE Undo(c)
    BY <1>1, <2>2 DEF Undo, TypeOK
  <2>3. CASE Take(c)
    BY <1>1, <2>3 DEF Take, TypeOK
  <2>4. ASSUME NEW f \in Fields, CopyOut(c, f)
        PROVE  ClaimedLast(c)'
    BY <1>1, <2>4 DEF CopyOut, TypeOK
  <2>5. QED
    BY <1>8, <2>1, <2>2, <2>3, <2>4 DEF ConsumeStep
<1>9. ASSUME NEW t \in Observers, CallPending(t) \/ Answer(t)
      PROVE  ClaimedLast(c)'
  BY <1>1, <1>9 DEF CallPending, Answer, TypeOK, Threads
<1>10. CASE UNCHANGED vars
  BY <1>10 DEF vars
<1>11. QED
  BY <1>2, <1>3, <1>4, <1>5, <1>6, <1>7, <1>8, <1>9, <1>10 DEF Next

(* The number of events taken changes in the comparison of line 48 only: the *)
(* increment of line 46 and its take-back cancel out, with any consumers.   *)
LEMMA TakenByTake ==
  ASSUME BusInv, [Next]_vars, Taken' # Taken
  PROVE  BusInit \/ \E t \in Consumers : Take(t)
<1>1. CASE BusShutdown
  BY <1>1, BusShutdownInv
<1>2. CASE \E t \in Threads : CallClosed(t)
  BY <1>2, CallClosedInv
<1>3. CASE \E t \in Producers : \E e \in Events : CallPublish(t, e)
  BY <1>3, CallPublishInv
<1>4. CASE \E t \in Producers : PublishStep(t)
  BY <1>4, RefuseInv, AdmitStepInv, ClaimInv, CopyInInv DEF PublishStep
<1>5. CASE \E t \in Consumers : CallConsume(t)
  BY <1>5, CallConsumeInv
<1>6. CASE \E t \in Consumers : ConsumeStep(t)
  BY <1>6, MissInv, UndoInv, CopyOutInv DEF ConsumeStep
<1>7. CASE \E t \in Observers : CallPending(t) \/ Answer(t)
  BY <1>7, CallPendingInv, AnswerInv
<1>8. CASE UNCHANGED vars
  BY <1>8 DEF vars, Taken, Speculating, At
<1>9. QED
  BY <1>1, <1>2, <1>3, <1>4, <1>5, <1>6, <1>7, <1>8 DEF Next

(* One worker loop gets every index once and in order, however publishers    *)
(* race and however often it finds the bus empty (event_bus.c:46-52).       *)
THEOREM OneConsumerTakesInOrder ==
  ASSUME NEW c, Consumers = {c}
  PROVE  Spec => TakesInOrder
<1>1. Init => ClaimedLast(c)
  BY DEF Init, ClaimedLast, Threads
<1>2. BusInv /\ ClaimedLast(c) /\ [Next]_vars => ClaimedLast(c)'
  BY ClaimedLastStep
<1>3. ASSUME BusInv, ClaimedLast(c), [Next]_vars
      PROVE  [/\ \A t \in Consumers : Take(t) => reg[t] = Taken /\ Taken' = Taken + 1
              /\ Taken' # Taken => BusInit \/ \E t \in Consumers : Take(t)]_vars
  <2>1. ASSUME NEW t \in Consumers, Take(t)
        PROVE  reg[t] = Taken /\ Taken' = Taken + 1
    <3>1. t = c /\ c \in Threads /\ pc[c] = "loadHead"
      BY <2>1 DEF Take, Threads
    <3>2. Speculating = {c}
      BY <1>3, <3>1 DEF Speculating, At, BusInv, RoleInv
    <3>3. Cardinality(Speculating) = 1
      BY <3>2, FS_Singleton
    <3>4. reg[c] \in Nat /\ tail = reg[c] + 1
      BY <1>3, <3>1 DEF ClaimedLast, BusInv, TypeOK
    <3>5. reg[c] = Taken
      BY <3>3, <3>4 DEF Taken
    <3>6. QED
      BY <1>3, <2>1, <3>1, <3>5, TakeInv
  <2>2. QED
    BY <1>3, <2>1, TakenByTake
<1>4. QED
  BY <1>1, <1>2, <1>3, BusInvariant, PTL DEF Spec, TakesInOrder

-----------------------------------------------------------------------------
(* The bounded queue of a serial client *)

(* Two indices less than a lap apart lie in different slots: the copies of   *)
(* event_bus.c:39 and :53 touch no other event that is in the ring.         *)
LEMMA SlotsDistinct ==
  ASSUME NEW i \in Nat, NEW j \in Nat, i < j, j - i < Capacity
  PROVE  Slot(i) # Slot(j)
<1>1. ASSUME NEW k \in Nat
      PROVE  /\ k \div Capacity \in Int
             /\ Slot(k) \in 0 .. Capacity - 1
             /\ k = Capacity * (k \div Capacity) + Slot(k)
  BY Counts DEF Slot
<1>2. ASSUME NEW q1 \in Int, NEW q2 \in Int, NEW r \in Int,
             i = Capacity * q1 + r, j = Capacity * q2 + r
      PROVE  FALSE
  <2>1. CASE q2 <= q1
    <3>1. Capacity * q2 <= Capacity * q1
      BY <2>1, Counts
    <3>2. Capacity * q2 \in Int /\ Capacity * q1 \in Int
      BY Counts
    <3>3. QED
      BY <1>2, <3>1, <3>2
  <2>2. CASE q2 >= q1 + 1
    <3>1. Capacity * q2 >= Capacity * (q1 + 1)
      BY <2>2, Counts
    <3>2. Capacity * (q1 + 1) = Capacity * q1 + Capacity
      BY Counts
    <3>3. Capacity * q2 \in Int /\ Capacity * q1 \in Int
      BY Counts
    <3>4. QED
      BY <1>2, <3>1, <3>2, <3>3, Counts
  <2>3. QED
    BY <2>1, <2>2
<1>3. QED
  BY <1>1, <1>2

(* With one thread, the threads at some labels are that thread or nobody.   *)
LEMMA OneThread ==
  ASSUME Serial, NEW p, NEW L
  PROVE  /\ Threads = {Client}
         /\ Cardinality({t \in Threads : p[t] \in L}) = IF p[Client] \in L THEN 1 ELSE 0
<1>1. Threads = {Client}
  BY DEF Serial, Threads
<1>2. CASE p[Client] \in L
  <2>1. {t \in Threads : p[t] \in L} = {Client}
    BY <1>1, <1>2
  <2>2. QED
    BY <1>1, <1>2, <2>1, FS_Singleton
<1>3. CASE p[Client] \notin L
  <2>1. {t \in Threads : p[t] \in L} = {}
    BY <1>1, <1>3
  <2>2. QED
    BY <1>1, <1>3, <2>1, FS_EmptySet
<1>4. QED
  BY <1>2, <1>3

(* Between its calls the client has moved both counters for whole events.    *)
LEMMA SerialView ==
  ASSUME Serial
  PROVE  /\ Oldest = IF pc[Client] \in {"loadHead", "undo", "copyOut"} THEN tail - 1 ELSE tail - 0
         /\ Newest = IF pc[Client] = "copyIn" THEN head - 1 - 1 ELSE head - 0 - 1
         /\ Oldest' = IF pc'[Client] \in {"loadHead", "undo", "copyOut"} THEN tail' - 1 ELSE tail' - 0
         /\ Newest' = IF pc'[Client] = "copyIn" THEN head' - 1 - 1 ELSE head' - 0 - 1
<1>1. /\ Cardinality(At({"loadHead", "undo", "copyOut"}))
           = IF pc[Client] \in {"loadHead", "undo", "copyOut"} THEN 1 ELSE 0
      /\ Cardinality(At({"copyIn"})) = IF pc[Client] = "copyIn" THEN 1 ELSE 0
      /\ Cardinality(At({"loadHead", "undo", "copyOut"})')
           = IF pc'[Client] \in {"loadHead", "undo", "copyOut"} THEN 1 ELSE 0
      /\ Cardinality(At({"copyIn"})') = IF pc'[Client] = "copyIn" THEN 1 ELSE 0
  BY OneThread DEF At
<1>2. QED
  BY <1>1 DEF Oldest, Newest

(* The indices of the queued events are numbers that the ring can be asked   *)
(* for.                                                                     *)
LEMMA QueuedIndices ==
  ASSUME Serial, TypeOK, RoleInv, TailInv, IndexInv
  PROVE  /\ Oldest \in Nat
         /\ Newest \in Int
         /\ Newest + 1 - Oldest \in Nat
         /\ Newest + 1 - Oldest <= Capacity
<1>1. Client \in Threads
  BY OneThread
<1>2. reg[Client] \in Nat /\ head \in Nat /\ tail \in Nat
  BY <1>1 DEF TypeOK
<1>3. Oldest \in Nat
  BY <1>2, SerialView DEF IndexInv
<1>4. Newest \in Int
  BY <1>2, SerialView
<1>5. QED
  BY <1>3, <1>4, Counts DEF IndexInv

(* A step that moves none of the queued events leaves the queue alone.       *)
LEMMA SameContents ==
  ASSUME alive' = alive, Oldest' = Oldest, Newest' = Newest,
         \A i \in 1 .. Newest - Oldest + 1 :
           ring'[Slot(Oldest + i - 1)] = ring[Slot(Oldest + i - 1)]
  PROVE  Contents' = Contents
BY DEF Contents

(* A finished publish (line 40) puts its event behind the others.            *)
LEMMA PutContents ==
  ASSUME alive, alive', Oldest \in Nat, Newest \in Int, Newest + 1 - Oldest \in Nat,
         Oldest' = Oldest, Newest' = Newest + 1,
         \A i \in 1 .. Newest - Oldest + 1 :
           ring'[Slot(Oldest + i - 1)] = ring[Slot(Oldest + i - 1)]
  PROVE  Contents' = Append(Contents, ring'[Slot(Newest + 1)])
<1> DEFINE n == Newest - Oldest + 1
<1>1. n \in Nat
  OBVIOUS
<1>2. Contents = [i \in 1 .. n |-> ring[Slot(Oldest + i - 1)]]
  BY DEF Contents
<1>3. Contents' = [i \in 1 .. n + 1 |-> ring'[Slot(Oldest + i - 1)]]
  BY DEF Contents
<1>4. /\ Oldest + (n + 1) - 1 = Newest + 1
      /\ \A i \in 1 .. n :
           ring'[Slot(Oldest + i - 1)] = ring[Slot(Oldest + i - 1)]
  OBVIOUS
<1> HIDE DEF n
<1>5. Append(Contents, ring'[Slot(Newest + 1)])
        = [i \in 1 .. n + 1 |-> IF i = n + 1 THEN ring'[Slot(Newest + 1)]
                                ELSE ring[Slot(Oldest + i - 1)]]
  BY <1>1, <1>2
<1>6. \A i \in 1 .. n + 1 :
        ring'[Slot(Oldest + i - 1)] = IF i = n + 1 THEN ring'[Slot(Newest + 1)]
                                      ELSE ring[Slot(Oldest + i - 1)]
  BY <1>1, <1>4
<1>7. QED
  BY <1>3, <1>5, <1>6

(* A finished consume (line 54) takes the first one away.                    *)
LEMMA GetContents ==
  ASSUME alive, alive', Oldest \in Nat, Newest \in Int, Oldest <= Newest,
         Oldest' = Oldest + 1, Newest' = Newest, ring' = ring
  PROVE  /\ Contents # <<>>
         /\ Contents' = Tail(Contents)
         /\ Head(Contents) = ring[Slot(Oldest)]
<1> DEFINE n == Newest - Oldest
<1>1. n \in Nat /\ Newest - (Oldest + 1) + 1 = n
  OBVIOUS
<1>2. Contents = [i \in 1 .. n + 1 |-> ring[Slot(Oldest + i - 1)]]
  BY DEF Contents
<1>3. Contents' = [i \in 1 .. n |-> ring[Slot(Oldest + 1 + i - 1)]]
  BY <1>1 DEF Contents
<1> HIDE DEF n
<1>4. Len(Contents) = n + 1
  BY <1>1, <1>2
<1>5. Tail(Contents) = [i \in 1 .. n |-> ring[Slot(Oldest + (i + 1) - 1)]]
  BY <1>1, <1>2
<1>6. Head(Contents) = ring[Slot(Oldest)]
  BY <1>1, <1>2
<1>7. Contents' = Tail(Contents)
  BY <1>3, <1>5
<1>8. QED
  BY <1>1, <1>4, <1>6, <1>7

(* The client is the only thread, and the ring exists while it is in a call. *)
LEMMA ClientFacts ==
  ASSUME Serial, BusInv
  PROVE  /\ Client \in Threads
         /\ \A u \in Threads : u = Client
         /\ Client \in Producers /\ Client \in Consumers
         /\ pc[Client] \notin {"idle", "countTail"} => alive
         /\ alive \in BOOLEAN
         /\ head \in Nat /\ tail \in Nat /\ reg[Client] \in Nat
         /\ pc[Client] \in Labels
         /\ todo[Client] \in SUBSET Fields
         /\ buf[Client] \in Structs
<1>1. Client \in Threads /\ \A u \in Threads : u = Client
  BY OneThread
<1>2. Client \in Producers /\ Client \in Consumers
  BY DEF Serial
<1>3. QED
  BY <1>1, <1>2 DEF BusInv, TypeOK, DownInv

(* One step of the queue, or none.                                          *)
QueueStep == [Queue!Next]_(Queue!vars)

(* A step inside a call, before its answer, is no step of the queue.         *)
LEMMA InsideCall ==
  ASSUME alive' = alive, Contents' = Contents, ret' = ret,
         ret[Client] = "none"
  PROVE  QueueStep
BY DEF QueueStep, Queue!vars

(* event_bus_publish begins (line 34): the call of the abstract queue.       *)
LEMMA CallPublishSerial ==
  ASSUME Serial, BusInv, SerialInv, NEW e \in Events, CallPublish(Client, e)
  PROVE  SerialInv' /\ QueueStep
<1> USE ClientFacts
<1>1. /\ pc[Client] = "idle" /\ pc'[Client] = "loadTail"
      /\ reg'[Client] = head /\ buf'[Client] = Uniform(e) /\ ret'[Client] = "none"
      /\ alive /\ alive' = alive /\ ring' = ring /\ head' = head /\ tail' = tail
  BY DEF CallPublish, BusInv, TypeOK
<1>2. Oldest' = Oldest /\ Newest' = Newest
  BY <1>1, SerialView
<1>3. IndexInv'
  BY <1>1, <1>2 DEF SerialInv, IndexInv
<1>4. CopyInv'
  BY <1>1 DEF CopyInv
<1>5. Contents' = Contents
  BY <1>1, <1>2, SameContents
<1>6. Queue!Call
  BY <1>1, <1>5 DEF Queue!Call
<1>7. QED
  BY <1>3, <1>4, <1>6 DEF SerialInv, QueueStep, Queue!Next

(* event_bus_consume begins (line 46): the increment of g_tail stands for    *)
(* the event the call is about to look for.                                 *)
LEMMA CallConsumeSerial ==
  ASSUME Serial, BusInv, SerialInv, CallConsume(Client)
  PROVE  SerialInv' /\ QueueStep
<1> USE ClientFacts
<1>1. /\ pc[Client] = "idle" /\ pc'[Client] = "loadHead"
      /\ reg'[Client] = tail /\ ret'[Client] = "none"
      /\ alive /\ alive' = alive /\ ring' = ring /\ head' = head /\ tail' = tail + 1
  BY DEF CallConsume, BusInv, TypeOK
<1>2. Oldest = tail /\ Oldest' = Oldest /\ Newest' = Newest
  BY <1>1, SerialView
<1>3. IndexInv'
  BY <1>1, <1>2 DEF SerialInv, IndexInv
<1>4. CopyInv'
  BY <1>1 DEF CopyInv
<1>5. Contents' = Contents
  BY <1>1, <1>2, SameContents
<1>6. Queue!Call
  BY <1>1, <1>5 DEF Queue!Call
<1>7. QED
  BY <1>3, <1>4, <1>6 DEF SerialInv, QueueStep, Queue!Next

(* The number of queued events is the difference of the counters.            *)
LEMMA QueueLength ==
  ASSUME alive, Oldest \in Nat, Newest \in Int, Newest + 1 - Oldest \in Nat
  PROVE  /\ Len(Contents) = Newest + 1 - Oldest
         /\ Newest + 1 - Oldest = 0 => Contents = <<>>
<1> DEFINE n == Newest - Oldest + 1
<1>1. n \in Nat /\ n = Newest + 1 - Oldest
  OBVIOUS
<1>2. Contents = [i \in 1 .. n |-> ring[Slot(Oldest + i - 1)]]
  BY DEF Contents
<1> HIDE DEF n
<1>3. QED
  BY <1>1, <1>2

(* Line 36, full: with one thread the ring is full exactly when the queue    *)
(* holds Capacity events.                                                   *)
LEMMA RefuseSerial ==
  ASSUME Serial, BusInv, SerialInv, Refuse(Client)
  PROVE  SerialInv' /\ QueueStep
<1> USE ClientFacts
<1>1. /\ pc[Client] = "loadTail" /\ pc'[Client] = "idle"
      /\ USub(reg[Client], tail) >= Capacity /\ ret'[Client] = "full"
      /\ alive /\ alive' = alive /\ ring' = ring /\ head' = head /\ tail' = tail
  BY DEF Refuse, BusInv, TypeOK
<1>2. Oldest = tail /\ Newest = head - 1 /\ Oldest' = Oldest /\ Newest' = Newest
  BY <1>1, SerialView
<1>3. reg[Client] = head /\ ret[Client] = "none"
  BY <1>1 DEF SerialInv, IndexInv, CopyInv
<1>4. Newest + 1 - Oldest = Capacity
  BY <1>1, <1>2, <1>3, Counts DEF SerialInv, IndexInv, USub
<1>5. IndexInv'
  BY <1>1, <1>2 DEF SerialInv, IndexInv
<1>6. CopyInv'
  BY <1>1 DEF CopyInv
<1>7. Contents' = Contents
  BY <1>1, <1>2, SameContents
<1>8. Len(Contents) = Capacity
  BY <1>1, <1>4, QueuedIndices, QueueLength DEF BusInv, SerialInv
<1>9. Queue!PutFull
  BY <1>1, <1>3, <1>7, <1>8 DEF Queue!PutFull
<1>10. QED
  BY <1>5, <1>6, <1>9 DEF SerialInv, QueueStep, Queue!Next

(* Line 36, there is room: with one thread there is, until line 37.          *)
LEMMA AdmitSerial ==
  ASSUME Serial, BusInv, SerialInv, Admit(Client)
  PROVE  SerialInv' /\ QueueStep
<1> USE ClientFacts
<1>1. /\ pc[Client] = "loadTail" /\ pc'[Client] = "claim"
      /\ USub(reg[Client], tail) < Capacity
      /\ alive' = alive /\ ring' = ring /\ head' = head /\ tail' = tail
      /\ reg' = reg /\ buf' = buf /\ ret' = ret
  BY DEF Admit, BusInv, TypeOK
<1>2. Oldest = tail /\ Newest = head - 1 /\ Oldest' = Oldest /\ Newest' = Newest
  BY <1>1, SerialView
<1>3. reg[Client] = head /\ ret[Client] = "none"
  BY <1>1 DEF SerialInv, IndexInv, CopyInv
<1>4. head - tail < Capacity
  BY <1>1, <1>2, <1>3, Counts DEF SerialInv, IndexInv, USub
<1>5. IndexInv'
  BY <1>1, <1>2, <1>3, <1>4 DEF SerialInv, IndexInv
<1>6. CopyInv'
  BY <1>1 DEF SerialInv, CopyInv
<1>7. Contents' = Contents
  BY <1>1, <1>2, SameContents
<1>8. QED
  BY <1>1, <1>3, <1>5, <1>6, <1>7, InsideCall DEF SerialInv

(* Lines 37-38: the claimed index is the one behind the newest event.        *)
LEMMA ClaimSerial ==
  ASSUME Serial, BusInv, SerialInv, Claim(Client)
  PROVE  SerialInv' /\ QueueStep
<1> USE ClientFacts
<1>1. /\ pc[Client] = "claim" /\ pc'[Client] = "copyIn"
      /\ reg'[Client] = head /\ todo'[Client] = Fields
      /\ alive' = alive /\ ring' = ring /\ head' = head + 1 /\ tail' = tail
      /\ buf' = buf /\ ret' = ret
  BY DEF Claim, BusInv, TypeOK
<1>2. Oldest = tail /\ Newest = head - 1 /\ Oldest' = Oldest /\ Newest' = Newest
  BY <1>1, SerialView
<1>3. ret[Client] = "none"
  BY <1>1 DEF SerialInv, CopyInv
<1>4. IndexInv'
  BY <1>1, <1>2 DEF SerialInv, IndexInv
<1>5. CopyInv'
  BY <1>1, DataAssumption DEF SerialInv, CopyInv
<1>6. Contents' = Contents
  BY <1>1, <1>2, SameContents
<1>7. QED
  BY <1>1, <1>3, <1>4, <1>5, <1>6, InsideCall DEF SerialInv

(* Lines 39-40: the copy fills a slot of no queued event; the last part of   *)
(* it publishes the whole event.                                            *)
LEMMA CopyInSerial ==
  ASSUME Serial, BusInv, SerialInv, NEW f \in Fields, CopyIn(Client, f)
  PROVE  SerialInv' /\ QueueStep
<1> USE ClientFacts
<1> DEFINE at == Slot(reg[Client])
<1>1. /\ pc[Client] = "copyIn" /\ f \in todo[Client]
      /\ pc'[Client] \in {"copyIn", "idle"}
      /\ alive /\ alive' = alive /\ head' = head /\ tail' = tail
      /\ todo'[Client] = todo[Client] \ {f}
  BY DEF CopyIn, BusInv, TypeOK
<1>2. Oldest = tail /\ Newest = head - 1 - 1 /\ Oldest' = Oldest
  BY <1>1, SerialView
<1>3. /\ reg[Client] = Newest + 1 /\ reg[Client] - tail < Capacity
      /\ ret[Client] = "none"
      /\ buf[Client] \in {Uniform(e) : e \in Events}
      /\ \A g \in Fields \ todo[Client] : ring[at][g] = buf[Client][g]
  BY <1>1 DEF SerialInv, IndexInv, CopyInv
<1>4. /\ Oldest \in Nat /\ Newest \in Int
      /\ Newest + 1 - Oldest \in Nat /\ Newest + 1 - Oldest <= Capacity
  BY QueuedIndices DEF BusInv, SerialInv
<1>5. at \in Slots
  BY SlotInRing
<1>6. \A i \in 1 .. Newest - Oldest + 1 :
        ring'[Slot(Oldest + i - 1)] = ring[Slot(Oldest + i - 1)]
  <2>1. SUFFICES ASSUME NEW i \in 1 .. Newest - Oldest + 1
                 PROVE  ring'[Slot(Oldest + i - 1)] = ring[Slot(Oldest + i - 1)]
    OBVIOUS
  <2>2. /\ Oldest + i - 1 \in Nat
        /\ Oldest + i - 1 < reg[Client]
        /\ reg[Client] - (Oldest + i - 1) < Capacity
    BY <1>2, <1>3, <1>4, Counts
  <2>3. Slot(Oldest + i - 1) # at /\ Slot(Oldest + i - 1) \in Slots
    BY <2>2, SlotsDistinct, SlotInRing
  <2>4. QED
    BY <1>5, <2>3 DEF CopyIn, BusInv, TypeOK
<1>7. /\ ring'[at] \in Structs
      /\ \A g \in Fields \ todo'[Client] : ring'[at][g] = buf[Client][g]
  <2>1. ring'[at] = [ring[at] EXCEPT ![f] = buf[Client][f]]
    BY <1>5 DEF CopyIn, BusInv, TypeOK
  <2>2. ring[at] \in Structs
    BY <1>5 DEF BusInv, TypeOK
  <2>3. ring'[at] \in Structs
    BY <2>1, <2>2 DEF Structs
  <2>4. QED
    BY <1>1, <1>3, <2>1, <2>2, <2>3 DEF Structs
<1>8. CASE todo[Client] # {f}
  <2>1. /\ pc' = pc /\ reg' = reg /\ buf' = buf /\ ret' = ret
        /\ todo'[Client] # {}
    BY <1>1, <1>8 DEF CopyIn
  <2>2. Newest' = Newest
    BY <1>1, <1>2, <2>1, SerialView
  <2>3. IndexInv'
    BY <1>1, <1>2, <2>1, <2>2 DEF SerialInv, IndexInv
  <2>4. CopyInv'
    BY <1>3, <1>7, <2>1, <1>1 DEF CopyInv
  <2>5. Contents' = Contents
    BY <1>1, <1>2, <1>6, <2>2, SameContents
  <2>6. QED
    BY <1>1, <1>3, <2>1, <2>3, <2>4, <2>5, InsideCall DEF SerialInv
<1>9. CASE todo[Client] = {f}
  <2>1. pc'[Client] = "idle" /\ ret'[Client] = "ok" /\ todo'[Client] = {}
    BY <1>1, <1>9 DEF CopyIn, BusInv, TypeOK
  <2>2. Newest' = Newest + 1
    BY <1>1, <1>2, <2>1, SerialView
  <2>3. IndexInv'
    BY <1>1, <1>2, <1>3, <1>4, <2>1, <2>2, Counts DEF IndexInv
  <2>4. CopyInv'
    BY <2>1 DEF CopyInv
  <2>5. PICK e \in Events : buf[Client] = Uniform(e)
    BY <1>3
  <2>6. ring'[at] = Uniform(e)
    BY <1>7, <2>1, <2>5 DEF Structs
  <2>7. Contents' = Append(Contents, Uniform(e))
    BY <1>1, <1>2, <1>3, <1>4, <1>6, <2>2, <2>6, PutContents
  <2>8. Len(Contents) < Capacity
    BY <1>1, <1>2, <1>3, <1>4, QueueLength
  <2>9. Queue!Put(Uniform(e))
    BY <1>1, <1>3, <2>1, <2>7, <2>8 DEF Queue!Put
  <2>10. QED
    BY <2>3, <2>4, <2>9 DEF SerialInv, QueueStep, Queue!Next
<1>10. QED
  BY <1>8, <1>9

(* Lines 47-48, no event: with one thread the queue is empty.                *)
LEMMA MissSerial ==
  ASSUME Serial, BusInv, SerialInv, Miss(Client)
  PROVE  SerialInv' /\ QueueStep
<1> USE ClientFacts
<1>1. /\ pc[Client] = "loadHead" /\ pc'[Client] = "undo" /\ reg[Client] >= head
      /\ alive' = alive /\ ring' = ring /\ head' = head /\ tail' = tail
      /\ reg' = reg /\ ret' = ret
  BY DEF Miss, BusInv, TypeOK
<1>2. Oldest = tail - 1 /\ Newest = head - 1 /\ Oldest' = Oldest /\ Newest' = Newest
  BY <1>1, SerialView
<1>3. reg[Client] = Oldest /\ ret[Client] = "none"
  BY <1>1 DEF SerialInv, IndexInv, CopyInv
<1>4. IndexInv'
  BY <1>1, <1>2, <1>3 DEF SerialInv, IndexInv
<1>5. CopyInv'
  BY <1>1, <1>3 DEF CopyInv
<1>6. Contents' = Contents
  BY <1>1, <1>2, SameContents
<1>7. QED
  BY <1>1, <1>3, <1>4, <1>5, <1>6, InsideCall DEF SerialInv

(* Lines 49-50: the increment is taken back and the answer is that the       *)
(* queue is empty, as it is.                                                *)
LEMMA UndoSerial ==
  ASSUME Serial, BusInv, SerialInv, Undo(Client)
  PROVE  SerialInv' /\ QueueStep
<1> USE ClientFacts
<1>1. /\ pc[Client] = "undo" /\ pc'[Client] = "idle" /\ ret'[Client] = "empty"
      /\ alive /\ alive' = alive /\ ring' = ring /\ head' = head /\ tail' = tail - 1
  BY DEF Undo, BusInv, TypeOK
<1>2. Oldest' = Oldest /\ Newest' = Newest
  BY <1>1, SerialView
<1>3. ret[Client] = "none" /\ Oldest = Newest + 1
  BY <1>1 DEF SerialInv, IndexInv, CopyInv
<1>4. IndexInv'
  BY <1>1, <1>2 DEF SerialInv, IndexInv
<1>5. CopyInv'
  BY <1>1 DEF CopyInv
<1>6. Contents' = Contents
  BY <1>1, <1>2, SameContents
<1>7. Contents = <<>>
  BY <1>1, <1>3, QueuedIndices, QueueLength DEF BusInv, SerialInv
<1>8. Queue!GetEmpty
  BY <1>1, <1>3, <1>6, <1>7 DEF Queue!GetEmpty
<1>9. QED
  BY <1>4, <1>5, <1>8 DEF SerialInv, QueueStep, Queue!Next

(* Lines 47-48 and 52: there is an oldest event, and it is the claimed one.  *)
LEMMA TakeSerial ==
  ASSUME Serial, BusInv, SerialInv, Take(Client)
  PROVE  SerialInv' /\ QueueStep
<1> USE ClientFacts
<1>1. /\ pc[Client] = "loadHead" /\ pc'[Client] = "copyOut" /\ reg[Client] < head
      /\ todo'[Client] = Fields
      /\ alive' = alive /\ ring' = ring /\ head' = head /\ tail' = tail
      /\ reg' = reg /\ ret' = ret
  BY DEF Take, BusInv, TypeOK
<1>2. Oldest = tail - 1 /\ Newest = head - 1 /\ Oldest' = Oldest /\ Newest' = Newest
  BY <1>1, SerialView
<1>3. reg[Client] = Oldest /\ ret[Client] = "none"
  BY <1>1 DEF SerialInv, IndexInv, CopyInv
<1>4. IndexInv'
  BY <1>1, <1>2, <1>3 DEF SerialInv, IndexInv
<1>5. CopyInv'
  BY <1>1, <1>3, DataAssumption DEF CopyInv
<1>6. Contents' = Contents
  BY <1>1, <1>2, SameContents
<1>7. QED
  BY <1>1, <1>3, <1>4, <1>5, <1>6, InsideCall DEF SerialInv

(* Lines 53-54: the last part of the copy completes the oldest event.        *)
LEMMA CopyOutSerial ==
  ASSUME Serial, BusInv, SerialInv, NEW f \in Fields, CopyOut(Client, f)
  PROVE  SerialInv' /\ QueueStep
<1> USE ClientFacts
<1> DEFINE at == Slot(reg[Client])
<1>1. /\ pc[Client] = "copyOut" /\ f \in todo[Client]
      /\ alive /\ alive' = alive /\ ring' = ring /\ head' = head /\ tail' = tail
      /\ todo'[Client] = todo[Client] \ {f}
  BY DEF CopyOut, BusInv, TypeOK
<1>2. Oldest = tail - 1 /\ Newest = head - 1
  BY <1>1, SerialView
<1>3. /\ reg[Client] = Oldest /\ Oldest <= Newest
      /\ ret[Client] = "none"
      /\ \A g \in Fields \ todo[Client] : ring[at][g] = buf[Client][g]
  BY <1>1 DEF SerialInv, IndexInv, CopyInv
<1>4. Oldest \in Nat /\ Newest \in Int
  BY QueuedIndices DEF BusInv, SerialInv
<1>5. at \in Slots /\ ring[at] \in Structs
  BY SlotInRing DEF BusInv, TypeOK
<1>6. /\ buf'[Client] \in Structs
      /\ \A g \in Fields \ todo'[Client] : ring[at][g] = buf'[Client][g]
  <2>1. buf'[Client] = [buf[Client] EXCEPT ![f] = ring[at][f]]
    BY DEF CopyOut, BusInv, TypeOK
  <2>2. buf'[Client] \in Structs
    BY <1>5, <2>1 DEF Structs
  <2>3. QED
    BY <1>1, <1>3, <2>1, <2>2 DEF Structs
<1>7. CASE todo[Client] # {f}
  <2>1. pc' = pc /\ reg' = reg /\ ret' = ret /\ todo'[Client] # {}
    BY <1>1, <1>7 DEF CopyOut
  <2>2. Oldest' = Oldest /\ Newest' = Newest
    BY <1>1, <2>1, SerialView
  <2>3. IndexInv'
    BY <1>1, <1>3, <2>1, <2>2 DEF SerialInv, IndexInv
  <2>4. CopyInv'
    BY <1>1, <1>3, <1>6, <2>1 DEF CopyInv
  <2>5. Contents' = Contents
    BY <1>1, <2>2, SameContents
  <2>6. QED
    BY <1>1, <1>3, <2>1, <2>3, <2>4, <2>5, InsideCall DEF SerialInv
<1>8. CASE todo[Client] = {f}
  <2>1. pc'[Client] = "idle" /\ ret'[Client] = "got" /\ todo'[Client] = {}
    BY <1>1, <1>8 DEF CopyOut, BusInv, TypeOK
  <2>2. Oldest' = Oldest + 1 /\ Newest' = Newest
    BY <1>1, <1>2, <2>1, SerialView
  <2>3. IndexInv'
    BY <1>3, <1>4, <2>1, <2>2, Counts DEF SerialInv, IndexInv
  <2>4. CopyInv'
    BY <2>1 DEF CopyInv
  <2>5. buf'[Client] = ring[at]
    BY <1>5, <1>6, <2>1 DEF Structs
  <2>6. /\ Contents # <<>>
        /\ Contents' = Tail(Contents)
        /\ Head(Contents) = buf'[Client]
    BY <1>1, <1>3, <1>4, <2>2, <2>5, GetContents
  <2>7. Queue!Get
    BY <1>1, <1>3, <2>1, <2>6 DEF Queue!Get
  <2>8. QED
    BY <2>3, <2>4, <2>7 DEF SerialInv, QueueStep, Queue!Next
<1>9. QED
  BY <1>7, <1>8

(* event_bus_pending begins (line 59), on a closed bus too.                  *)
LEMMA CallPendingSerial ==
  ASSUME Serial, BusInv, SerialInv, CallPending(Client)
  PROVE  SerialInv' /\ QueueStep
<1> USE ClientFacts
<1>1. /\ pc[Client] = "idle" /\ pc'[Client] = "countTail"
      /\ reg'[Client] = head /\ ret'[Client] = "none"
      /\ alive' = alive /\ ring' = ring /\ head' = head /\ tail' = tail
  BY DEF CallPending, BusInv, TypeOK
<1>2. Oldest' = Oldest /\ Newest' = Newest
  BY <1>1, SerialView
<1>3. IndexInv'
  BY <1>1, <1>2 DEF SerialInv, IndexInv
<1>4. CopyInv'
  BY <1>1 DEF CopyInv
<1>5. Contents' = Contents
  BY <1>1, <1>2, SameContents
<1>6. Queue!Call
  BY <1>1, <1>5 DEF Queue!Call
<1>7. QED
  BY <1>3, <1>4, <1>6 DEF SerialInv, QueueStep, Queue!Next

(* Lines 60-61: with one thread the difference is the length of the queue.   *)
LEMMA AnswerSerial ==
  ASSUME Serial, BusInv, SerialInv, Answer(Client)
  PROVE  SerialInv' /\ QueueStep
<1> USE ClientFacts
<1>1. /\ pc[Client] = "countTail" /\ pc'[Client] = "idle"
      /\ reg'[Client] = USub(reg[Client], tail) /\ ret'[Client] = "counted"
      /\ alive' = alive /\ ring' = ring /\ head' = head /\ tail' = tail
  BY DEF Answer, BusInv, TypeOK
<1>2. Oldest = tail /\ Newest = head - 1 /\ Oldest' = Oldest /\ Newest' = Newest
  BY <1>1, SerialView
<1>3. reg[Client] = head /\ ret[Client] = "none"
  BY <1>1 DEF SerialInv, IndexInv, CopyInv
<1>4. reg'[Client] = Newest + 1 - Oldest /\ reg'[Client] \in Nat
  BY <1>1, <1>2, <1>3, QueuedIndices DEF SerialInv, BusInv, USub
<1>5. IndexInv'
  BY <1>1, <1>2 DEF SerialInv, IndexInv
<1>6. CopyInv'
  BY <1>1 DEF CopyInv
<1>7. Contents' = Contents
  BY <1>1, <1>2, SameContents
<1>8. alive => Len(Contents) = reg'[Client]
  BY <1>4, QueuedIndices, QueueLength DEF BusInv, SerialInv
<1>9. Queue!Count
  BY <1>1, <1>3, <1>4, <1>7, <1>8 DEF Queue!Count
<1>10. QED
  BY <1>5, <1>6, <1>9 DEF SerialInv, QueueStep, Queue!Next

(* event_bus_init opens an empty queue, whatever the counters were.          *)
LEMMA BusInitSerial ==
  ASSUME Serial, BusInv, SerialInv, BusInit
  PROVE  SerialInv' /\ QueueStep
<1> USE ClientFacts
<1>1. /\ pc[Client] = "idle" /\ pc'[Client] = "idle"
      /\ ~alive /\ alive' = TRUE /\ head' = 0 /\ tail' = 0
      /\ ret' = ret /\ buf' = buf /\ reg' = reg
  BY DEF BusInit, At, Labels
<1>2. Oldest' = 0 /\ Newest' = 0 - 1
  BY <1>1, SerialView
<1>3. IndexInv'
  BY <1>1, <1>2, Counts DEF IndexInv
<1>4. CopyInv'
  BY <1>1 DEF CopyInv
<1>5. Contents' = <<>>
  <2>1. Contents' = [i \in 1 .. 0 |-> ring'[Slot(Oldest' + i - 1)]]
    BY <1>1, <1>2 DEF Contents
  <2>2. QED
    BY <2>1
<1>6. Contents = <<>>
  BY <1>1 DEF Contents
<1>7. Queue!Open
  BY <1>1, <1>5, <1>6 DEF Queue!Open
<1>8. QED
  BY <1>3, <1>4, <1>7 DEF SerialInv, QueueStep, Queue!Next

(* event_bus_shutdown drops what is left in the queue.                       *)
LEMMA BusShutdownSerial ==
  ASSUME Serial, BusInv, SerialInv, BusShutdown
  PROVE  SerialInv' /\ QueueStep
<1> USE ClientFacts
<1>1. /\ pc[Client] = "idle" /\ pc' = pc
      /\ alive /\ alive' = FALSE /\ head' = head /\ tail' = tail
      /\ ret' = ret /\ buf' = buf /\ reg' = reg
  BY DEF BusShutdown, At, Labels
<1>2. Oldest' = Oldest /\ Newest' = Newest
  BY <1>1, SerialView
<1>3. IndexInv'
  BY <1>1, <1>2 DEF SerialInv, IndexInv
<1>4. CopyInv'
  BY <1>1 DEF CopyInv
<1>5. Contents' = <<>>
  BY <1>1 DEF Contents
<1>6. Queue!Close
  BY <1>1, <1>5 DEF Queue!Close
<1>7. QED
  BY <1>3, <1>4, <1>6 DEF SerialInv, QueueStep, Queue!Next

(* Lines 33 and 45: a call without a ring is refused.                        *)
LEMMA CallClosedSerial ==
  ASSUME Serial, BusInv, SerialInv, CallClosed(Client)
  PROVE  SerialInv' /\ QueueStep
<1> USE ClientFacts
<1>1. /\ pc[Client] = "idle" /\ pc' = pc
      /\ ~alive /\ alive' = alive /\ head' = head /\ tail' = tail
      /\ ret'[Client] = "invalid"
  BY DEF CallClosed, BusInv, TypeOK
<1>2. Oldest' = Oldest /\ Newest' = Newest
  BY <1>1, SerialView
<1>3. IndexInv'
  BY <1>1, <1>2 DEF SerialInv, IndexInv
<1>4. CopyInv'
  BY <1>1 DEF CopyInv
<1>5. Contents' = Contents
  BY <1>1 DEF Contents
<1>6. Queue!CallClosed
  BY <1>1, <1>5 DEF Queue!CallClosed
<1>7. QED
  BY <1>3, <1>4, <1>6 DEF SerialInv, QueueStep, Queue!Next

(* The first state: no queue, nothing called.                                *)
LEMMA InitSerial ==
  ASSUME Serial, Init
  PROVE  SerialInv /\ Queue!Init
<1>1. Client \in Threads
  BY OneThread
<1>2. pc[Client] = "idle" /\ ret[Client] = "none"
  BY <1>1 DEF Init
<1>3. Oldest = 0 /\ Newest = 0 - 1
  BY <1>2, SerialView DEF Init
<1>4. IndexInv
  BY <1>2, <1>3, Counts DEF IndexInv
<1>5. CopyInv
  BY <1>2 DEF CopyInv
<1>6. Contents = <<>>
  BY DEF Init, Contents
<1>7. QED
  BY <1>2, <1>4, <1>5, <1>6 DEF SerialInv, Init, Queue!Init

(* Every step of event_bus.c that a lone client takes is a step of the       *)
(* abstract queue or invisible to it, and keeps SerialInv.                  *)
LEMMA StepSerial ==
  ASSUME Serial, BusInv, SerialInv, [Next]_vars
  PROVE  SerialInv' /\ QueueStep
<1> USE ClientFacts
<1>1. CASE BusInit
  BY <1>1, BusInitSerial
<1>2. CASE BusShutdown
  BY <1>2, BusShutdownSerial
<1>3. CASE \E t \in Threads : CallClosed(t)
  BY <1>3, CallClosedSerial
<1>4. CASE \E t \in Producers : \E e \in Events : CallPublish(t, e)
  BY <1>4, CallPublishSerial DEF Serial
<1>5. CASE \E t \in Producers : PublishStep(t)
  BY <1>5, RefuseSerial, AdmitSerial, ClaimSerial, CopyInSerial DEF PublishStep, Serial
<1>6. CASE \E t \in Consumers : CallConsume(t)
  BY <1>6, CallConsumeSerial DEF Serial
<1>7. CASE \E t \in Consumers : ConsumeStep(t)
  BY <1>7, MissSerial, UndoSerial, TakeSerial, CopyOutSerial DEF ConsumeStep, Serial
<1>8. CASE \E t \in Observers : CallPending(t) \/ Answer(t)
  BY <1>8, CallPendingSerial, AnswerSerial DEF Serial
<1>9. CASE UNCHANGED vars
  <2>1. Oldest' = Oldest /\ Newest' = Newest
    BY <1>9, SerialView DEF vars
  <2>2. IndexInv'
    BY <1>9, <2>1 DEF vars, SerialInv, IndexInv
  <2>3. CopyInv'
    BY <1>9 DEF vars, SerialInv, CopyInv
  <2>4. Contents' = Contents
    BY <1>9, <2>1 DEF vars, Contents
  <2>5. QED
    BY <1>9, <2>2, <2>3, <2>4 DEF vars, SerialInv, QueueStep, Queue!vars
<1>10. QED
  BY <1>1, <1>2, <1>3, <1>4, <1>5, <1>6, <1>7, <1>8, <1>9 DEF Next

(* A lone client's counters and copies always agree with the events in the   *)
(* ring (event_bus.c:31-62), for every capacity and every event.            *)
THEOREM SerialInvariant ==
  ASSUME Serial
  PROVE  Spec => []SerialInv
<1>1. Init => SerialInv
  BY InitSerial
<1>2. BusInv /\ SerialInv /\ [Next]_vars => SerialInv'
  BY StepSerial
<1>3. QED
  BY <1>1, <1>2, BusInvariant, PTL DEF Spec

(* For a lone client the bus is the bounded first-in first-out queue that    *)
(* test_event_bus.c expects: it answers full exactly when it holds Capacity  *)
(* events, empty exactly when it holds none, counts them exactly, and gives  *)
(* back whole events in the order of their publishing, for every capacity    *)
(* and every event.                                                         *)
THEOREM QueueImplemented ==
  ASSUME Serial
  PROVE  Spec => QueueSpec
<1>1. Init => Queue!Init
  BY InitSerial
<1>2. BusInv /\ SerialInv /\ [Next]_vars => [Queue!Next]_(Queue!vars)
  BY StepSerial DEF QueueStep
<1>3. QED
  BY <1>1, <1>2, BusInvariant, SerialInvariant, PTL
     DEF Spec, QueueSpec, Queue!Spec

(* What a bounded queue gives was put into it.                               *)
QueueType ==
  /\ Contents \in Seq({Uniform(e) : e \in Events})
  /\ ret[Client] = "got" => buf[Client] \in {Uniform(e) : e \in Events}

LEMMA QueueTypeStep ==
  ASSUME QueueType, [Queue!Next]_(Queue!vars)
  PROVE  QueueType'
<1> DEFINE Items == {Uniform(e) : e \in Events}
           item == IF ret[Client] = "got" THEN buf[Client] ELSE Uniform(Zero)
<1>1. Contents \in Seq(Items) /\ (ret[Client] = "got" => item \in Items)
  BY DEF QueueType
<1>2. Contents' \in Seq(Items) /\ (ret'[Client] = "got" => item' \in Items)
  <2>1. CASE Queue!Get
    <3>1. /\ Contents # <<>> /\ Contents' = Tail(Contents)
          /\ ret'[Client] = "got" /\ item' = Head(Contents)
      BY <2>1 DEF Queue!Get
    <3> HIDE DEF Items, item
    <3>2. QED
      BY <1>1, <3>1
  <2>2. ASSUME NEW e \in Items, Queue!Put(e)
        PROVE  Contents' \in Seq(Items) /\ ret'[Client] # "got"
    <3>1. Contents' = Append(Contents, e) /\ ret'[Client] = "ok"
      BY <2>2 DEF Queue!Put
    <3> HIDE DEF Items
    <3>2. QED
      BY <1>1, <2>2, <3>1
  <2>3. CASE Queue!Close
    <3>1. Contents' = <<>> /\ ret'[Client] = ret[Client] /\ item' = item
      BY <2>3 DEF Queue!Close
    <3> HIDE DEF Items, item
    <3>2. QED
      BY <1>1, <3>1
  <2>4. CASE Queue!Open \/ UNCHANGED Queue!vars
    <3>1. Contents' = Contents /\ ret'[Client] = ret[Client] /\ item' = item
      BY <2>4 DEF Queue!Open, Queue!vars
    <3> HIDE DEF Items, item
    <3>2. QED
      BY <1>1, <3>1
  <2>5. CASE Queue!CallClosed \/ Queue!Call \/ Queue!PutFull \/ Queue!GetEmpty \/ Queue!Count
    <3>1. Contents' = Contents /\ ret'[Client] # "got"
      BY <2>5 DEF Queue!CallClosed, Queue!Call, Queue!PutFull, Queue!GetEmpty, Queue!Count
    <3> HIDE DEF Items, item
    <3>2. QED
      BY <1>1, <3>1
  <2>6. QED
    BY <2>1, <2>2, <2>3, <2>4, <2>5 DEF Queue!Next
<1>3. QED
  BY <1>2 DEF QueueType

(* A lone client gets whole published events: nobody else copies while it    *)
(* does (event_bus.c:39, 53).  It is what racing threads do not get.        *)
THEOREM LoneClientReceivesIntact ==
  ASSUME Serial
  PROVE  Spec => []ReceivedIntact
<1>1. Queue!Init => QueueType
  BY DEF Queue!Init, QueueType
<1>2. QueueType => ReceivedIntact
  BY DEF QueueType, ReceivedIntact, Serial
<1>3. QED
  BY <1>1, <1>2, QueueTypeStep, QueueImplemented, PTL DEF QueueSpec, Queue!Spec
=============================================================================

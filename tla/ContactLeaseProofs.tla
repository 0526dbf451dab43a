-------------------------- MODULE ContactLeaseProofs --------------------------
(* Proofs about ContactLease for any nodes, direct messages and removals,   *)
(* any size of the radio's contact list and any number of failures.         *)
EXTENDS ContactLease, FiniteSetTheorems, TLAPS

TypeSets ==
  /\ onRadio \subseteq Keys /\ cache \subseteq Keys /\ verified \subseteq Keys
  /\ listed \subseteq Keys /\ hasList \in BOOLEAN /\ fresh \in BOOLEAN
  /\ claims \subseteq Keys /\ doubtful \subseteq Keys
TypeTasks ==
  /\ pc \in [Tasks -> DmPlaces \cup RemovalPlaces]
  /\ \A d \in Dms : pc[d] \in DmPlaces
  /\ \A p \in Removals : pc[p] \in RemovalPlaces
TypeRemovals == kind \in [Removals -> Kinds \cup {"none"}] /\ own \in [Removals -> BOOLEAN]
TypeQueue == ahead \in [Tasks -> SUBSET Tasks]
TypeFaults == faults \in 0..MaxFaults

(* The DMs that hold a lease of a key. *)
Leases(k) == {d \in Dms : KeyOf[d] = k /\ pc[d] \notin {"idle", "end"}}

(* The count of leases is the number of DMs under way. *)
CountInv ==
  /\ active \in [Keys -> Int]
  /\ \A k \in Keys : active[k] = Cardinality(Leases(k))

(* A contact that was verified, or is in a fresh list, is on the radio but  *)
(* for the doubtful ones.                                                   *)
LookInv ==
  /\ verified \subseteq onRadio \cup doubtful
  /\ fresh /\ hasList => listed \subseteq onRadio \cup doubtful

(* A claim belongs to one removal, which is under way. *)
ClaimInv ==
  /\ \A p \in Removals : own[p] => KeyOf[p] \in claims /\ pc[p] \notin {"idle", "end"}
  /\ \A p, q \in Removals : own[p] /\ own[q] /\ KeyOf[p] = KeyOf[q] => p = q
  /\ \A k \in claims : \E p \in Removals : own[p] /\ KeyOf[p] = k

(* While a removal is at the radio under its claim, no DM to that node goes *)
(* beyond the recipient's lock.                                             *)
RemovalInv ==
  \A p \in Removals : pc[p] = "remove" =>
    \/ KeyOf[p] \in doubtful
    \/ own[p] /\ \A d \in Dms : KeyOf[d] = KeyOf[p] => pc[d] \in {"idle", "lock", "end"}

SendInv == LeaseHoldsContact

IInv ==
  /\ TypeSets /\ TypeTasks /\ TypeRemovals /\ TypeQueue /\ TypeFaults
  /\ CountInv /\ LookInv /\ ClaimInv /\ RemovalInv /\ SendInv

-----------------------------------------------------------------------------
(* Lemmas about leases                                                      *)

LEMMA LeasesFinite ==
  ASSUME NEW k
  PROVE  IsFiniteSet(Leases(k)) /\ Cardinality(Leases(k)) \in Nat
<1>1. IsFiniteSet(Dms)
  BY ContactLeaseAssumption DEF ContactLeaseAssumption
<1>2. Leases(k) \subseteq Dms
  BY DEF Leases
<1> QED
  BY <1>1, <1>2, FS_Subset, FS_CardinalityType

(* A key that is not in use has no DM under way. *)
LEMMA NotInUse ==
  ASSUME CountInv, NEW k \in Keys, ~IsInUse(k)
  PROVE  Leases(k) = {}
<1>1. Cardinality(Leases(k)) = 0
  BY LeasesFinite DEF CountInv, IsInUse
<1> QED
  BY <1>1, LeasesFinite, FS_EmptySet

LEMMA KeysOfTasks ==
  /\ \A d \in Dms : KeyOf[d] \in Keys /\ d \in Tasks /\ d \notin Removals
  /\ \A p \in Removals : KeyOf[p] \in Keys /\ p \in Tasks /\ p \notin Dms
BY ContactLeaseAssumption DEF ContactLeaseAssumption, Tasks

(* A task that moves leaves the others where they are, and the order at the *)
(* radio one between tasks.                                                 *)
LEMMA MovesAlone ==
  ASSUME TypeTasks, TypeQueue, NEW t \in Tasks, NEW place, GoTo(t, place)
  PROVE  /\ pc' = [pc EXCEPT ![t] = place]
         /\ pc'[t] = place
         /\ \A u \in Tasks \ {t} : pc'[u] = pc[u]
         /\ TypeQueue'
<1>1. pc' = [pc EXCEPT ![t] = place]
  BY DEF GoTo
<1>2. Waiting \subseteq Tasks
  BY DEF Waiting
<1>3. TypeQueue'
  BY <1>2 DEF GoTo, TypeQueue
<1> QED
  BY <1>1, <1>3 DEF TypeTasks

(* Removals do not count as leases. *)
LEMMA RemovalKeepsCount ==
  ASSUME TypeTasks, TypeQueue, CountInv, NEW p \in Removals, NEW place, GoTo(p, place), UNCHANGED active
  PROVE  CountInv'
<1>1. \A d \in Dms : pc'[d] = pc[d]
  BY MovesAlone, KeysOfTasks
<1>2. \A k \in Keys : Leases(k)' = Leases(k)
  BY <1>1 DEF Leases
<1> QED
  BY <1>2 DEF CountInv

(* How a DM with a lease goes on. *)
DmMoves(d) ==
  /\ pc[d] \notin {"idle", "end"}
  /\ \/ Leave(d)
     \/ \E place \in DmPlaces \ {"idle", "lock", "end"} : GoesOn(d, place)

LEMMA MoveKeepsCount ==
  ASSUME TypeTasks, TypeQueue, CountInv, NEW d \in Dms, DmMoves(d)
  PROVE  CountInv'
<1>1. d \in Tasks /\ KeyOf[d] \in Keys /\ d \in Leases(KeyOf[d])
  BY KeysOfTasks DEF DmMoves, Leases
<1>2. CASE Leave(d)
  <2>1. pc'[d] = "end" /\ \A u \in Dms \ {d} : pc'[u] = pc[u]
    BY <1>1, <1>2, MovesAlone, KeysOfTasks DEF Leave
  <2>2. Leases(KeyOf[d])' = Leases(KeyOf[d]) \ {d}
    BY <2>1 DEF Leases
  <2>3. \A k \in Keys \ {KeyOf[d]} : Leases(k)' = Leases(k)
    BY <2>1 DEF Leases
  <2>4. Cardinality(Leases(KeyOf[d])') = Cardinality(Leases(KeyOf[d])) - 1
    BY <1>1, <2>2, LeasesFinite, FS_RemoveElement
  <2>5. active' = [active EXCEPT ![KeyOf[d]] = @ - 1]
    BY <1>2 DEF Leave
  <2> QED
    BY <1>1, <2>3, <2>4, <2>5 DEF CountInv
<1>3. ASSUME NEW place \in DmPlaces \ {"idle", "lock", "end"}, GoesOn(d, place)
      PROVE  CountInv'
  <2>1. pc'[d] = place /\ \A u \in Dms \ {d} : pc'[u] = pc[u]
    BY <1>1, <1>3, MovesAlone, KeysOfTasks DEF GoesOn
  <2>2. \A k \in Keys : Leases(k)' = Leases(k)
    BY <1>1, <2>1 DEF Leases
  <2> QED
    BY <1>3, <2>2 DEF CountInv, GoesOn
<1> QED
  BY <1>2, <1>3 DEF DmMoves

-----------------------------------------------------------------------------
(* What the steps of DMs and of removals have in common                     *)

(* A DM that goes on past the recipient's lock only while nobody claims its *)
(* contact, and to send only with its contact on the radio.                 *)
LEMMA DmStep ==
  ASSUME IInv, NEW d \in Dms, DmMoves(d), UNCHANGED removal,
         TypeSets', TypeFaults', LookInv', onRadio \subseteq onRadio',
         pc[d] = "lock" => KeyOf[d] \notin claims \/ pc'[d] = "end",
         pc'[d] = "send" => KeyOf[d] \in onRadio' \cup doubtful'
  PROVE  IInv'
<1>1. d \in Tasks /\ d \notin Removals
  BY KeysOfTasks
<1>2. PICK place \in DmPlaces \ {"idle", "lock"} : GoTo(d, place)
  BY DEF DmMoves, Leave, GoesOn, DmPlaces
<1>3. /\ pc' = [pc EXCEPT ![d] = place] /\ pc'[d] = place
      /\ \A u \in Tasks \ {d} : pc'[u] = pc[u]
      /\ TypeQueue'
  BY <1>1, <1>2, MovesAlone DEF IInv
<1>4. \A p \in Removals : pc'[p] = pc[p]
  BY <1>1, <1>3, KeysOfTasks
<1>5. claims' = claims /\ kind' = kind /\ own' = own /\ doubtful' = doubtful
  BY DEF removal
<1>6. TypeTasks'
  <2>1. pc' \in [Tasks -> DmPlaces \cup RemovalPlaces]
    BY <1>2, <1>3 DEF IInv, TypeTasks
  <2> QED
    BY <1>2, <1>3, <1>4, <2>1, KeysOfTasks DEF IInv, TypeTasks
<1>7. TypeRemovals'
  BY <1>5 DEF IInv, TypeRemovals
<1>8. CountInv'
  BY MoveKeepsCount DEF IInv
<1>9. ClaimInv'
  BY <1>4, <1>5 DEF IInv, ClaimInv
<1>10. RemovalInv'
  <2> SUFFICES ASSUME NEW p \in Removals, pc'[p] = "remove", KeyOf[p] \notin doubtful
               PROVE  own[p] /\ \A e \in Dms : KeyOf[e] = KeyOf[p] => pc'[e] \in {"idle", "lock", "end"}
    BY <1>5 DEF RemovalInv
  <2>1. own[p] /\ \A e \in Dms : KeyOf[e] = KeyOf[p] => pc[e] \in {"idle", "lock", "end"}
    BY <1>4 DEF IInv, RemovalInv
  <2>2. KeyOf[p] \in claims
    BY <2>1 DEF IInv, ClaimInv
  <2>3. KeyOf[d] = KeyOf[p] => pc'[d] = "end"
    BY <2>1, <2>2 DEF DmMoves
  <2> QED
    BY <1>3, <2>1, <2>3, KeysOfTasks
<1>11. SendInv'
  BY <1>3, <1>5, KeysOfTasks DEF IInv, SendInv, LeaseHoldsContact
<1> QED
  BY <1>3, <1>6, <1>7, <1>8, <1>9, <1>10, <1>11 DEF IInv

(* A removal under way that goes on, keeping its claim or giving it back,   *)
(* and takes nothing from the radio but its contact.                        *)
LEMMA RemovalStep ==
  ASSUME IInv, NEW p \in Removals, NEW place \in {"sleep", "relist", "end"}, GoTo(p, place),
         pc[p] \notin {"idle", "end"}, UNCHANGED active,
         Release(p) \/ (place # "end" /\ UNCHANGED <<claims, own>>),
         kind' \in [Removals -> Kinds \cup {"none"}],
         TypeSets', TypeFaults', LookInv', doubtful \subseteq doubtful',
         onRadio \subseteq onRadio' \/ (pc[p] = "remove" /\ onRadio \ {KeyOf[p]} \subseteq onRadio')
  PROVE  IInv'
<1>1. p \in Tasks /\ p \notin Dms /\ KeyOf[p] \in Keys
  BY KeysOfTasks
<1>2. /\ pc' = [pc EXCEPT ![p] = place] /\ pc'[p] = place
      /\ \A u \in Tasks \ {p} : pc'[u] = pc[u]
      /\ TypeQueue'
  BY <1>1, MovesAlone DEF IInv
<1>3. \A d \in Dms : pc'[d] = pc[d]
  BY <1>1, <1>2, KeysOfTasks
<1>4. \A q \in Removals \ {p} : pc'[q] = pc[q]
  BY <1>2, KeysOfTasks
<1>5. TypeTasks'
  <2>1. pc' \in [Tasks -> DmPlaces \cup RemovalPlaces] /\ place \in RemovalPlaces
    BY <1>2 DEF IInv, TypeTasks, RemovalPlaces
  <2> QED
    BY <1>2, <1>3, <1>4, <2>1 DEF IInv, TypeTasks
<1>6. /\ own' \in [Removals -> BOOLEAN]
      /\ \A q \in Removals \ {p} : own'[q] <=> own[q]
      /\ own'[p] => own[p] /\ place # "end"
  BY DEF IInv, TypeRemovals, Release
<1>7. \A q \in Removals : own'[q] => KeyOf[q] \in claims'
  <2> SUFFICES ASSUME NEW q \in Removals, own'[q]
               PROVE  KeyOf[q] \in claims'
    OBVIOUS
  <2>1. own[q] /\ KeyOf[q] \in claims
    BY <1>6 DEF IInv, ClaimInv
  <2>2. CASE UNCHANGED <<claims, own>>
    BY <2>1, <2>2
  <2>3. CASE Release(p)
    <3>1. q # p
      BY <2>3 DEF Release, IInv, TypeRemovals
    <3>2. own[p] => KeyOf[p] # KeyOf[q]
      BY <2>1, <3>1 DEF IInv, ClaimInv
    <3> QED
      BY <2>1, <2>3, <3>2 DEF Release
  <2> QED
    BY <2>2, <2>3
<1>8. ClaimInv'
  <2>1. \A q \in Removals : own'[q] => pc'[q] \notin {"idle", "end"}
    BY <1>2, <1>4, <1>6 DEF IInv, ClaimInv
  <2>2. \A q, r \in Removals : own'[q] /\ own'[r] /\ KeyOf[q] = KeyOf[r] => q = r
    BY <1>6 DEF IInv, ClaimInv
  <2>3. ASSUME NEW k \in claims' PROVE \E q \in Removals : own'[q] /\ KeyOf[q] = k
    <3>1. k \in claims
      BY <2>3 DEF Release
    <3>2. PICK q \in Removals : own[q] /\ KeyOf[q] = k
      BY <3>1 DEF IInv, ClaimInv
    <3>3. CASE UNCHANGED <<claims, own>>
      BY <3>2, <3>3
    <3>4. CASE Release(p)
      <4>1. q # p
        BY <2>3, <3>2, <3>4 DEF Release
      <4> QED
        BY <1>6, <3>2, <4>1
    <3> QED
      BY <3>3, <3>4
  <2> QED
    BY <1>7, <2>1, <2>2, <2>3 DEF ClaimInv
<1>9. RemovalInv'
  <2> SUFFICES ASSUME NEW q \in Removals, pc'[q] = "remove", KeyOf[q] \notin doubtful'
               PROVE  own'[q] /\ \A d \in Dms : KeyOf[d] = KeyOf[q] => pc'[d] \in {"idle", "lock", "end"}
    BY DEF RemovalInv
  <2>1. q # p /\ pc[q] = "remove" /\ KeyOf[q] \notin doubtful
    BY <1>2, <1>4
  <2> QED
    BY <1>3, <1>6, <2>1 DEF IInv, RemovalInv
<1>10. SendInv'
  <2> SUFFICES ASSUME NEW d \in Dms, pc'[d] = "send"
               PROVE  KeyOf[d] \in onRadio' \cup doubtful'
    BY DEF SendInv, LeaseHoldsContact
  <2>1. pc[d] = "send" /\ KeyOf[d] \in onRadio \cup doubtful
    BY <1>3 DEF IInv, SendInv, LeaseHoldsContact
  <2>2. pc[p] = "remove" /\ KeyOf[p] = KeyOf[d] => KeyOf[d] \in doubtful
    BY <2>1 DEF IInv, RemovalInv
  <2> QED
    BY <2>1, <2>2
<1>11. CountInv'
  BY RemovalKeepsCount DEF IInv
<1>12. TypeRemovals'
  BY <1>6 DEF TypeRemovals
<1> QED
  BY <1>2, <1>5, <1>8, <1>9, <1>10, <1>11, <1>12 DEF IInv
-----------------------------------------------------------------------------
(* Each step preserves the invariant                                        *)

LEMMA Initially == Init => IInv
<1> SUFFICES ASSUME Init PROVE IInv
  OBVIOUS
<1>1. TypeSets /\ TypeRemovals /\ TypeQueue /\ TypeFaults
  <2>1. TypeSets
    BY DEF Init, TypeSets
  <2>2. TypeRemovals /\ TypeQueue
    BY DEF Init, TypeRemovals, TypeQueue
  <2>3. TypeFaults
    BY ContactLeaseAssumption DEF Init, TypeFaults, ContactLeaseAssumption
  <2> QED
    BY <2>1, <2>2, <2>3
<1>2. TypeTasks
  BY DEF Init, TypeTasks, DmPlaces, RemovalPlaces, Tasks
<1>3. CountInv
  <2>1. \A k \in Keys : Leases(k) = {}
    BY DEF Init, Leases, Tasks
  <2> QED
    BY <2>1, FS_EmptySet DEF Init, CountInv
<1>4. LookInv /\ ClaimInv /\ RemovalInv /\ SendInv
  BY KeysOfTasks DEF Init, LookInv, ClaimInv, RemovalInv, SendInv, LeaseHoldsContact
<1> QED
  BY <1>1, <1>2, <1>3, <1>4 DEF IInv

LEMMA FaultTyped ==
  /\ TypeFaults /\ Fault => TypeFaults'
  /\ TypeFaults /\ NoFault => TypeFaults'
BY ContactLeaseAssumption DEF TypeFaults, Fault, NoFault, ContactLeaseAssumption

LEMMA UseSafe ==
  ASSUME IInv, NEW d \in Dms, Use(d)
  PROVE  IInv'
<1>1. d \in Tasks /\ d \notin Removals /\ KeyOf[d] \in Keys
  BY KeysOfTasks
<1>2. /\ pc[d] = "idle" /\ GoTo(d, "lock") /\ NoFault
      /\ active' = [active EXCEPT ![KeyOf[d]] = @ + 1]
      /\ UNCHANGED <<onRadio, lookup, removal>>
  BY DEF Use
<1>3. /\ pc' = [pc EXCEPT ![d] = "lock"] /\ pc'[d] = "lock"
      /\ \A u \in Tasks \ {d} : pc'[u] = pc[u]
      /\ TypeQueue'
  BY <1>1, <1>2, MovesAlone DEF IInv
<1>4. \A p \in Removals : pc'[p] = pc[p]
  BY <1>1, <1>3, KeysOfTasks
<1>5. CountInv'
  <2>1. Leases(KeyOf[d])' = Leases(KeyOf[d]) \cup {d} /\ d \notin Leases(KeyOf[d])
    BY <1>1, <1>2, <1>3, KeysOfTasks DEF Leases
  <2>2. \A k \in Keys \ {KeyOf[d]} : Leases(k)' = Leases(k)
    BY <1>3, KeysOfTasks DEF Leases
  <2>3. Cardinality(Leases(KeyOf[d])') = Cardinality(Leases(KeyOf[d])) + 1
    BY <2>1, LeasesFinite, FS_AddElement
  <2> QED
    BY <1>1, <1>2, <2>2, <2>3 DEF IInv, CountInv
<1>6. TypeTasks'
  <2>1. pc' \in [Tasks -> DmPlaces \cup RemovalPlaces]
    BY <1>3 DEF IInv, TypeTasks, DmPlaces
  <2> QED
    BY <1>3, <1>4, <2>1, KeysOfTasks DEF IInv, TypeTasks, DmPlaces
<1>7. TypeSets' /\ TypeRemovals' /\ TypeFaults' /\ LookInv'
  BY <1>2, FaultTyped DEF IInv, TypeSets, TypeRemovals, LookInv, lookup, removal
<1>8. ClaimInv' /\ RemovalInv' /\ SendInv'
  BY <1>2, <1>3, <1>4, KeysOfTasks DEF IInv, ClaimInv, RemovalInv, SendInv, LeaseHoldsContact, removal
<1> QED
  BY <1>3, <1>5, <1>6, <1>7, <1>8 DEF IInv

LEMMA ResolveSafe ==
  ASSUME IInv, NEW d \in Dms, Resolve(d)
  PROVE  IInv'
<1>1. d \in Tasks /\ KeyOf[d] \in Keys
  BY KeysOfTasks
<1>2. DmMoves(d)
  BY DEF Resolve, DmMoves, DmPlaces
<1>3. UNCHANGED removal /\ TypeFaults' /\ onRadio \subseteq onRadio'
  BY FaultTyped DEF IInv, Resolve
<1>4. \A place : GoTo(d, place) => pc'[d] = place
  BY <1>1, MovesAlone DEF IInv
<1>5. TypeSets' /\ LookInv'
  BY <1>1, <1>3 DEF IInv, TypeSets, LookInv, Resolve, lookup, removal
<1>6. pc[d] = "lock" => KeyOf[d] \notin claims \/ pc'[d] = "end"
  BY <1>4 DEF Resolve, Leave
<1>7. pc'[d] = "send" => KeyOf[d] \in onRadio' \cup doubtful'
  BY <1>1, <1>3, <1>4 DEF IInv, TypeTasks, TypeSets, LookInv, SendInv, LeaseHoldsContact, Resolve, lookup, removal, Leave, GoesOn
<1> QED
  BY <1>2, <1>3, <1>5, <1>6, <1>7, DmStep

LEMMA KeyAnsweredSafe ==
  ASSUME IInv, NEW d \in Dms, KeyAnswered(d)
  PROVE  IInv'
<1>1. d \in Tasks /\ KeyOf[d] \in Keys
  BY KeysOfTasks
<1>2. DmMoves(d)
  BY DEF KeyAnswered, DmMoves, DmPlaces
<1>3. UNCHANGED removal /\ TypeFaults' /\ onRadio \subseteq onRadio'
  BY FaultTyped DEF IInv, KeyAnswered
<1>4. \A place : GoTo(d, place) => pc'[d] = place
  BY <1>1, MovesAlone DEF IInv
<1>5. TypeSets' /\ LookInv'
  BY <1>1, <1>3 DEF IInv, TypeSets, LookInv, KeyAnswered, Cached, removal
<1>6. pc[d] = "lock" => KeyOf[d] \notin claims \/ pc'[d] = "end"
  BY <1>4 DEF KeyAnswered, Leave
<1>7. pc'[d] = "send" => KeyOf[d] \in onRadio' \cup doubtful'
  BY <1>1, <1>3, <1>4 DEF IInv, TypeTasks, TypeSets, LookInv, SendInv, LeaseHoldsContact, KeyAnswered, Cached, removal, Leave, GoesOn
<1> QED
  BY <1>2, <1>3, <1>5, <1>6, <1>7, DmStep

LEMMA RefreshSafe ==
  ASSUME IInv, NEW d \in Dms, Refresh(d)
  PROVE  IInv'
<1>1. d \in Tasks /\ KeyOf[d] \in Keys
  BY KeysOfTasks
<1>2. DmMoves(d)
  BY DEF Refresh, DmMoves, DmPlaces, LookUp
<1>3. UNCHANGED removal /\ TypeFaults' /\ onRadio \subseteq onRadio'
  BY FaultTyped DEF IInv, Refresh
<1>4. \A place : GoTo(d, place) => pc'[d] = place
  BY <1>1, MovesAlone DEF IInv
<1>5. TypeSets' /\ LookInv'
  <2>1. onRadio' = onRadio /\ listed' = listed /\ claims' = claims /\ doubtful' = doubtful
    BY DEF Refresh, removal
  <2>2. CASE fresh /\ hasList /\ UNCHANGED <<hasList, fresh>>
    <3>1. (KeyOf[d] \in listed /\ Cached(d)) \/ UNCHANGED <<cache, verified>>
      BY <2>2 DEF Refresh
    <3> QED
      BY <1>1, <2>1, <2>2, <3>1 DEF IInv, TypeSets, LookInv, Cached
  <2>3. CASE ~hasList' /\ hasList' \in BOOLEAN /\ fresh' \in BOOLEAN /\ UNCHANGED <<cache, verified>>
    BY <2>1, <2>3 DEF IInv, TypeSets, LookInv
  <2>4. \/ fresh /\ hasList /\ UNCHANGED <<hasList, fresh>>
        \/ ~hasList' /\ hasList' \in BOOLEAN /\ fresh' \in BOOLEAN /\ UNCHANGED <<cache, verified>>
    BY DEF Refresh, IInv, TypeSets
  <2> QED
    BY <2>2, <2>3, <2>4
<1>6. pc[d] = "lock" => KeyOf[d] \notin claims \/ pc'[d] = "end"
  BY <1>4 DEF Refresh, Leave
<1>7. pc'[d] = "send" => KeyOf[d] \in onRadio' \cup doubtful'
  BY <1>1, <1>3, <1>4 DEF IInv, TypeTasks, TypeSets, LookInv, SendInv, LeaseHoldsContact, Refresh, LookUp, Cached, removal, Leave, GoesOn
<1> QED
  BY <1>2, <1>3, <1>5, <1>6, <1>7, DmStep

LEMMA ListAnsweredSafe ==
  ASSUME IInv, NEW d \in Dms, ListAnswered(d)
  PROVE  IInv'
<1>1. d \in Tasks /\ KeyOf[d] \in Keys
  BY KeysOfTasks
<1>2. DmMoves(d)
  BY DEF ListAnswered, DmMoves, DmPlaces, LookUp
<1>3. UNCHANGED removal /\ TypeFaults' /\ onRadio \subseteq onRadio'
  BY FaultTyped DEF IInv, ListAnswered
<1>4. \A place : GoTo(d, place) => pc'[d] = place
  BY <1>1, MovesAlone DEF IInv
<1>5. TypeSets' /\ LookInv'
  BY <1>1, <1>3 DEF IInv, TypeSets, LookInv, ListAnswered, LookUp, Rereads, removal
<1>6. pc[d] = "lock" => KeyOf[d] \notin claims \/ pc'[d] = "end"
  BY <1>4 DEF ListAnswered, Leave
<1>7. pc'[d] = "send" => KeyOf[d] \in onRadio' \cup doubtful'
  BY <1>1, <1>3, <1>4 DEF IInv, TypeTasks, TypeSets, LookInv, SendInv, LeaseHoldsContact, ListAnswered, LookUp, Rereads, removal, Leave, GoesOn
<1> QED
  BY <1>2, <1>3, <1>5, <1>6, <1>7, DmStep

LEMMA RestoreSafe ==
  ASSUME IInv, NEW d \in Dms, Restore(d)
  PROVE  IInv'
<1>1. d \in Tasks /\ KeyOf[d] \in Keys
  BY KeysOfTasks
<1>2. DmMoves(d)
  BY DEF Restore, DmMoves, DmPlaces
<1>3. UNCHANGED removal /\ TypeFaults' /\ onRadio \subseteq onRadio'
  BY FaultTyped DEF IInv, Restore
<1>4. \A place : GoTo(d, place) => pc'[d] = place
  BY <1>1, MovesAlone DEF IInv
<1>5. TypeSets' /\ LookInv'
  BY <1>1, <1>3 DEF IInv, TypeSets, LookInv, Restore, lookup, removal
<1>6. pc[d] = "lock" => KeyOf[d] \notin claims \/ pc'[d] = "end"
  BY <1>4 DEF Restore, Leave
<1>7. pc'[d] = "send" => KeyOf[d] \in onRadio' \cup doubtful'
  BY <1>1, <1>3, <1>4 DEF IInv, TypeTasks, TypeSets, LookInv, SendInv, LeaseHoldsContact, Restore, lookup, removal, Leave, GoesOn
<1> QED
  BY <1>2, <1>3, <1>5, <1>6, <1>7, DmStep

LEMMA AddAnsweredSafe ==
  ASSUME IInv, NEW d \in Dms, AddAnswered(d)
  PROVE  IInv'
<1>1. d \in Tasks /\ KeyOf[d] \in Keys
  BY KeysOfTasks
<1>2. DmMoves(d)
  BY DEF AddAnswered, DmMoves, DmPlaces
<1>3. UNCHANGED removal /\ TypeFaults' /\ onRadio \subseteq onRadio'
  BY FaultTyped DEF IInv, AddAnswered
<1>4. \A place : GoTo(d, place) => pc'[d] = place
  BY <1>1, MovesAlone DEF IInv
<1>5. TypeSets' /\ LookInv'
  BY <1>1, <1>3 DEF IInv, TypeSets, LookInv, AddAnswered, lookup, removal
<1>6. pc[d] = "lock" => KeyOf[d] \notin claims \/ pc'[d] = "end"
  BY <1>4 DEF AddAnswered, Leave
<1>7. pc'[d] = "send" => KeyOf[d] \in onRadio' \cup doubtful'
  BY <1>1, <1>3, <1>4 DEF IInv, TypeTasks, TypeSets, LookInv, SendInv, LeaseHoldsContact, AddAnswered, lookup, removal, Leave, GoesOn
<1> QED
  BY <1>2, <1>3, <1>5, <1>6, <1>7, DmStep

LEMMA ConfirmAnsweredSafe ==
  ASSUME IInv, NEW d \in Dms, ConfirmAnswered(d)
  PROVE  IInv'
<1>1. d \in Tasks /\ KeyOf[d] \in Keys
  BY KeysOfTasks
<1>2. DmMoves(d)
  BY DEF ConfirmAnswered, DmMoves, DmPlaces
<1>3. UNCHANGED removal /\ TypeFaults' /\ onRadio \subseteq onRadio'
  BY FaultTyped DEF IInv, ConfirmAnswered
<1>4. \A place : GoTo(d, place) => pc'[d] = place
  BY <1>1, MovesAlone DEF IInv
<1>5. TypeSets' /\ LookInv'
  BY <1>1, <1>3 DEF IInv, TypeSets, LookInv, ConfirmAnswered, Cached, removal
<1>6. pc[d] = "lock" => KeyOf[d] \notin claims \/ pc'[d] = "end"
  BY <1>4 DEF ConfirmAnswered, Leave
<1>7. pc'[d] = "send" => KeyOf[d] \in onRadio' \cup doubtful'
  BY <1>1, <1>3, <1>4 DEF IInv, TypeTasks, TypeSets, LookInv, SendInv, LeaseHoldsContact, ConfirmAnswered, Cached, removal, Leave, GoesOn
<1> QED
  BY <1>2, <1>3, <1>5, <1>6, <1>7, DmStep

LEMMA SendAnsweredSafe ==
  ASSUME IInv, NEW d \in Dms, SendAnswered(d)
  PROVE  IInv'
<1>1. d \in Tasks /\ KeyOf[d] \in Keys
  BY KeysOfTasks
<1>2. DmMoves(d)
  BY DEF SendAnswered, DmMoves, DmPlaces
<1>3. UNCHANGED removal /\ TypeFaults' /\ onRadio \subseteq onRadio'
  BY FaultTyped DEF IInv, SendAnswered
<1>4. \A place : GoTo(d, place) => pc'[d] = place
  BY <1>1, MovesAlone DEF IInv
<1>5. TypeSets' /\ LookInv'
  BY <1>1, <1>3 DEF IInv, TypeSets, LookInv, SendAnswered, lookup, removal
<1>6. pc[d] = "lock" => KeyOf[d] \notin claims \/ pc'[d] = "end"
  BY <1>4 DEF SendAnswered, Leave
<1>7. pc'[d] = "send" => KeyOf[d] \in onRadio' \cup doubtful'
  BY <1>1, <1>3, <1>4 DEF IInv, TypeTasks, TypeSets, LookInv, SendInv, LeaseHoldsContact, SendAnswered, lookup, removal, Leave, GoesOn
<1> QED
  BY <1>2, <1>3, <1>5, <1>6, <1>7, DmStep

LEMMA FrameFailsSafe ==
  ASSUME IInv, NEW d \in Dms, FrameFails(d)
  PROVE  IInv'
<1>1. d \in Tasks /\ KeyOf[d] \in Keys
  BY KeysOfTasks
<1>2. DmMoves(d)
  BY DEF FrameFails, DmMoves, DmPlaces
<1>3. UNCHANGED removal /\ TypeFaults' /\ onRadio \subseteq onRadio'
  BY FaultTyped DEF IInv, FrameFails
<1>4. \A place : GoTo(d, place) => pc'[d] = place
  BY <1>1, MovesAlone DEF IInv
<1>5. TypeSets' /\ LookInv'
  BY <1>1, <1>3 DEF IInv, TypeSets, LookInv, FrameFails, lookup, removal
<1>6. pc[d] = "lock" => KeyOf[d] \notin claims \/ pc'[d] = "end"
  BY <1>4 DEF FrameFails, Leave
<1>7. pc'[d] = "send" => KeyOf[d] \in onRadio' \cup doubtful'
  BY <1>1, <1>3, <1>4 DEF IInv, TypeTasks, TypeSets, LookInv, SendInv, LeaseHoldsContact, FrameFails, lookup, removal, Leave, GoesOn
<1> QED
  BY <1>2, <1>3, <1>5, <1>6, <1>7, DmStep

LEMMA DeadlineExpiresSafe ==
  ASSUME IInv, NEW d \in Dms, DeadlineExpires(d)
  PROVE  IInv'
<1>1. d \in Tasks /\ KeyOf[d] \in Keys
  BY KeysOfTasks
<1>2. DmMoves(d)
  BY DEF DeadlineExpires, DmMoves, DmPlaces
<1>3. UNCHANGED removal /\ TypeFaults' /\ onRadio \subseteq onRadio'
  BY FaultTyped DEF IInv, DeadlineExpires
<1>4. \A place : GoTo(d, place) => pc'[d] = place
  BY <1>1, MovesAlone DEF IInv
<1>5. TypeSets' /\ LookInv'
  BY <1>1, <1>3 DEF IInv, TypeSets, LookInv, DeadlineExpires, lookup, removal
<1>6. pc[d] = "lock" => KeyOf[d] \notin claims \/ pc'[d] = "end"
  BY <1>4 DEF DeadlineExpires, Leave
<1>7. pc'[d] = "send" => KeyOf[d] \in onRadio' \cup doubtful'
  BY <1>1, <1>3, <1>4 DEF IInv, TypeTasks, TypeSets, LookInv, SendInv, LeaseHoldsContact, DeadlineExpires, lookup, removal, Leave, GoesOn
<1> QED
  BY <1>2, <1>3, <1>5, <1>6, <1>7, DmStep

LEMMA RemoveContactSafe ==
  ASSUME IInv, NEW p \in Removals, NEW as \in Kinds, RemoveContact(p, as)
  PROVE  IInv'
<1>1. p \in Tasks /\ p \notin Dms /\ KeyOf[p] \in Keys
  BY KeysOfTasks
<1>2. /\ pc[p] = "idle" /\ ~IsInUse(KeyOf[p]) /\ GoTo(p, "remove") /\ NoFault
      /\ kind' = [kind EXCEPT ![p] = as]
      /\ own' = [own EXCEPT ![p] = KeyOf[p] \notin claims]
      /\ claims' = claims \cup {KeyOf[p]}
      /\ doubtful' = doubtful \cup ({KeyOf[p]} \cap claims)
      /\ UNCHANGED <<onRadio, lookup, active>>
  BY DEF RemoveContact
<1>3. /\ pc' = [pc EXCEPT ![p] = "remove"] /\ pc'[p] = "remove"
      /\ \A u \in Tasks \ {p} : pc'[u] = pc[u]
      /\ TypeQueue'
  BY <1>1, <1>2, MovesAlone DEF IInv
<1>4. /\ \A d \in Dms : pc'[d] = pc[d]
      /\ \A q \in Removals \ {p} : pc'[q] = pc[q]
  BY <1>1, <1>3, KeysOfTasks
<1>5. /\ own' \in [Removals -> BOOLEAN]
      /\ own'[p] <=> KeyOf[p] \notin claims
      /\ \A q \in Removals \ {p} : own'[q] <=> own[q]
  <2>1. (KeyOf[p] \notin claims) \in BOOLEAN
    OBVIOUS
  <2> QED
    BY <1>2, <2>1 DEF IInv, TypeRemovals
<1>6. TypeTasks'
  <2>1. pc' \in [Tasks -> DmPlaces \cup RemovalPlaces]
    BY <1>3 DEF IInv, TypeTasks, RemovalPlaces
  <2> QED
    BY <1>3, <1>4, <2>1 DEF IInv, TypeTasks, RemovalPlaces
<1>7. TypeSets' /\ TypeRemovals' /\ TypeFaults' /\ LookInv'
  <2>1. TypeSets' /\ LookInv'
    BY <1>1, <1>2 DEF IInv, TypeSets, LookInv, lookup
  <2>2. TypeRemovals'
    BY <1>2, <1>5 DEF IInv, TypeRemovals
  <2> QED
    BY <1>2, <2>1, <2>2, FaultTyped DEF IInv
<1>8. CountInv'
  BY <1>2, RemovalKeepsCount DEF IInv
<1>9. ClaimInv'
  <2>1. \A q \in Removals \ {p} : own[q] /\ KeyOf[q] = KeyOf[p] => ~own'[p]
    BY <1>5 DEF IInv, ClaimInv
  <2>2. \A q \in Removals : own'[q] => KeyOf[q] \in claims' /\ pc'[q] \notin {"idle", "end"}
    BY <1>2, <1>3, <1>4, <1>5 DEF IInv, ClaimInv
  <2>3. \A q, r \in Removals : own'[q] /\ own'[r] /\ KeyOf[q] = KeyOf[r] => q = r
    BY <1>5, <2>1 DEF IInv, ClaimInv
  <2>4. ASSUME NEW k \in claims' PROVE \E q \in Removals : own'[q] /\ KeyOf[q] = k
    <3>1. CASE k = KeyOf[p] /\ k \notin claims
      BY <1>5, <3>1
    <3>2. CASE k \in claims
      <4>1. PICK q \in Removals : own[q] /\ KeyOf[q] = k
        BY <3>2 DEF IInv, ClaimInv
      <4>2. q # p
        BY <1>2, <4>1 DEF IInv, ClaimInv
      <4> QED
        BY <1>5, <4>1, <4>2
    <3> QED
      BY <1>2, <2>4, <3>1, <3>2
  <2> QED
    BY <2>2, <2>3, <2>4 DEF ClaimInv
<1>10. RemovalInv'
  <2> SUFFICES ASSUME NEW q \in Removals, pc'[q] = "remove", KeyOf[q] \notin doubtful'
               PROVE  own'[q] /\ \A d \in Dms : KeyOf[d] = KeyOf[q] => pc'[d] \in {"idle", "lock", "end"}
    BY DEF RemovalInv
  <2>1. CASE q = p
    <3>1. Leases(KeyOf[p]) = {}
      BY <1>1, <1>2, NotInUse DEF IInv
    <3>2. \A d \in Dms : KeyOf[d] = KeyOf[p] => pc[d] \in {"idle", "end"}
      BY <3>1 DEF Leases
    <3>3. KeyOf[p] \notin claims
      BY <1>2, <2>1
    <3> QED
      BY <1>4, <1>5, <2>1, <3>2, <3>3
  <2>2. CASE q # p
    BY <1>2, <1>4, <1>5, <2>2 DEF IInv, RemovalInv
  <2> QED
    BY <2>1, <2>2
<1>11. SendInv'
  BY <1>2, <1>4 DEF IInv, SendInv, LeaseHoldsContact
<1> QED
  BY <1>3, <1>6, <1>7, <1>8, <1>9, <1>10, <1>11 DEF IInv

LEMMA RemoveAnsweredSafe ==
  ASSUME IInv, NEW p \in Removals, RemoveAnswered(p)
  PROVE  IInv'
<1>1. p \in Tasks /\ KeyOf[p] \in Keys
  BY KeysOfTasks
<1>2. PICK place \in {"sleep", "end"} :
        /\ GoTo(p, place) /\ pc[p] = "remove" /\ UNCHANGED active
        /\ Release(p) \/ (place # "end" /\ UNCHANGED <<claims, own>>)
        /\ kind' = kind \/ kind' = [kind EXCEPT ![p] = "none"]
  BY DEF RemoveAnswered, Ends
<1>3. /\ onRadio' = onRadio \ {KeyOf[p]}
      /\ doubtful' = doubtful \cup LeavesListed(KeyOf[p])
      /\ verified' = IF KeyOf[p] \in onRadio THEN verified \ {KeyOf[p]} ELSE verified
      /\ cache' \subseteq cache /\ UNCHANGED <<listed, hasList, fresh>> /\ NoFault
  BY DEF RemoveAnswered
<1>4. claims' \subseteq claims
  BY <1>2 DEF Release
<1>5. LeavesListed(KeyOf[p]) \subseteq Keys
  BY <1>1 DEF LeavesListed
<1>6. TypeSets'
  BY <1>3, <1>4, <1>5 DEF IInv, TypeSets
<1>7. LookInv'
  <2>1. verified' \subseteq onRadio' \cup doubtful'
    BY <1>3 DEF IInv, LookInv
  <2>2. fresh' /\ hasList' => listed' \subseteq onRadio' \cup doubtful'
    BY <1>3 DEF IInv, LookInv, LeavesListed
  <2> QED
    BY <2>1, <2>2 DEF LookInv
<1>8. kind' \in [Removals -> Kinds \cup {"none"}]
  BY <1>2 DEF IInv, TypeRemovals
<1> QED
  BY <1>2, <1>3, <1>6, <1>7, <1>8, FaultTyped, RemovalStep DEF IInv

LEMMA RemoveFailsSafe ==
  ASSUME IInv, NEW p \in Removals, RemoveFails(p)
  PROVE  IInv'
<1>1. p \in Tasks /\ KeyOf[p] \in Keys
  BY KeysOfTasks
<1>2. /\ GoTo(p, "end") /\ pc[p] = "remove" /\ UNCHANGED active /\ Release(p)
      /\ kind' = [kind EXCEPT ![p] = "none"]
      /\ UNCHANGED <<cache, listed, hasList, fresh>> /\ Fault
  BY DEF RemoveFails, Ends
<1>3. claims' \subseteq claims
  BY <1>2 DEF Release
<1>4. LeavesListed(KeyOf[p]) \subseteq Keys
  BY <1>1 DEF LeavesListed
<1>5. \/ UNCHANGED <<onRadio, verified, doubtful>>
      \/ /\ \/ UNCHANGED <<onRadio, doubtful>>
            \/ onRadio' = onRadio \ {KeyOf[p]} /\ doubtful' = doubtful \cup LeavesListed(KeyOf[p])
         /\ verified' = IF own[p] THEN verified \ {KeyOf[p]} ELSE verified
  BY DEF RemoveFails
<1>6. TypeSets'
  BY <1>2, <1>3, <1>4, <1>5 DEF IInv, TypeSets
<1>7. LookInv'
  <2>1. ~own[p] => KeyOf[p] \in doubtful
    BY <1>2 DEF IInv, RemovalInv
  <2>2. verified' \subseteq onRadio' \cup doubtful'
    BY <1>5, <2>1 DEF IInv, LookInv
  <2>3. fresh' /\ hasList' => listed' \subseteq onRadio' \cup doubtful'
    BY <1>2, <1>5 DEF IInv, LookInv, LeavesListed
  <2> QED
    BY <2>2, <2>3 DEF LookInv
<1>8. kind' \in [Removals -> Kinds \cup {"none"}]
  BY <1>2 DEF IInv, TypeRemovals
<1>9. doubtful \subseteq doubtful' /\ onRadio \ {KeyOf[p]} \subseteq onRadio'
  BY <1>5
<1> QED
  BY <1>2, <1>6, <1>7, <1>8, <1>9, FaultTyped, RemovalStep DEF IInv

LEMMA AsksForListSafe ==
  ASSUME IInv, NEW p \in Removals, AsksForList(p)
  PROVE  IInv'
<1>1. /\ GoTo(p, "relist") /\ pc[p] = "sleep" /\ NoFault
      /\ UNCHANGED <<onRadio, lookup, active, removal>>
  BY DEF AsksForList
<1>2. TypeSets' /\ LookInv' /\ kind' \in [Removals -> Kinds \cup {"none"}]
  BY <1>1 DEF IInv, TypeSets, LookInv, TypeRemovals, lookup, removal
<1>3. UNCHANGED <<claims, own>> /\ onRadio' = onRadio /\ doubtful' = doubtful
  BY <1>1 DEF removal
<1> QED
  BY <1>1, <1>2, <1>3, FaultTyped, RemovalStep DEF IInv

LEMMA RelistAnsweredSafe ==
  ASSUME IInv, NEW p \in Removals, RelistAnswered(p)
  PROVE  IInv'
<1>1. /\ GoTo(p, "end") /\ pc[p] = "relist" /\ Release(p) /\ (Fault \/ NoFault)
      /\ kind' = [kind EXCEPT ![p] = "none"] /\ cache' \subseteq cache \cup onRadio
      /\ UNCHANGED <<onRadio, verified, listed, hasList, fresh, active, doubtful>>
  BY DEF RelistAnswered, Ends, Rereads
<1>2. claims' \subseteq claims
  BY <1>1 DEF Release
<1>3. TypeSets' /\ LookInv' /\ kind' \in [Removals -> Kinds \cup {"none"}]
  BY <1>1, <1>2 DEF IInv, TypeSets, LookInv, TypeRemovals
<1> QED
  BY <1>1, <1>3, FaultTyped, RemovalStep DEF IInv

(* Time passes. *)
LEMMA LapsesSafe ==
  ASSUME IInv, (\E k \in Keys : VerificationLapses(k)) \/ ListLapses
  PROVE  IInv'
<1>1. /\ verified' \subseteq verified /\ (fresh' => fresh) /\ fresh' \in BOOLEAN
      /\ UNCHANGED <<onRadio, cache, listed, hasList, active, removal, pc, ahead, faults>>
  <2>1. CASE \E k \in Keys : VerificationLapses(k)
    <3>1. verified' \subseteq verified /\ fresh' = fresh
      BY <2>1 DEF VerificationLapses
    <3>2. UNCHANGED <<onRadio, cache, listed, hasList, active, removal, pc, ahead, faults>>
      BY <2>1, Zenon DEF VerificationLapses
    <3> QED
      BY <3>1, <3>2 DEF IInv, TypeSets
  <2>2. CASE ListLapses
    <3>1. verified' = verified /\ fresh' = FALSE
      BY <2>2 DEF ListLapses
    <3>2. UNCHANGED <<onRadio, cache, listed, hasList, active, removal, pc, ahead, faults>>
      BY <2>2, Zenon DEF ListLapses
    <3> QED
      BY <3>1, <3>2
  <2> QED
    BY <2>1, <2>2
<1>2. TypeSets' /\ LookInv'
  BY <1>1 DEF IInv, TypeSets, LookInv, removal
<1>3. TypeTasks' /\ TypeRemovals' /\ TypeQueue' /\ TypeFaults'
  BY <1>1 DEF IInv, TypeTasks, TypeRemovals, TypeQueue, TypeFaults, removal
<1>4. CountInv'
  BY <1>1 DEF IInv, CountInv, Leases
<1>5. ClaimInv' /\ RemovalInv' /\ SendInv'
  BY <1>1 DEF IInv, ClaimInv, RemovalInv, SendInv, LeaseHoldsContact, removal
<1> QED
  BY <1>2, <1>3, <1>4, <1>5 DEF IInv

LEMMA StutterSafe ==
  ASSUME IInv, UNCHANGED vars
  PROVE  IInv'
<1>1. /\ UNCHANGED <<onRadio, cache, verified, listed, hasList, fresh, active>>
      /\ UNCHANGED <<claims, kind, own, doubtful, pc, ahead, faults>>
  BY DEF vars, lookup, removal
<1>2. TypeSets' /\ LookInv' /\ TypeTasks' /\ TypeRemovals' /\ TypeQueue' /\ TypeFaults'
  BY <1>1 DEF IInv, TypeSets, LookInv, TypeTasks, TypeRemovals, TypeQueue, TypeFaults
<1>3. CountInv'
  BY <1>1 DEF IInv, CountInv, Leases
<1>4. ClaimInv' /\ RemovalInv' /\ SendInv'
  BY <1>1 DEF IInv, ClaimInv, RemovalInv, SendInv, LeaseHoldsContact
<1> QED
  BY <1>2, <1>3, <1>4 DEF IInv

LEMMA Inductive == IInv /\ [Next]_vars => IInv'
<1> SUFFICES ASSUME IInv, [Next]_vars PROVE IInv'
  OBVIOUS
<1>1. CASE \E d \in Dms : Use(d) \/ DmSteps(d) \/ FrameFails(d) \/ DeadlineExpires(d)
  BY <1>1, UseSafe, ResolveSafe, KeyAnsweredSafe, RefreshSafe, ListAnsweredSafe, RestoreSafe,
     AddAnsweredSafe, ConfirmAnsweredSafe, SendAnsweredSafe, FrameFailsSafe, DeadlineExpiresSafe
  DEF DmSteps
<1>2. CASE \E p \in Removals, as \in Kinds : RemoveContact(p, as)
  BY <1>2, RemoveContactSafe
<1>3. CASE \E p \in Removals : RemovalSteps(p) \/ RemoveFails(p)
  BY <1>3, RemoveAnsweredSafe, AsksForListSafe, RelistAnsweredSafe, RemoveFailsSafe DEF RemovalSteps
<1>4. CASE (\E k \in Keys : VerificationLapses(k)) \/ ListLapses
  BY <1>4, LapsesSafe
<1>5. CASE UNCHANGED vars
  BY <1>5, StutterSafe
<1> QED
  BY <1>1, <1>2, <1>3, <1>4, <1>5 DEF Next

LEMMA Invariance == Spec => []IInv
  BY Initially, Inductive, PTL DEF Spec

(* Leases are counted right, and every task, lock and list keeps its type,  *)
(* for any DMs and removals (TypeOK).                                       *)
THEOREM TypeCorrect == Spec => []TypeOK
<1>1. IInv => TypeOK
  <2> SUFFICES ASSUME IInv PROVE TypeOK
    OBVIOUS
  <2>1. active \in [Keys -> Nat]
    BY LeasesFinite DEF IInv, CountInv
  <2> QED
    BY <2>1 DEF IInv, TypeSets, TypeTasks, TypeRemovals, TypeQueue, TypeFaults, TypeOK
<1> QED
  BY <1>1, Invariance, PTL

(* "Contact cleanup skips recipients in use": no removal takes the contact  *)
(* of a DM away between finding it and sending, but for overlapping         *)
(* removals of one key and a list that still has a removed contact.         *)
THEOREM LeaseHolds == Spec => []LeaseHoldsContact
<1>1. IInv => LeaseHoldsContact
  BY DEF IInv, SendInv
<1> QED
  BY <1>1, Invariance, PTL

(* No claim is left behind, whatever removals overlap and fail. *)
THEOREM ClaimsReleased == Spec => []ClaimHasRemoval
<1>1. IInv => ClaimHasRemoval
  BY DEF IInv, ClaimInv, ClaimHasRemoval
<1> QED
  BY <1>1, Invariance, PTL
=============================================================================

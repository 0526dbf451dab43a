------------------------------- MODULE BotProofs -------------------------------
(***************************************************************************)
(* Proofs about Bot, for any configurations and any values of the bounds.   *)
(* Every step of the bot is a step of a part or leaves it alone, so that    *)
(* what holds of a part by its own steps holds in the bot.                  *)
(***************************************************************************)
EXTENDS Bot, FiniteSetTheorems, SequenceTheorems, TLAPS

LEMMA StepOfPart ==
  ASSUME BotNext
  PROVE  /\ [CommandQueueNext]_commandQueueVars
         /\ [MeshGraphNext]_meshGraphVars
         /\ [ServiceNext]_serviceVars
         /\ [ViewerNext]_viewerVars
         /\ [RegionWarningsNext]_regionWarningsVars
<1>1. CASE CommandStep \/ TimeStep
  BY <1>1 DEF CommandStep, TimeStep, TaskOf, StepOf, Others, CommandQueueNext
<1>2. CASE GraphObserves \/ GraphGoesOn
  BY <1>2 DEF GraphObserves, GraphGoesOn, TaskOf, StepOf, Others, MeshGraphNext
<1>3. CASE ReplyStep \/ RecordStep
  BY <1>3 DEF ReplyStep, RecordStep, TaskOf, StepOf, Others
<1>4. CASE SuperviseStep \/ ServiceStep
  BY <1>4 DEF SuperviseStep, ServiceStep, TaskOf, StepOf, Others, ServiceNext
<1>5. CASE ViewerChecked \/ ViewerStep
  BY <1>5 DEF ViewerChecked, ViewerStep, TaskOf, StepOf, Others, ViewerNext
<1>6. CASE MessageStep
  <2>1. \A p \in Texts : Author[p] \in Senders /\ Verdict(p) \in {"scoped", "global", "unknown"}
    BY BotAssumption DEF Verdict
  <2>2. [RegionWarningsNext]_regionWarningsVars
    BY <1>6, <2>1 DEF MessageStep, MessageHandled, MessageJudged, RegionWarningsNext
  <2> QED BY <1>6, <2>2 DEF MessageStep, MessageHandled, TaskOf, StepOf, Others
<1>7. CASE AirStep
  BY <1>7 DEF AirStep, StepOf, Others
<1>8. CASE WarningStep
  BY <1>8 DEF WarningStep, TaskOf, StepOf, Others, RegionWarningsNext
<1>9. CASE Restart
  BY <1>9 DEF Restart, Others, RegionWarningsNext
<1>10. CASE StopBegins
  BY <1>10 DEF StopBegins, ServiceNext, ViewerNext
<1>11. CASE StopGraph \/ ExitGraph
  BY <1>11 DEF StopGraph, ExitGraph, Others, MeshGraphNext
<1>12. CASE StopService
  BY <1>12 DEF StopService, Others, ServiceNext
<1>13. CASE StopViewer \/ ExitViewer \/ Exit
  BY <1>13 DEF StopViewer, ExitViewer, Exit, Others, ViewerNext
<1>14. CASE Disconnect \/ StopTracker
  BY <1>14 DEF Disconnect, StopTracker, Others
<1>15. CASE LoopEnds
  BY <1>15 DEF LoopEnds, Others, ServiceNext
<1> QED BY <1>1, <1>2, <1>3, <1>4, <1>5, <1>6, <1>7, <1>8, <1>9, <1>10, <1>11, <1>12, <1>13, <1>14, <1>15
        DEF BotNext, Stop

-----------------------------------------------------------------------------
(* The mesh graph.                                                          *)

(* The coarse edge of a promotion has left the memory, and it counted.      *)
PromotionInv ==
  /\ \A d, e \in promoting : d = e
  /\ \A e \in promoting : count[e] = 0
  /\ promoting # {} => merged > 0 /\ stage["loop"] = "idle"

(* What a flush will write belongs to an edge as a row does.                *)
GhostInv ==
  \A e \in Edges : (row[e] > 0 \/ BuiltWith(e)) /\ count[e] = 0 =>
    e \in pruned \cup revived \/ (e \in promoting /\ ~deleted)

GraphInv == MeshGraphTypeOK /\ PromotionInv /\ DirtyIsTracked /\ GhostInv

LEMMA GraphInitially == ASSUME MeshGraphInit PROVE GraphInv
<1> USE MeshGraphAssumption
<1>1. MeshGraphTypeOK
  <2>1. row \in [Edges -> Nat] /\ count \in [Edges -> Nat] /\ Nothing \in [Edges -> Nat]
    BY DEF MeshGraphInit, Nothing
  <2>2. /\ stage \in [Flushers -> {"idle", "taken", "built"}] /\ updates \in [Flushers -> SUBSET Edges]
        /\ params \in [Flushers -> [Edges -> Nat]]
    BY <2>1 DEF MeshGraphInit
  <2>3. writer \in {"waiting", "flushing", "pruning", "ended"}
    BY DEF MeshGraphInit
  <2>4. observations \in 0..MaxObservations /\ graphFaults \in 0..MaxGraphFaults
    BY DEF MeshGraphInit
  <2> QED BY <2>1, <2>2, <2>3, <2>4 DEF MeshGraphInit, MeshGraphTypeOK
<1>2. PromotionInv /\ DirtyIsTracked /\ GhostInv
  BY <1>1 DEF MeshGraphInit, MeshGraphTypeOK, PromotionInv, DirtyIsTracked, GhostInv, BuiltWith, Nothing, Flushers, Edges
<1> QED BY <1>1, <1>2 DEF GraphInv

(* What persisting an edge changes, whichever way it is written.            *)
LEMMA PersistType ==
  ASSUME MeshGraphTypeOK, NEW e \in Edges, NEW n \in Nat, NEW isNew \in BOOLEAN, NEW rest \in SUBSET Edges,
         Persist(e, n, isNew, rest)
  PROVE  /\ pending' \subseteq Edges /\ row' \in [Edges -> Nat] /\ unsaved' \subseteq Edges
         /\ stage' \in [Flushers -> {"idle", "taken", "built"}] /\ updates' \in [Flushers -> SUBSET Edges]
         /\ params' \in [Flushers -> [Edges -> Nat]] /\ graphFaults' \in 0..MaxGraphFaults
<1> USE MeshGraphAssumption DEF MeshGraphTypeOK
<1>1. CASE WriteEdge(e, n, rest)
  BY <1>1 DEF WriteEdge, GraphFault, flushes, Larger
<1>2. CASE MakePending(e, rest)
  BY <1>2 DEF MakePending, Flushers
<1> QED BY <1>1, <1>2 DEF Persist

LEMMA GraphType == ASSUME MeshGraphTypeOK, [MeshGraphNext]_meshGraphVars PROVE MeshGraphTypeOK'
<1> USE MeshGraphAssumption
<1> USE DEF MeshGraphTypeOK, Flushers
<1>1. ASSUME NEW l \in Links, NEW seen \in {"coarse", "fine"}, AddEdge(l, seen) PROVE MeshGraphTypeOK'
  <2> DEFINE e == Target(l, seen)
  <2>1. e \in Edges
    BY DEF Target, Edges
  <2>2. count' \in [Edges -> Nat] /\ resized' \in BOOLEAN /\ pruned' \subseteq Edges /\ revived' \subseteq Edges
    BY <1>1, <2>1 DEF AddEdge, Resize
  <2>3. /\ pending' \subseteq Edges /\ row' \in [Edges -> Nat] /\ unsaved' \subseteq Edges
        /\ stage' \in [Flushers -> {"idle", "taken", "built"}] /\ updates' \in [Flushers -> SUBSET Edges]
        /\ params' \in [Flushers -> [Edges -> Nat]] /\ graphFaults' \in 0..MaxGraphFaults
    <3>1. count[e] + 1 \in Nat /\ (count[e] = 0) \in BOOLEAN /\ pending \in SUBSET Edges
      BY <2>1
    <3>2. Persist(e, count[e] + 1, count[e] = 0, pending)
      BY <1>1 DEF AddEdge
    <3> QED BY <2>1, <3>1, <3>2, PersistType
  <2> QED BY <1>1, <2>2, <2>3 DEF AddEdge, Observed
<1>2. ASSUME NEW l \in Links, PromoteRemove(l) PROVE MeshGraphTypeOK'
  <2>1. Coarse(l) \in Edges
    BY DEF Coarse, Edges
  <2>2. merged' \in Nat /\ count' \in [Edges -> Nat]
    BY <1>2, <2>1 DEF PromoteRemove
  <2>5. deleted' \in BOOLEAN
    BY <1>2 DEF PromoteRemove
  <2>4. promoting' \subseteq Edges
    BY <1>2, <2>1 DEF PromoteRemove
  <2>3. observations' \in 0..MaxObservations /\ resized' \in BOOLEAN
    BY <1>2 DEF PromoteRemove, Observed, Resize
  <2> QED BY <1>2, <2>2, <2>3, <2>4, <2>5 DEF PromoteRemove, flushes, graphHistory
<1>3. ASSUME NEW l \in Links, PromoteDelete(Coarse(l)) PROVE MeshGraphTypeOK'
  BY <1>3 DEF PromoteDelete, Coarse, Edges, GraphFault, flushes, writerVars
<1>4. ASSUME NEW l \in Links, PromoteAdd(l) PROVE MeshGraphTypeOK'
  <2> DEFINE e == Fine(l)
  <2>1. e \in Edges
    BY DEF Fine, Edges
  <2>2. count' \in [Edges -> Nat] /\ resized' \in BOOLEAN /\ pruned' \subseteq Edges /\ revived' \subseteq Edges
    BY <1>4, <2>1 DEF PromoteAdd, Resize
  <2>3. /\ pending' \subseteq Edges /\ row' \in [Edges -> Nat] /\ unsaved' \subseteq Edges
        /\ stage' \in [Flushers -> {"idle", "taken", "built"}] /\ updates' \in [Flushers -> SUBSET Edges]
        /\ params' \in [Flushers -> [Edges -> Nat]] /\ graphFaults' \in 0..MaxGraphFaults
    <3>1. merged \in Nat /\ TRUE \in BOOLEAN /\ pending \ promoting \in SUBSET Edges
      OBVIOUS
    <3>2. Persist(e, merged, TRUE, pending \ promoting)
      BY <1>4 DEF PromoteAdd
    <3> QED BY <2>1, <3>1, <3>2, PersistType
  <2> QED BY <1>4, <2>2, <2>3 DEF PromoteAdd
<1>5. ASSUME NEW f \in Flushers, BuildParams(f) PROVE MeshGraphTypeOK'
  BY <1>5 DEF BuildParams, memory, writerVars, graphHistory, graphBounds
<1>6. ASSUME NEW f \in Flushers, CommitFlush(f) PROVE MeshGraphTypeOK'
  BY <1>6 DEF CommitFlush, EndFlush, Larger, Nothing, memory, graphHistory, graphBounds
<1>7. ASSUME NEW f \in Flushers, FailFlush(f) PROVE MeshGraphTypeOK'
  <2>1. /\ pending' \subseteq Edges /\ graphFaults' \in 0..MaxGraphFaults
        /\ stage' \in [Flushers -> {"idle", "taken", "built"}] /\ updates' \in [Flushers -> SUBSET Edges]
        /\ params' \in [Flushers -> [Edges -> Nat]]
    BY <1>7 DEF FailFlush, EndFlush, GraphFault, Nothing
  <2>2. writer' \in {"waiting", "flushing", "pruning", "ended"} /\ resized' \in BOOLEAN
    BY <1>7 DEF FailFlush, EndFlush
  <2> QED BY <1>7, <2>1, <2>2 DEF FailFlush, memory, graphHistory
<1>8. ASSUME WriterWakes PROVE MeshGraphTypeOK'
  BY <1>8 DEF WriterWakes, Take, flushes, memory, graphHistory, graphBounds
<1>9. ASSUME WriterPrunes PROVE MeshGraphTypeOK'
  BY <1>9 DEF WriterPrunes, flushes, graphBounds
<1>10. ASSUME WriterEnds PROVE MeshGraphTypeOK'
  BY <1>10 DEF WriterEnds, flushes, memory, graphHistory, graphBounds
<1>11. ASSUME GraphShutdown PROVE MeshGraphTypeOK'
  BY <1>11 DEF GraphShutdown, Take, flushes, memory, writerVars, graphHistory, graphBounds
<1>12. ASSUME UNCHANGED meshGraphVars PROVE MeshGraphTypeOK'
  BY <1>12 DEF meshGraphVars, flushes, memory, writerVars, graphHistory, graphBounds
<1> QED BY <1>1, <1>2, <1>3, <1>4, <1>5, <1>6, <1>7, <1>8, <1>9, <1>10, <1>11, <1>12
         DEF MeshGraphNext, LinkObserved, MeshGraphGoesOn

(* Edges that are dirty after an edge has been persisted are tracked: the   *)
(* edge itself, and those that were tracked before.                         *)
LEMMA PersistTracks ==
  ASSUME MeshGraphTypeOK, MeshGraphTypeOK', GraphLoopFree \/ stage["loop"] = "idle",
         NEW e \in Edges, NEW n \in Nat, NEW isNew \in BOOLEAN, NEW rest \in SUBSET Edges,
         Persist(e, n, isNew, rest), count'[e] = n,
         \A d \in Edges \ {e} : count[d] > row[d] => d \in rest \/ InFlush(d) \/ d \in unsaved,
         \A d \in Edges \ {e} : count'[d] = count[d]
  PROVE  DirtyIsTracked'
<1> SUFFICES ASSUME NEW d \in Edges, count'[d] > row'[d]
             PROVE  d \in pending' \/ InFlush(d)' \/ d \in unsaved'
  BY DEF DirtyIsTracked
<1>a. stage["loop"] = "idle"
  BY DEF GraphLoopFree
<1>1. CASE WriteEdge(e, n, rest)
  <2>1. CASE d = e
    BY <1>1, <2>1 DEF WriteEdge, Larger, MeshGraphTypeOK
  <2>2. CASE d # e
    <3>1. row'[d] = row[d] /\ (d \in unsaved => d \in unsaved')
      BY <1>1, <2>2 DEF WriteEdge, MeshGraphTypeOK
    <3>2. InFlush(d) => InFlush(d)'
      BY <1>1, <2>2 DEF WriteEdge, InFlush, flushes
    <3> QED BY <1>1, <2>2, <3>1, <3>2 DEF WriteEdge
  <2> QED BY <2>1, <2>2
<1>2. CASE MakePending(e, rest)
  <2>1. d \in rest \cup {e} => d \in pending' \/ InFlush(d)'
    BY <1>2 DEF MakePending, InFlush, Flushers, MeshGraphTypeOK
  <2>2. CASE d # e /\ d \notin rest
    <3>1. row'[d] = row[d] /\ (d \in unsaved => d \in unsaved')
      BY <1>2, <2>2 DEF MakePending, MeshGraphTypeOK
    <3>2. InFlush(d) => InFlush(d)'
      BY <1>2, <2>2, <1>a DEF MakePending, InFlush, Flushers, MeshGraphTypeOK
    <3> QED BY <2>2, <3>1, <3>2
  <2> QED BY <2>1, <2>2
<1> QED BY <1>1, <1>2 DEF Persist

(* Persisting an edge revives no row of another.                            *)
LEMMA PersistKeepsGhosts ==
  ASSUME MeshGraphTypeOK, NEW e \in Edges, NEW n \in Nat, NEW isNew \in BOOLEAN, NEW rest \in SUBSET Edges,
         Persist(e, n, isNew, rest)
  PROVE  params' = params /\ \A d \in Edges \ {e} : row'[d] = row[d]
<1>1. CASE WriteEdge(e, n, rest)
  BY <1>1 DEF WriteEdge, flushes, MeshGraphTypeOK
<1>2. CASE MakePending(e, rest)
  BY <1>2 DEF MakePending
<1> QED BY <1>1, <1>2 DEF Persist

LEMMA TakeTracks ==
  ASSUME MeshGraphTypeOK, MeshGraphTypeOK', NEW f \in Flushers, Take(f), DirtyIsTracked,
         UNCHANGED <<count, row, unsaved>>
  PROVE  DirtyIsTracked'
<1> SUFFICES ASSUME NEW d \in Edges, count[d] > row[d], d \in pending \/ InFlush(d)
             PROVE  InFlush(d)'
  BY DEF DirtyIsTracked
<1>1. CASE d \in pending
  BY <1>1 DEF Take, InFlush, MeshGraphTypeOK
<1>2. CASE InFlush(d)
  BY <1>2 DEF Take, InFlush, MeshGraphTypeOK
<1> QED BY <1>1, <1>2

LEMMA GraphStep == ASSUME GraphInv, [MeshGraphNext]_meshGraphVars PROVE GraphInv'
<1> USE DEF GraphInv
<1>a. MeshGraphTypeOK /\ MeshGraphTypeOK'
  BY GraphType
<1>1. ASSUME NEW l \in Links, NEW seen \in {"coarse", "fine"}, AddEdge(l, seen) PROVE GraphInv'
  <2> DEFINE e == Target(l, seen)
  <2>1. e \in Edges
    BY DEF Target, Edges
  <2> HIDE DEF e
  <2>2. /\ promoting = {} /\ stage["loop"] = "idle" /\ promoting' = promoting
        /\ count' = [count EXCEPT ![e] = @ + 1]
        /\ pruned' = pruned \ {e} /\ revived' = revived \ {e}
        /\ Persist(e, count[e] + 1, count[e] = 0, pending)
    BY <1>1 DEF AddEdge, GraphLoopFree, e
  <2>3. count[e] + 1 \in Nat /\ (count[e] = 0) \in BOOLEAN /\ pending \in SUBSET Edges
    BY <2>1, <1>a DEF MeshGraphTypeOK
  <2>4. count'[e] = count[e] + 1 /\ \A d \in Edges \ {e} : count'[d] = count[d]
    BY <2>1, <2>2, <1>a DEF MeshGraphTypeOK
  <2>5. DirtyIsTracked'
    <3>1. \A d \in Edges \ {e} : count[d] > row[d] => d \in pending \/ InFlush(d) \/ d \in unsaved
      BY DEF DirtyIsTracked
    <3> QED BY <1>a, <2>1, <2>2, <2>3, <2>4, <3>1, PersistTracks
  <2>6. GhostInv'
    <3>1. params' = params /\ \A d \in Edges \ {e} : row'[d] = row[d]
      BY <1>a, <2>1, <2>2, <2>3, PersistKeepsGhosts
    <3>2. \A d \in Edges \ {e} : BuiltWith(d)' <=> BuiltWith(d)
      BY <3>1 DEF BuiltWith
    <3>3. count'[e] # 0
      BY <2>1, <2>4, <1>a DEF MeshGraphTypeOK
    <3> QED BY <2>2, <2>4, <3>1, <3>2, <3>3 DEF GhostInv
  <2> QED BY <1>a, <2>2, <2>5, <2>6 DEF PromotionInv
<1>2. ASSUME NEW l \in Links, PromoteRemove(l) PROVE GraphInv'
  <2>1. Coarse(l) \in Edges
    BY DEF Coarse, Edges
  <2>2. /\ promoting = {} /\ promoting' = {Coarse(l)} /\ merged' = count[Coarse(l)] + 1
        /\ deleted' = FALSE /\ count' = [count EXCEPT ![Coarse(l)] = 0]
        /\ UNCHANGED <<row, pending, stage, updates, params, unsaved, pruned, revived>>
    BY <1>2 DEF PromoteRemove, GraphLoopFree, flushes, graphHistory
  <2>3. PromotionInv'
    <3>1. stage["loop"] = "idle" /\ count'[Coarse(l)] = 0 /\ merged' > 0
      BY <1>2, <1>a, <2>1, <2>2 DEF PromoteRemove, GraphLoopFree, MeshGraphTypeOK
    <3> QED BY <2>2, <3>1 DEF PromotionInv
  <2>4. DirtyIsTracked'
    BY <1>a, <2>1, <2>2 DEF DirtyIsTracked, InFlush, MeshGraphTypeOK
  <2>5. GhostInv'
    BY <1>a, <2>1, <2>2 DEF GhostInv, BuiltWith, MeshGraphTypeOK
  <2> QED BY <1>a, <2>3, <2>4, <2>5
<1>3. ASSUME NEW l \in Links, PromoteDelete(Coarse(l)) PROVE GraphInv'
  <2>1. Coarse(l) \in Edges /\ Coarse(l) \in promoting /\ deleted' = TRUE
    BY <1>3 DEF PromoteDelete, Coarse, Edges
  <2>2. UNCHANGED <<count, promoting, merged, pending, stage, updates, params, unsaved, pruned>>
    BY <1>3 DEF PromoteDelete, flushes
  <2>3. PromotionInv'
    BY <2>2 DEF PromotionInv
  <2>4. /\ \A d \in Edges \ {Coarse(l)} : row'[d] = row[d]
        /\ row'[Coarse(l)] >= 0 /\ revived \subseteq revived'
    BY <1>3, <1>a, <2>1 DEF PromoteDelete, MeshGraphTypeOK
  <2>5. count[Coarse(l)] = 0
    BY <2>1 DEF PromotionInv
  <2>6. DirtyIsTracked'
    BY <1>a, <2>2, <2>4, <2>5 DEF DirtyIsTracked, InFlush, MeshGraphTypeOK
  <2>7. row'[Coarse(l)] > 0 \/ BuiltWith(Coarse(l)) => Coarse(l) \in revived'
    BY <1>3, <1>a, <2>1 DEF PromoteDelete, MeshGraphTypeOK
  <2>8. ASSUME NEW d \in Edges, (row'[d] > 0 \/ BuiltWith(d)') /\ count'[d] = 0, d # Coarse(l)
        PROVE  d \in pruned' \cup revived'
    <3>1. d \notin promoting
      BY <2>1, <2>8 DEF PromotionInv
    <3> QED BY <2>2, <2>4, <2>8, <3>1 DEF GhostInv, BuiltWith
  <2>9. GhostInv'
    BY <2>2, <2>7, <2>8 DEF GhostInv, BuiltWith
  <2> QED BY <1>a, <2>3, <2>6, <2>9
<1>4. ASSUME NEW l \in Links, PromoteAdd(l) PROVE GraphInv'
  <2> DEFINE e == Fine(l)
  <2>1. e \in Edges /\ Coarse(l) \in Edges /\ e # Coarse(l)
    BY DEF Fine, Coarse, Edges
  <2>2. /\ promoting = {Coarse(l)} /\ deleted /\ promoting' = {}
        /\ count' = [count EXCEPT ![e] = merged]
        /\ pruned' = pruned \ {e} /\ revived' = revived \ {e}
        /\ Persist(e, merged, TRUE, pending \ promoting)
    BY <1>4 DEF PromoteAdd
  <2> HIDE DEF e
  <2>3. merged \in Nat /\ merged > 0 /\ TRUE \in BOOLEAN /\ pending \ promoting \in SUBSET Edges
    BY <1>a, <2>2 DEF MeshGraphTypeOK, PromotionInv
  <2>4. count'[e] = merged /\ \A d \in Edges \ {e} : count'[d] = count[d]
    BY <2>1, <2>2, <1>a DEF MeshGraphTypeOK
  <2>5. DirtyIsTracked'
    <3>1. stage["loop"] = "idle"
      BY <2>2 DEF PromotionInv
    <3>2. ASSUME NEW d \in Edges \ {e}, count[d] > row[d]
          PROVE  d \in pending \ promoting \/ InFlush(d) \/ d \in unsaved
      <4>1. d \notin promoting
        BY <1>a, <3>2, <2>1 DEF PromotionInv, MeshGraphTypeOK
      <4> QED BY <3>2, <4>1 DEF DirtyIsTracked
    <3> QED BY <1>a, <2>1, <2>2, <2>3, <2>4, <3>1, <3>2, PersistTracks
  <2>6. GhostInv'
    <3>1. params' = params /\ \A d \in Edges \ {e} : row'[d] = row[d]
      BY <1>a, <2>1, <2>2, <2>3, PersistKeepsGhosts
    <3>2. \A d \in Edges \ {e} : BuiltWith(d)' <=> BuiltWith(d)
      BY <3>1 DEF BuiltWith
    <3>3. count'[e] # 0
      BY <2>3, <2>4
    <3> QED BY <2>2, <2>4, <3>1, <3>2, <3>3 DEF GhostInv
  <2> QED BY <1>a, <2>2, <2>5, <2>6 DEF PromotionInv
<1>5. ASSUME NEW f \in Flushers, BuildParams(f) PROVE GraphInv'
  <2>1. /\ stage[f] = "taken" /\ stage' = [stage EXCEPT ![f] = "built"]
        /\ params' = [params EXCEPT ![f] = [d \in Edges |-> IF d \in updates[f] THEN count[d] ELSE 0]]
        /\ UNCHANGED <<count, promoting, merged, deleted, row, pending, updates, unsaved, pruned, revived>>
    BY <1>5 DEF BuildParams, memory, graphHistory
  <2>2. PromotionInv'
    BY <1>a, <2>1 DEF PromotionInv, MeshGraphTypeOK
  <2>3. DirtyIsTracked'
    <3>1. ASSUME NEW d \in Edges, InFlush(d) PROVE InFlush(d)'
      <4>1. PICK g \in Flushers : d \in updates[g] /\ (stage[g] = "taken" \/ (stage[g] = "built" /\ params[g][d] >= count[d]))
        BY <3>1 DEF InFlush
      <4>2. CASE g = f
        BY <1>a, <2>1, <4>1, <4>2 DEF InFlush, MeshGraphTypeOK
      <4>3. CASE g # f
        BY <1>a, <2>1, <4>1, <4>3 DEF InFlush, MeshGraphTypeOK
      <4> QED BY <4>2, <4>3
    <3> QED BY <2>1, <3>1 DEF DirtyIsTracked
  <2>4. GhostInv'
    <3>1. ASSUME NEW d \in Edges, BuiltWith(d)', count[d] = 0 PROVE BuiltWith(d)
      <4>1. PICK g \in Flushers : params'[g][d] > 0
        BY <3>1 DEF BuiltWith
      <4>2. g # f
        BY <1>a, <2>1, <3>1, <4>1 DEF MeshGraphTypeOK
      <4> QED BY <1>a, <2>1, <4>1, <4>2 DEF BuiltWith, MeshGraphTypeOK
    <3> QED BY <2>1, <3>1 DEF GhostInv
  <2> QED BY <1>a, <2>2, <2>3, <2>4
<1>6. ASSUME NEW f \in Flushers, CommitFlush(f) PROVE GraphInv'
  <2>1. /\ stage[f] = "built" /\ stage' = [stage EXCEPT ![f] = "idle"]
        /\ updates' = [updates EXCEPT ![f] = {}] /\ params' = [params EXCEPT ![f] = Nothing]
        /\ row' = [d \in Edges |-> Larger(row[d], params[f][d])]
        /\ UNCHANGED <<count, promoting, merged, deleted, pending, unsaved, pruned, revived>>
    BY <1>6 DEF CommitFlush, EndFlush, memory, graphHistory
  <2>2. PromotionInv'
    BY <1>a, <2>1 DEF PromotionInv, MeshGraphTypeOK
  <2>3. ASSUME NEW d \in Edges
        PROVE  row'[d] >= row[d] /\ row'[d] >= params[f][d] /\ (row'[d] > 0 => row[d] > 0 \/ params[f][d] > 0)
    BY <1>a, <2>1 DEF MeshGraphTypeOK, Larger
  <2>4. DirtyIsTracked'
    <3>1. ASSUME NEW d \in Edges, InFlush(d), count[d] > row'[d] PROVE InFlush(d)'
      <4>1. PICK g \in Flushers : d \in updates[g] /\ (stage[g] = "taken" \/ (stage[g] = "built" /\ params[g][d] >= count[d]))
        BY <3>1 DEF InFlush
      <4>2. g # f
        BY <1>a, <2>1, <2>3, <3>1, <4>1 DEF MeshGraphTypeOK
      <4> QED BY <1>a, <2>1, <4>1, <4>2 DEF InFlush, MeshGraphTypeOK
    <3>2. ASSUME NEW d \in Edges, count[d] > row'[d] PROVE count[d] > row[d]
      BY <1>a, <2>3, <3>2 DEF MeshGraphTypeOK
    <3> QED BY <2>1, <3>1, <3>2 DEF DirtyIsTracked
  <2>5. GhostInv'
    <3>1. ASSUME NEW d \in Edges, BuiltWith(d)' PROVE BuiltWith(d)
      <4>1. PICK g \in Flushers : params'[g][d] > 0
        BY <3>1 DEF BuiltWith
      <4>2. g # f
        BY <1>a, <2>1, <4>1 DEF MeshGraphTypeOK, Nothing
      <4> QED BY <1>a, <2>1, <4>1, <4>2 DEF BuiltWith, MeshGraphTypeOK
    <3>2. ASSUME NEW d \in Edges, row'[d] > 0 PROVE row[d] > 0 \/ BuiltWith(d)
      BY <2>3, <3>2 DEF BuiltWith
    <3> QED BY <2>1, <3>1, <3>2 DEF GhostInv
  <2> QED BY <1>a, <2>2, <2>4, <2>5
<1>7. ASSUME NEW f \in Flushers, FailFlush(f) PROVE GraphInv'
  <2>1. /\ stage' = [stage EXCEPT ![f] = "idle"]
        /\ updates' = [updates EXCEPT ![f] = {}] /\ params' = [params EXCEPT ![f] = Nothing]
        /\ pending' = pending \cup updates[f]
        /\ UNCHANGED <<count, promoting, merged, deleted, row, unsaved, pruned, revived>>
    BY <1>7 DEF FailFlush, EndFlush, memory, graphHistory
  <2>2. PromotionInv'
    BY <1>a, <2>1 DEF PromotionInv, MeshGraphTypeOK
  <2>3. DirtyIsTracked'
    <3>1. ASSUME NEW d \in Edges, InFlush(d) PROVE d \in pending' \/ InFlush(d)'
      <4>1. PICK g \in Flushers : d \in updates[g] /\ (stage[g] = "taken" \/ (stage[g] = "built" /\ params[g][d] >= count[d]))
        BY <3>1 DEF InFlush
      <4>2. CASE g = f
        BY <2>1, <4>1, <4>2
      <4>3. CASE g # f
        BY <1>a, <2>1, <4>1, <4>3 DEF InFlush, MeshGraphTypeOK
      <4> QED BY <4>2, <4>3
    <3> QED BY <2>1, <3>1 DEF DirtyIsTracked
  <2>4. GhostInv'
    <3>1. ASSUME NEW d \in Edges, BuiltWith(d)' PROVE BuiltWith(d)
      <4>1. PICK g \in Flushers : params'[g][d] > 0
        BY <3>1 DEF BuiltWith
      <4>2. g # f
        BY <1>a, <2>1, <4>1 DEF MeshGraphTypeOK, Nothing
      <4> QED BY <1>a, <2>1, <4>1, <4>2 DEF BuiltWith, MeshGraphTypeOK
    <3> QED BY <2>1, <3>1 DEF GhostInv
  <2> QED BY <1>a, <2>2, <2>3, <2>4
<1>8. ASSUME WriterWakes \/ GraphShutdown PROVE GraphInv'
  <2>1. UNCHANGED <<count, promoting, merged, deleted, row, params, unsaved, pruned, revived>>
    BY <1>8 DEF WriterWakes, GraphShutdown, Take, memory, graphHistory, flushes
  <2>2. PromotionInv' /\ GhostInv'
    <3>1. WriterWakes => stage'["loop"] = stage["loop"]
      BY <1>a DEF WriterWakes, Take, flushes, Flushers, MeshGraphTypeOK
    <3>2. GraphShutdown => promoting = {}
      BY DEF GraphShutdown, GraphLoopFree
    <3> QED BY <1>8, <2>1, <3>1, <3>2 DEF PromotionInv, GhostInv, BuiltWith
  <2>3. CASE \E f \in Flushers : Take(f)
    BY <1>a, <2>1, <2>2, <2>3, TakeTracks
  <2>4. CASE UNCHANGED <<pending, flushes>>
    BY <1>a, <2>1, <2>2, <2>4 DEF DirtyIsTracked, InFlush, flushes
  <2> QED BY <1>8, <2>3, <2>4 DEF WriterWakes, GraphShutdown, Flushers
<1>9. ASSUME WriterPrunes PROVE GraphInv'
  <2>1. UNCHANGED <<promoting, merged, deleted, row, pending, stage, updates, params, unsaved, revived>>
    BY <1>9 DEF WriterPrunes, flushes
  <2>2. /\ pruned \subseteq pruned'
        /\ \A d \in Edges : count'[d] = count[d] \/ (count'[d] = 0 /\ d \in pruned')
    BY <1>a, <1>9 DEF WriterPrunes, MeshGraphTypeOK
  <2>3. PromotionInv'
    BY <1>a, <2>1, <2>2 DEF PromotionInv, MeshGraphTypeOK
  <2>4. DirtyIsTracked'
    BY <1>a, <2>1, <2>2 DEF DirtyIsTracked, InFlush, MeshGraphTypeOK
  <2>5. GhostInv'
    BY <2>1, <2>2 DEF GhostInv, BuiltWith
  <2> QED BY <1>a, <2>3, <2>4, <2>5
<1>10. ASSUME WriterEnds \/ UNCHANGED meshGraphVars PROVE GraphInv'
  <2>1. UNCHANGED <<count, promoting, merged, deleted, row, pending, stage, updates, params, unsaved, pruned, revived>>
    BY <1>10 DEF WriterEnds, meshGraphVars, memory, flushes, graphHistory
  <2> QED BY <1>a, <2>1 DEF PromotionInv, DirtyIsTracked, InFlush, GhostInv, BuiltWith
<1> QED BY <1>1, <1>2, <1>3, <1>4, <1>5, <1>6, <1>7, <1>8, <1>9, <1>10
         DEF MeshGraphNext, LinkObserved, MeshGraphGoesOn

LEMMA GraphInvariant == BotSpec => []GraphInv
<1>1. BotInit => GraphInv
  BY GraphInitially DEF BotInit
<1>2. GraphInv /\ [BotNext]_botVars => GraphInv'
  <2> SUFFICES ASSUME GraphInv, [BotNext]_botVars PROVE GraphInv'
    OBVIOUS
  <2>1. [MeshGraphNext]_meshGraphVars
    BY StepOfPart DEF botVars
  <2> QED BY <2>1, GraphStep
<1> QED BY <1>1, <1>2, PTL DEF BotSpec

(* Whatever the strategy, the flushes, the faults and the prunings, an edge *)
(* whose observations the database lacks is pending, being flushed, or its  *)
(* direct write failed.                                                     *)
THEOREM DirtyIsAlwaysTracked == BotSpec => []DirtyIsTracked
<1>1. GraphInv => DirtyIsTracked
  BY DEF GraphInv
<1> QED BY <1>1, GraphInvariant, PTL

(* A row without an edge in memory belongs to an expired edge, or to a      *)
(* promotion under way, outrun or failed.                                   *)
THEOREM GhostRowsAreAlwaysExcused == BotSpec => []GhostRowsAreExcused
<1>1. GraphInv => GhostRowsAreExcused
  BY DEF GraphInv, GhostInv, GhostRowsAreExcused
<1> QED BY <1>1, GraphInvariant, PTL

(* A stop passes the exit handler of the graph, and ends after "exiting".   *)
LEMMA PhasesAreInOrder ==
  ASSUME NextPhase
  PROVE  /\ phase' = "exited" => phase = "exiting"
         /\ "graph" \in features /\ phase' \in {"parting", "exiting", "exited"} =>
              phase \in {"saving", "parting", "exiting", "exited"}
<1>1. PICK i, j \in 1..10 :
        /\ phase = Order[i] /\ i < j /\ phase' = Order[j]
        /\ \A k \in i + 1..j - 1 : Order[k] \in Skipped
  BY DEF NextPhase, Order
<1>2. ASSUME phase' = "exited" PROVE phase = "exiting"
  <2>1. j = 10
    BY <1>1, <1>2 DEF Order
  <2>2. Order[9] \notin Skipped
    BY DEF Order, Skipped
  <2>3. i = 9
    BY <1>1, <2>1, <2>2
  <2> QED BY <1>1, <2>3 DEF Order
<1>3. ASSUME "graph" \in features, phase' \in {"parting", "exiting", "exited"} PROVE phase \in {"saving", "parting", "exiting", "exited"}
  <2>1. j >= 8
    BY <1>1, <1>3 DEF Order
  <2>2. Order[7] \notin Skipped
    BY <1>3 DEF Order, Skipped
  <2>3. i >= 7
    BY <1>1, <2>1, <2>2
  <2> QED BY <1>1, <2>3 DEF Order
<1> QED BY <1>2, <1>3

(* Without a fault no direct write has failed; a graph that is not in use   *)
(* does not change; and nothing becomes pending after the exit handler.     *)
SavedInv ==
  /\ graphFaults = 0 => unsaved = {}
  /\ "graph" \notin features => count = row
  /\ "graph" \in features /\ phase \in {"parting", "exiting", "exited"} =>
       promoting = {} /\ (graphFaults = 0 => pending = {})
  /\ phase = "exited" => stage["loop"] = "idle"

LEMMA PersistFaults ==
  ASSUME MeshGraphTypeOK, NEW e, NEW n, NEW isNew, NEW rest, Persist(e, n, isNew, rest)
  PROVE  (graphFaults' = graphFaults /\ unsaved' \subseteq unsaved) \/ graphFaults' > 0
BY DEF Persist, WriteEdge, MakePending, GraphFault, MeshGraphTypeOK

LEMMA FaultsExcuse ==
  ASSUME MeshGraphTypeOK, [MeshGraphNext]_meshGraphVars
  PROVE  (graphFaults' = graphFaults /\ unsaved' \subseteq unsaved) \/ graphFaults' > 0
<1>1. ASSUME NEW l \in Links, NEW seen \in {"coarse", "fine"}, AddEdge(l, seen)
      PROVE  (graphFaults' = graphFaults /\ unsaved' \subseteq unsaved) \/ graphFaults' > 0
  BY <1>1, PersistFaults DEF AddEdge
<1>2. ASSUME NEW l \in Links, PromoteAdd(l)
      PROVE  (graphFaults' = graphFaults /\ unsaved' \subseteq unsaved) \/ graphFaults' > 0
  BY <1>2, PersistFaults DEF PromoteAdd
<1>3. ASSUME NEW l \in Links, PromoteRemove(l) \/ PromoteDelete(Coarse(l))
      PROVE  (graphFaults' = graphFaults /\ unsaved' \subseteq unsaved) \/ graphFaults' > 0
  <2>1. CASE PromoteRemove(l)
    BY <2>1 DEF PromoteRemove, graphHistory
  <2>2. CASE PromoteDelete(Coarse(l))
    <3>1. unsaved' = unsaved /\ (graphFaults' = graphFaults \/ graphFaults' = graphFaults + 1)
      BY <2>2 DEF PromoteDelete, GraphFault
    <3> QED BY <3>1 DEF MeshGraphTypeOK
  <2> QED BY <1>3, <2>1, <2>2
<1>4. ASSUME NEW f \in Flushers, BuildParams(f) \/ CommitFlush(f) \/ FailFlush(f)
      PROVE  (graphFaults' = graphFaults /\ unsaved' \subseteq unsaved) \/ graphFaults' > 0
  BY <1>4 DEF BuildParams, CommitFlush, FailFlush, GraphFault, graphHistory, graphBounds, MeshGraphTypeOK
<1>5. ASSUME WriterWakes \/ WriterPrunes \/ WriterEnds \/ GraphShutdown \/ UNCHANGED meshGraphVars
      PROVE  graphFaults' = graphFaults /\ unsaved' \subseteq unsaved
  BY <1>5 DEF WriterWakes, WriterPrunes, WriterEnds, GraphShutdown, meshGraphVars, graphHistory, graphBounds
<1> QED BY <1>1, <1>2, <1>3, <1>4, <1>5 DEF MeshGraphNext, LinkObserved, MeshGraphGoesOn

(* With no promotion under way the graph goes on without new pending edges, *)
(* unless a flush fails.                                                    *)
LEMMA GraphComesToRest ==
  ASSUME MeshGraphTypeOK, promoting = {}, MeshGraphGoesOn
  PROVE  /\ promoting' = {}
         /\ (graphFaults' = graphFaults /\ pending' \subseteq pending) \/ graphFaults' > 0
<1>1. ASSUME NEW l \in Links, PromoteDelete(Coarse(l)) \/ PromoteAdd(l) PROVE FALSE
  BY <1>1 DEF PromoteDelete, PromoteAdd
<1>2. ASSUME NEW f \in Flushers, BuildParams(f) \/ CommitFlush(f)
      PROVE  promoting' = {} /\ graphFaults' = graphFaults /\ pending' = pending
  BY <1>2 DEF BuildParams, CommitFlush, memory, graphBounds
<1>3. ASSUME NEW f \in Flushers, FailFlush(f) PROVE promoting' = {} /\ graphFaults' > 0
  BY <1>3 DEF FailFlush, GraphFault, memory, MeshGraphTypeOK
<1>4. ASSUME WriterWakes \/ WriterPrunes \/ WriterEnds
      PROVE  promoting' = {} /\ graphFaults' = graphFaults /\ pending' \subseteq pending
  BY <1>4 DEF WriterWakes, WriterPrunes, WriterEnds, Take, memory, graphBounds
<1> QED BY <1>1, <1>2, <1>3, <1>4 DEF MeshGraphGoesOn

LEMMA SavedStep == ASSUME GraphInv, SavedInv, [BotNext]_botVars PROVE SavedInv'
<1>a. MeshGraphTypeOK /\ [MeshGraphNext]_meshGraphVars
  BY StepOfPart DEF GraphInv, botVars
<1>b. graphFaults' = 0 => unsaved' = {} /\ graphFaults = 0
  BY <1>a, FaultsExcuse DEF SavedInv, MeshGraphTypeOK
<1>1. CASE GraphObserves \/ GraphGoesOn
  <2>1. /\ phase' = phase /\ phase # "exited" /\ features' = features /\ "graph" \in features
        /\ phase \in Ended => MeshGraphGoesOn
    BY <1>1 DEF GraphObserves, GraphGoesOn, TaskOf, StepOf, lifecycle
  <2>2. CASE phase \in {"parting", "exiting"}
    BY <1>a, <1>b, <2>1, <2>2, GraphComesToRest DEF SavedInv, Ended, MeshGraphTypeOK
  <2>3. CASE phase \notin {"parting", "exiting"}
    BY <1>b, <2>1, <2>3 DEF SavedInv
  <2> QED BY <2>2, <2>3
<1>2. CASE StopGraph \/ ExitGraph
  <2>1. /\ NextPhase /\ GraphShutdown /\ phase \in {"graph", "saving"} /\ features' = features
    BY <1>2 DEF StopGraph, ExitGraph
  <2>2. promoting' = {} /\ pending' = {} /\ (count = row => count' = row')
    BY <2>1 DEF GraphShutdown, GraphLoopFree, Take, memory
  <2>3. phase' # "exited"
    BY <2>1, PhasesAreInOrder
  <2> QED BY <1>b, <2>1, <2>2, <2>3 DEF SavedInv
<1>3. CASE UNCHANGED meshGraphVars /\ UNCHANGED lifecycle
  BY <1>3 DEF SavedInv, meshGraphVars, memory, flushes, graphHistory, graphBounds, lifecycle
<1>4. CASE UNCHANGED meshGraphVars /\ NextPhase /\ LoopFree /\ features' = features /\ phase # "saving"
  <2>1. UNCHANGED <<count, row, pending, promoting, stage, unsaved, graphFaults, features>>
    BY <1>4 DEF meshGraphVars, memory, flushes, graphHistory, graphBounds
  <2>2. stage["loop"] = "idle"
    BY <1>4 DEF LoopFree, GraphLoopFree
  <2>3. "graph" \in features /\ phase' \in {"parting", "exiting", "exited"} => phase \in {"parting", "exiting", "exited"}
    BY <1>4, PhasesAreInOrder
  <2> QED BY <2>1, <2>2, <2>3 DEF SavedInv
<1>5. CASE CommandStep \/ TimeStep \/ ReplyStep \/ RecordStep \/ SuperviseStep \/ ServiceStep \/ ViewerChecked \/ ViewerStep
  BY <1>3, <1>5 DEF CommandStep, TimeStep, ReplyStep, RecordStep, SuperviseStep, ServiceStep, ViewerChecked, ViewerStep,
                    TaskOf, StepOf, Others
<1>9. CASE MessageStep \/ AirStep \/ WarningStep \/ Restart
  BY <1>3, <1>9 DEF MessageStep, MessageHandled, AirStep, WarningStep, Restart, TaskOf, StepOf, Others
<1>6. CASE StopBegins \/ StopViewer \/ Disconnect \/ LoopEnds \/ ExitViewer \/ Exit
  BY <1>4, <1>6 DEF StopBegins, StopViewer, Disconnect, LoopEnds, ExitViewer, Exit, Others
<1>7. CASE StopService
  <2>1. UNCHANGED meshGraphVars /\ LoopFree /\ phase # "saving" /\ features' = features
    BY <1>7 DEF StopService, Others
  <2>2. CASE NextPhase
    BY <1>4, <2>1, <2>2
  <2>3. CASE UNCHANGED phase
    <3>1. UNCHANGED <<count, row, pending, promoting, stage, unsaved, graphFaults, features, phase>>
      BY <2>1, <2>3 DEF meshGraphVars, memory, flushes, graphHistory, graphBounds
    <3> QED BY <3>1 DEF SavedInv
  <2> QED BY <1>7, <2>2, <2>3 DEF StopService
<1>10. CASE StopTracker
  BY <1>3, <1>10 DEF StopTracker, Others
<1>8. CASE UNCHANGED botVars
  BY <1>3, <1>8 DEF botVars
<1> QED BY <1>1, <1>2, <1>5, <1>6, <1>7, <1>8, <1>9, <1>10 DEF BotNext, Stop

(* When the process ends, the database has what the memory has, unless a    *)
(* write failed or the batch thread was cut off in a flush.                 *)
THEOREM ExitAlwaysStoresGraph == BotSpec => []ExitStoresGraph
<1>1. BotInit => SavedInv
  <2> SUFFICES ASSUME BotInit PROVE SavedInv
    OBVIOUS
  <2>1. "graph" \notin features => count = row
    <3> SUFFICES ASSUME row = Nothing PROVE count = row
      BY DEF BotInit
    <3>1. count \in [Edges -> {0, 1}] /\ \A e \in Edges : count[e] <= 0
      BY DEF BotInit, MeshGraphInit, Nothing
    <3> QED BY <3>1 DEF Nothing
  <2> QED BY <2>1 DEF BotInit, SavedInv, MeshGraphInit
<1>2. GraphInv /\ SavedInv /\ [BotNext]_botVars => SavedInv'
  BY SavedStep
<1>3. GraphInv /\ SavedInv => ExitStoresGraph
  <2> SUFFICES ASSUME GraphInv, SavedInv, phase = "exited", NEW e \in Edges, count[e] > row[e], graphFaults = 0
               PROVE  e \in updates["writer"]
    BY DEF ExitStoresGraph, GraphInv, MeshGraphTypeOK
  <2>1. "graph" \in features
    BY DEF SavedInv, GraphInv, MeshGraphTypeOK
  <2>2. pending = {} /\ unsaved = {}
    BY <2>1 DEF SavedInv
  <2>3. InFlush(e)
    BY <2>2 DEF GraphInv, DirtyIsTracked
  <2> QED BY <2>3 DEF InFlush, Flushers, SavedInv
<1> QED BY <1>1, <1>2, <1>3, GraphInvariant, PTL DEF BotSpec

-----------------------------------------------------------------------------
(* Commands.                                                                *)

(* Executions of a message so far, counting the one its entry will make.    *)
Due(m) == runs[m] + (IF m \in queued THEN 1 ELSE 0)

(* What is left to the task of a message and to the queue.                  *)
RunsOf(m) ==
  /\ direct[m] = "unseen" => runs[m] = 0 /\ m \notin queued
  /\ direct[m] = "checking" => Style(m) = "online" /\ Due(m) <= 1
  /\ Due(m) <= IF Style(m) = "format" THEN 1 ELSE 2

(* What waits was let in when its user's former execution was far enough    *)
(* away, as long as no other came since.                                    *)
WaitsApart(m) ==
  Style(m) # "format" /\ m \notin overtaken /\ Of(m) \notin uncharged =>
    /\ direct[m] = "checking" => sinceRun[Of(m)] >= Cooldown[Invokes[m]]
    /\ m \in queued => sinceRun[Of(m)] >= Recent

(* What the commands know of a user is the truth unless an execution was    *)
(* charged to an object that is out of use, or lost with it.                *)
CoolInv ==
  /\ \A cu \in Commands \X Users :
       style[cu[1]] # "format" /\ cu \notin uncharged => sinceRun[cu] = userRested[cu]
  /\ \A m \in Messages : WaitsApart(m)

CommandInv ==
  /\ CommandQueueTypeOK /\ CoolInv
  /\ \A m \in Messages : RunsOf(m)

LEMMA CommandsInitially == ASSUME CommandQueueInit PROVE CommandInv
<1> USE CommandQueueAssumption
<1>1. Fresh \in [Commands -> Nat] /\ FreshUsers \in [Commands \X Users -> Nat]
  BY DEF Fresh, FreshUsers, Age
<1>2. CommandQueueTypeOK
  BY <1>1 DEF CommandQueueInit, CommandQueueTypeOK, DirectStates
<1>3. CoolInv
  BY DEF CommandQueueInit, CoolInv, WaitsApart
<1>4. \A m \in Messages : RunsOf(m)
  BY DEF CommandQueueInit, RunsOf, Due
<1> QED BY <1>2, <1>3, <1>4 DEF CommandInv

LEMMA CommandTypes ==
  ASSUME CommandQueueTypeOK, [CommandQueueNext]_commandQueueVars
  PROVE  CommandQueueTypeOK'
<1> USE CommandQueueAssumption DEF CommandQueueTypeOK, DirectStates
<1>a. Fresh \in [Commands -> Nat] /\ FreshUsers \in [Commands \X Users -> Nat]
  BY DEF Fresh, FreshUsers, Age
<1>b. \A m \in Messages : Invokes[m] \in Commands /\ Sender[m] \in Users /\ Of(m) \in Commands \X Users
  BY DEF Of
<1>1. ASSUME NEW m \in Messages, Receive(m) PROVE CommandQueueTypeOK'
  <2>1. queued' \subseteq Messages /\ batch' \subseteq queued'
    BY <1>1 DEF Receive, Enqueue, processor
  <2>2. due' \in [Messages -> Nat]
    <3>1. CASE ShouldQueue(m) /\ ~HasEntry(m)
      <4>1. Cooldown[Invokes[m]] - rested[Invokes[m]] \in Nat
        BY <1>b, <3>1 DEF ShouldQueue, GlobalReady
      <4> QED BY <1>1, <3>1, <4>1 DEF Receive, Enqueue
    <3>2. CASE ~(ShouldQueue(m) /\ ~HasEntry(m))
      BY <1>1, <3>2 DEF Receive
    <3> QED BY <3>1, <3>2
  <2>3. direct' \in [Messages -> DirectStates]
    BY <1>1 DEF Receive, Dispatch
  <2>4. userRested' \in [Commands \X Users -> Nat] /\ rested' \in [Commands -> Nat]
    BY <1>1, <1>b DEF Receive, Dispatch, Execute, Record, cooldowns
  <2>5. runs' \in [Messages -> Nat] /\ sinceRun' \in [Commands \X Users -> Nat]
    BY <1>1, <1>b DEF Receive, Dispatch, Execute, Runs, history
  <2>6. overtaken' \subseteq Messages /\ uncharged' \subseteq Commands \X Users
    <3>1. \/ Runs(m) /\ (Record(m) \/ UNCHANGED uncharged)
          \/ UNCHANGED history
      BY <1>1 DEF Receive, Dispatch, Execute
    <3>2. overtaken' \subseteq Messages
      BY <2>1, <3>1 DEF Runs, Waiting, history
    <3>3. uncharged' \subseteq Commands \X Users
      BY <3>1, <1>b DEF Record, history
    <3> QED BY <3>2, <3>3
  <2> QED BY <1>1, <2>1, <2>2, <2>3, <2>4, <2>5, <2>6 DEF Receive, processor
<1>2. ASSUME NEW m \in Messages, InternetChecked(m) PROVE CommandQueueTypeOK'
  <2>1. direct' \in [Messages -> DirectStates]
    BY <1>2 DEF InternetChecked
  <2>2. userRested' \in [Commands \X Users -> Nat] /\ rested' \in [Commands -> Nat]
    BY <1>2, <1>b DEF InternetChecked, Execute, Record, cooldowns
  <2>3. runs' \in [Messages -> Nat] /\ sinceRun' \in [Commands \X Users -> Nat]
    <3>1. CASE Execute(m)
      BY <3>1, <1>b DEF Execute, Runs
    <3>2. CASE UNCHANGED history
      BY <3>2 DEF history
    <3> QED BY <1>2, <3>1, <3>2 DEF InternetChecked
  <2>4. overtaken' \subseteq Messages /\ uncharged' \subseteq Commands \X Users
    <3>1. CASE Execute(m)
      <4>1. overtaken' \subseteq Messages
        BY <1>2, <3>1 DEF InternetChecked, Execute, Runs, Waiting
      <4>2. uncharged' \subseteq Commands \X Users
        BY <3>1, <1>b DEF Execute, Record
      <4> QED BY <4>1, <4>2
    <3>2. CASE UNCHANGED history
      BY <3>2 DEF history
    <3> QED BY <1>2, <3>1, <3>2 DEF InternetChecked
  <2> QED BY <1>2, <2>1, <2>2, <2>3, <2>4 DEF InternetChecked, processor
<1>3. ASSUME NEW m \in Messages, DirectDone(m) PROVE CommandQueueTypeOK'
  BY <1>3 DEF DirectDone, cooldowns, processor, history
<1>4. ASSUME FindReady PROVE CommandQueueTypeOK'
  BY <1>4 DEF FindReady, cooldowns, history
<1>5. ASSUME NEW m \in Messages, ServeQueued(m) PROVE CommandQueueTypeOK'
  <2>1. userRested' \in [Commands \X Users -> Nat] /\ rested' \in [Commands -> Nat]
    BY <1>5, <1>b DEF ServeQueued, Execute, Record
  <2>2. runs' \in [Messages -> Nat] /\ sinceRun' \in [Commands \X Users -> Nat]
    BY <1>5, <1>b DEF ServeQueued, Execute, Runs
  <2>3. overtaken' \subseteq Messages
    BY <1>5 DEF ServeQueued, Execute, Runs, Waiting
  <2>4. uncharged' \subseteq Commands \X Users
    BY <1>5, <1>b DEF ServeQueued, Execute, Record
  <2> QED BY <1>5, <2>1, <2>2, <2>3, <2>4 DEF ServeQueued
<1>6. ASSUME NEW m \in Messages, Served(m) PROVE CommandQueueTypeOK'
  BY <1>6 DEF Served, cooldowns, history
<1>7. ASSUME NEW c \in Commands, StartGlobalCooldown(c) PROVE CommandQueueTypeOK'
  BY <1>7 DEF StartGlobalCooldown, processor, history
<1>8. ASSUME Reload PROVE CommandQueueTypeOK'
  BY <1>8, <1>a DEF Reload, processor, history
<1>9. ASSUME CommandQueueTick PROVE CommandQueueTypeOK'
  <2>1. \A n \in Nat, c \in Commands : Older(n, c) \in Nat
    BY DEF Older
  <2>2. /\ rested' \in [Commands -> Nat] /\ userRested' \in [Commands \X Users -> Nat]
        /\ sinceRun' \in [Commands \X Users -> Nat]
    BY <1>9, <2>1 DEF CommandQueueTick
  <2>3. due' \in [Messages -> Nat]
    BY <1>9 DEF CommandQueueTick
  <2> QED BY <1>9, <2>2, <2>3 DEF CommandQueueTick, processor
<1>10. ASSUME UNCHANGED commandQueueVars PROVE CommandQueueTypeOK'
  BY <1>10 DEF commandQueueVars, cooldowns, processor, history
<1> QED BY <1>1, <1>2, <1>3, <1>4, <1>5, <1>6, <1>7, <1>8, <1>9, <1>10
         DEF CommandQueueNext, MessageArrives, CommandQueueTasks, Render, Capture

(* A step changes what is due of one message at most.                       *)
LEMMA RunsStep ==
  ASSUME CommandInv, [CommandQueueNext]_commandQueueVars, NEW n \in Messages
  PROVE  RunsOf(n)'
<1>a. CommandQueueTypeOK /\ RunsOf(n)
  BY DEF CommandInv
<1>b. style' = style
  BY DEF CommandQueueNext, MessageArrives, CommandQueueTasks, Receive, InternetChecked, DirectDone, FindReady, ServeQueued,
         Served, Render, Capture, StartGlobalCooldown, Reload, CommandQueueTick, commandQueueVars
<1>c. Style(n)' = Style(n)
  BY <1>b DEF Style
<1> USE DEF RunsOf, Due, CommandQueueTypeOK
<1>1. ASSUME NEW m \in Messages, Receive(m) PROVE RunsOf(n)'
  <2>1. CASE n # m
    <3>1. (n \in queued <=> n \in queued')
      BY <1>1, <2>1 DEF Receive, Enqueue
    <3>2. direct'[n] = direct[n]
      BY <1>1, <1>a, <2>1 DEF Receive, Dispatch
    <3>3. runs'[n] = runs[n]
      BY <1>1, <1>a, <2>1 DEF Receive, Dispatch, Execute, Runs, history
    <3> QED BY <1>a, <1>c, <3>1, <3>2, <3>3
  <2>2. CASE n = m
    <3>0. runs[n] = 0 /\ n \notin queued
      BY <1>1, <1>a, <2>2 DEF Receive
    <3>1. CASE Style(n) = "format"
      <4>1. direct'[n] = "handled"
        BY <1>1, <1>a, <2>2, <3>1 DEF Receive
      <4>2. CASE n \in queued'
        <5>1. runs' = runs
          BY <1>1, <2>2, <3>0, <3>1, <4>2 DEF Receive, history
        <5> QED BY <1>a, <1>c, <3>0, <3>1, <4>1, <5>1
      <4>3. CASE n \notin queued'
        <5>1. runs'[n] <= 1 /\ runs'[n] \in Nat
          BY <1>1, <1>a, <2>2, <3>0, <3>1 DEF Receive, Runs, history
        <5> QED BY <1>c, <3>1, <4>1, <4>3, <5>1
      <4> QED BY <4>2, <4>3
    <3>2. CASE Style(n) # "format"
      <4>1. Dispatch(n)
        BY <1>1, <2>2, <3>2 DEF Receive
      <4>2. direct'[n] # "unseen"
        BY <1>a, <4>1 DEF Dispatch
      <4>3. runs'[n] <= 1 /\ runs'[n] \in Nat /\ (direct'[n] = "checking" => runs'[n] = 0)
        BY <1>a, <3>0, <4>1 DEF Dispatch, Execute, Runs, history
      <4>4. direct'[n] = "checking" => Style(n) = "online"
        BY <1>a, <4>1 DEF Dispatch
      <4> QED BY <1>c, <3>2, <4>2, <4>3, <4>4
    <3> QED BY <3>1, <3>2
  <2> QED BY <2>1, <2>2
<1>2. ASSUME NEW m \in Messages, InternetChecked(m) PROVE RunsOf(n)'
  <2>1. queued' = queued
    BY <1>2 DEF InternetChecked
  <2>2. CASE n # m
    <3>1. direct'[n] = direct[n] /\ runs'[n] = runs[n]
      BY <1>2, <1>a, <2>2 DEF InternetChecked, Execute, Runs, history
    <3> QED BY <1>a, <1>c, <2>1, <3>1
  <2>3. CASE n = m
    <3>1. direct'[n] \in {"running", "handled"}
      BY <1>2, <1>a, <2>3 DEF InternetChecked
    <3>2. runs'[n] \in {runs[n], runs[n] + 1} /\ direct[n] = "checking"
      BY <1>2, <1>a, <2>3 DEF InternetChecked, Execute, Runs, history
    <3> QED BY <1>a, <1>c, <2>1, <3>1, <3>2
  <2> QED BY <2>2, <2>3
<1>3. ASSUME NEW m \in Messages, DirectDone(m) PROVE RunsOf(n)'
  BY <1>3, <1>a, <1>c DEF DirectDone, history
<1>4. ASSUME NEW m \in Messages, ServeQueued(m) PROVE RunsOf(n)'
  <2>0. m \in queued /\ queued' = queued \ {m} /\ direct' = direct /\ runs' = [runs EXCEPT ![m] = @ + 1]
    BY <1>4, <1>a DEF ServeQueued, Execute, Runs
  <2>1. CASE n # m
    BY <1>a, <1>c, <2>0, <2>1
  <2>2. CASE n = m
    BY <1>a, <1>c, <2>0, <2>2
  <2> QED BY <2>1, <2>2
<1>5. ASSUME UNCHANGED <<queued, direct, runs>> PROVE RunsOf(n)'
  BY <1>5, <1>a, <1>c
<1>6. ASSUME NEW m \in Messages, Served(m) PROVE RunsOf(n)'
  BY <1>5, <1>6 DEF Served, history
<1>7. ASSUME NEW c \in Commands, StartGlobalCooldown(c) PROVE RunsOf(n)'
  BY <1>5, <1>7 DEF StartGlobalCooldown, history
<1>8. ASSUME FindReady \/ Reload \/ CommandQueueTick \/ UNCHANGED commandQueueVars PROVE RunsOf(n)'
  BY <1>5, <1>8 DEF FindReady, Reload, CommandQueueTick, commandQueueVars, history
<1> QED BY <1>1, <1>2, <1>3, <1>4, <1>6, <1>7, <1>8
         DEF CommandQueueNext, MessageArrives, CommandQueueTasks, Render, Capture

(* What leaves the ages and the marks of a message alone and does not let   *)
(* it in keeps it apart.                                                     *)
LeavesAlone(n) ==
  /\ style' = style
  /\ sinceRun'[Of(n)] = sinceRun[Of(n)]
  /\ n \in overtaken => n \in overtaken'
  /\ Of(n) \in uncharged => Of(n) \in uncharged'
  /\ n \in queued' => n \in queued
  /\ direct'[n] = "checking" => direct[n] = "checking"

LEMMA FrameKeepsApart ==
  ASSUME NEW n \in Messages, WaitsApart(n), LeavesAlone(n) PROVE WaitsApart(n)'
<1> USE DEF LeavesAlone
<1>1. Style(n)' = Style(n)
  BY DEF Style
<1>2. SUFFICES ASSUME Style(n) # "format", n \notin overtaken', Of(n) \notin uncharged'
               PROVE  /\ direct'[n] = "checking" => sinceRun'[Of(n)] >= Cooldown[Invokes[n]]
                      /\ n \in queued' => sinceRun'[Of(n)] >= Recent
  BY <1>1 DEF WaitsApart
<1>3. /\ direct[n] = "checking" => sinceRun[Of(n)] >= Cooldown[Invokes[n]]
      /\ n \in queued => sinceRun[Of(n)] >= Recent
  BY <1>2 DEF WaitsApart
<1> QED BY <1>3

(* Executing a message charges its user, or loses track of it, and overtakes *)
(* every other message of the user that waits for the command.              *)
LEMMA ExecuteKeepsApart ==
  ASSUME CommandQueueTypeOK, CoolInv, NEW m \in Messages, Execute(m), UNCHANGED style,
         \A n \in Messages \ {m} : /\ n \in queued' => n \in queued
                                   /\ direct'[n] = "checking" => direct[n] = "checking"
  PROVE  CoolInv'
<1> USE DEF CommandQueueTypeOK
<1>1. Of(m) \in Commands \X Users
  BY CommandQueueAssumption DEF Of
<1>2. /\ sinceRun' = [sinceRun EXCEPT ![Of(m)] = 0]
      /\ overtaken' = overtaken \cup {n \in Waiting' : Of(n) = Of(m)}
  BY DEF Execute, Runs
<1>3. \/ uncharged' = uncharged \cup {Of(m)} /\ userRested' = userRested
      \/ uncharged' = uncharged \ {Of(m)} /\ userRested' = [userRested EXCEPT ![Of(m)] = 0]
  BY DEF Execute, Record
<1>4. ASSUME NEW cu \in Commands \X Users, style'[cu[1]] # "format", cu \notin uncharged'
      PROVE  sinceRun'[cu] = userRested'[cu]
  <2>1. CASE cu = Of(m)
    BY <1>1, <1>2, <1>3, <1>4, <2>1
  <2>2. CASE cu # Of(m)
    BY <1>1, <1>2, <1>3, <1>4, <2>2 DEF CoolInv
  <2> QED BY <2>1, <2>2
<1>5. ASSUME NEW n \in Messages PROVE WaitsApart(n)'
  <2>1. CASE Of(n) = Of(m)
    <3>1. direct'[n] = "checking" \/ n \in queued' => n \in overtaken'
      BY <1>2, <2>1 DEF Waiting
    <3> QED BY <3>1 DEF WaitsApart
  <2>2. CASE Of(n) # Of(m)
    <3>1. n # m /\ Of(n) \in Commands \X Users
      BY <2>2, CommandQueueAssumption DEF Of
    <3>2. sinceRun'[Of(n)] = sinceRun[Of(n)]
      BY <1>1, <1>2, <2>2, <3>1
    <3>3. (n \in overtaken => n \in overtaken') /\ (Of(n) \in uncharged <=> Of(n) \in uncharged')
      BY <1>2, <1>3, <2>2
    <3>4. WaitsApart(n)
      BY DEF CoolInv
    <3>5. (n \in queued' => n \in queued) /\ (direct'[n] = "checking" => direct[n] = "checking")
      BY <3>1
    <3>6. LeavesAlone(n)
      BY <3>2, <3>3, <3>5 DEF LeavesAlone
    <3> QED BY <3>4, <3>6, FrameKeepsApart
  <2> QED BY <2>1, <2>2
<1> QED BY <1>4, <1>5 DEF CoolInv

LEMMA CoolStep == ASSUME CommandInv, [CommandQueueNext]_commandQueueVars PROVE CoolInv'
<1>a. CommandQueueTypeOK /\ CoolInv
  BY DEF CommandInv
<1>b. \A m \in Messages : Invokes[m] \in Commands /\ Of(m) \in Commands \X Users /\ Of(m)[1] = Invokes[m]
  BY CommandQueueAssumption DEF Of
<1> USE DEF CommandQueueTypeOK
<1>1. ASSUME UNCHANGED <<style, sinceRun, userRested, uncharged, overtaken>>,
             \A n \in Messages : /\ n \in queued' => n \in queued
                                 /\ direct'[n] = "checking" => direct[n] = "checking"
      PROVE  CoolInv'
  <2>1. ASSUME NEW n \in Messages PROVE WaitsApart(n)'
    <3>1. WaitsApart(n)
      BY <1>a DEF CoolInv
    <3>2. (n \in queued' => n \in queued) /\ (direct'[n] = "checking" => direct[n] = "checking")
      BY <1>1
    <3>3. sinceRun' = sinceRun /\ overtaken' = overtaken /\ uncharged' = uncharged /\ style' = style
      BY <1>1
    <3>4. LeavesAlone(n)
      BY <3>2, <3>3 DEF LeavesAlone
    <3> QED BY <3>1, <3>4, FrameKeepsApart
  <2> QED BY <1>1, <1>a, <2>1 DEF CoolInv
<1>2. ASSUME NEW m \in Messages, Receive(m) PROVE CoolInv'
  <2>0. /\ style' = style
        /\ \A n \in Messages \ {m} : /\ n \in queued' => n \in queued
                                     /\ direct'[n] = direct[n]
    BY <1>2, <1>a DEF Receive, Enqueue, Dispatch
  <2>1. CASE Style(m) = "format"
    <3>1. userRested' = userRested /\ uncharged' = uncharged /\ overtaken \subseteq overtaken'
      BY <1>2, <2>1 DEF Receive, Runs, cooldowns, history
    <3>2. sinceRun' = sinceRun \/ sinceRun' = [sinceRun EXCEPT ![Of(m)] = 0]
      BY <1>2, <2>1 DEF Receive, Runs, history
    <3>3. \A cu \in Commands \X Users : style[cu[1]] # "format" => sinceRun'[cu] = sinceRun[cu]
      BY <1>a, <1>b, <2>1, <3>2 DEF Style
    <3>4. ASSUME NEW n \in Messages PROVE WaitsApart(n)'
      <4>1. CASE Style(n) = "format"
        BY <2>0, <4>1 DEF WaitsApart, Style
      <4>2. CASE Style(n) # "format"
        <5>1. n # m /\ WaitsApart(n)
          BY <1>a, <2>1, <4>2 DEF CoolInv
        <5>2. sinceRun'[Of(n)] = sinceRun[Of(n)]
          BY <1>b, <3>3, <4>2 DEF Style
        <5> QED BY <2>0, <3>1, <4>2, <5>1, <5>2 DEF WaitsApart, Style
      <4> QED BY <4>1, <4>2
    <3> QED BY <1>a, <2>0, <3>1, <3>3, <3>4 DEF CoolInv
  <2>2. CASE Style(m) # "format"
    <3>1. Dispatch(m)
      BY <1>2, <2>2 DEF Receive
    <3>2. CASE Execute(m)
      BY <1>a, <2>0, <3>2, ExecuteKeepsApart
    <3>3. CASE UNCHANGED <<cooldowns, history>>
      <4>0. UNCHANGED <<userRested, sinceRun, overtaken, uncharged>>
        BY <3>3 DEF cooldowns, history
      <4>1. Of(m) \notin uncharged => sinceRun[Of(m)] = userRested[Of(m)]
        BY <1>a, <1>b, <2>2 DEF CoolInv, Style
      <4>2. m \in queued' => m \in queued \/ userRested[Of(m)] >= Recent
        BY <1>2 DEF Receive, Enqueue, ShouldQueue
      <4>3. direct'[m] = "checking" => userRested[Of(m)] >= Cooldown[Invokes[m]]
        BY <1>2, <1>a, <3>1 DEF Dispatch, CanExecute
      <4>4. WaitsApart(m)'
        <5>1. WaitsApart(m)
          BY <1>a DEF CoolInv
        <5>2. SUFFICES ASSUME m \notin overtaken, Of(m) \notin uncharged
                       PROVE  /\ direct'[m] = "checking" => sinceRun[Of(m)] >= Cooldown[Invokes[m]]
                              /\ m \in queued' => sinceRun[Of(m)] >= Recent
          BY <4>0 DEF WaitsApart
        <5>3. m \in queued => sinceRun[Of(m)] >= Recent
          BY <2>2, <5>1, <5>2 DEF WaitsApart
        <5> QED BY <4>1, <4>2, <4>3, <5>2, <5>3
      <4>5. ASSUME NEW n \in Messages, n # m PROVE WaitsApart(n)'
        <5>1. WaitsApart(n)
          BY <1>a DEF CoolInv
        <5>2. LeavesAlone(n)
          BY <2>0, <4>0, <4>5 DEF LeavesAlone
        <5> QED BY <5>1, <5>2, FrameKeepsApart
      <4>6. \A n \in Messages : WaitsApart(n)'
        BY <4>4, <4>5
      <4> QED BY <1>a, <2>0, <4>0, <4>6 DEF CoolInv
    <3> QED BY <3>1, <3>2, <3>3 DEF Dispatch
  <2> QED BY <2>1, <2>2
<1>3. ASSUME NEW m \in Messages, InternetChecked(m) PROVE CoolInv'
  <2>0. /\ UNCHANGED <<style, queued>>
        /\ \A n \in Messages : direct'[n] = "checking" => direct[n] = "checking"
    BY <1>3, <1>a DEF InternetChecked
  <2>1. CASE Execute(m)
    BY <1>a, <2>0, <2>1, ExecuteKeepsApart
  <2>2. CASE UNCHANGED <<cooldowns, history>>
    BY <1>1, <2>0, <2>2 DEF cooldowns, history
  <2> QED BY <1>3, <2>1, <2>2 DEF InternetChecked
<1>4. ASSUME NEW m \in Messages, ServeQueued(m) PROVE CoolInv'
  BY <1>4, <1>a, ExecuteKeepsApart DEF ServeQueued
<1>5. ASSUME Reload PROVE CoolInv'
  BY <1>5, <1>a, <1>b DEF Reload, CoolInv, WaitsApart
<1>6. ASSUME CommandQueueTick PROVE CoolInv'
  <2>1. \A k \in Nat, c \in Commands : Older(k, c) \in Nat /\ Older(k, c) >= k
    BY DEF Older
  <2>2. \A cu \in Commands \X Users :
           /\ sinceRun'[cu] = Older(sinceRun[cu], cu[1])
           /\ userRested'[cu] = Older(userRested[cu], cu[1])
    BY <1>6 DEF CommandQueueTick
  <2>3. UNCHANGED <<style, queued, direct, overtaken, uncharged>>
    BY <1>6 DEF CommandQueueTick
  <2>4. ASSUME NEW n \in Messages PROVE WaitsApart(n)'
    <3>1. sinceRun'[Of(n)] >= sinceRun[Of(n)] /\ sinceRun[Of(n)] \in Nat /\ sinceRun'[Of(n)] \in Nat
      BY <1>a, <1>b, <2>1, <2>2
    <3>2. Cooldown[Invokes[n]] \in Nat /\ Recent \in Nat
      BY <1>b, CommandQueueAssumption
    <3> QED BY <1>a, <2>3, <3>1, <3>2 DEF CoolInv, WaitsApart, Style
  <2> QED BY <1>a, <2>2, <2>3, <2>4 DEF CoolInv
<1>7. ASSUME NEW m \in Messages, DirectDone(m) PROVE CoolInv'
  <2>1. \A n \in Messages : direct'[n] = "checking" => direct[n] = "checking"
    BY <1>7, <1>a DEF DirectDone
  <2> QED BY <1>1, <1>7, <2>1 DEF DirectDone, cooldowns, history
<1>8. ASSUME NEW m \in Messages, Served(m) PROVE CoolInv'
  BY <1>1, <1>8 DEF Served, cooldowns, history
<1>9. ASSUME NEW c \in Commands, StartGlobalCooldown(c) PROVE CoolInv'
  BY <1>1, <1>9 DEF StartGlobalCooldown, history
<1>10. ASSUME FindReady \/ UNCHANGED commandQueueVars PROVE CoolInv'
  BY <1>1, <1>10 DEF FindReady, commandQueueVars, cooldowns, history
<1> QED BY <1>2, <1>3, <1>4, <1>5, <1>6, <1>7, <1>8, <1>9, <1>10
         DEF CommandQueueNext, MessageArrives, CommandQueueTasks, Render, Capture

LEMMA CommandInvariant == BotSpec => []CommandInv
<1>1. BotInit => CommandInv
  BY CommandsInitially DEF BotInit
<1>2. CommandInv /\ [BotNext]_botVars => CommandInv'
  <2> SUFFICES ASSUME CommandInv, [BotNext]_botVars PROVE CommandInv'
    OBVIOUS
  <2>1. [CommandQueueNext]_commandQueueVars
    BY StepOfPart DEF botVars
  <2>2. CommandQueueTypeOK'
    BY <2>1, CommandTypes DEF CommandInv
  <2>3. \A m \in Messages : RunsOf(m)'
    BY <2>1, RunsStep
  <2>4. CoolInv'
    BY <2>1, CoolStep
  <2> QED BY <2>2, <2>3, <2>4 DEF CommandInv
<1> QED BY <1>1, <1>2, PTL DEF BotSpec

(* No message is executed a third time, and none that the keywords answer a *)
(* second time, in whatever order its two handlers and the queue run.       *)
THEOREM ExecutionsAreAlwaysExcused == BotSpec => []ExecutionsAreExcused
<1>1. CommandInv => ExecutionsAreExcused
  BY DEF CommandInv, CommandQueueTypeOK, RunsOf, Due, ExecutionsAreExcused
<1> QED BY <1>1, CommandInvariant, PTL

(* Every way to an execution: it was let in when the user's former one was  *)
(* far enough away, and if another came since, it has been overtaken.       *)
LEMMA SpacedStep ==
  ASSUME CommandInv, [CommandQueueNext]_commandQueueVars,
         NEW m \in Messages, runs'[m] # runs[m], Style(m) # "format",
         m \notin overtaken, Of(m) \notin uncharged
  PROVE  sinceRun[Of(m)] >= IF m \in serving' \ serving THEN Recent ELSE Cooldown[Invokes[m]]
<1>a. CommandQueueTypeOK /\ CoolInv /\ WaitsApart(m)
  BY DEF CommandInv, CoolInv
<1>b. Of(m) \in Commands \X Users /\ Of(m)[1] = Invokes[m] /\ Cooldown[Invokes[m]] \in Nat /\ Recent \in Nat
  BY CommandQueueAssumption DEF Of
<1>c. sinceRun[Of(m)] = userRested[Of(m)] /\ sinceRun[Of(m)] \in Nat
  BY <1>a, <1>b DEF CoolInv, Style, CommandQueueTypeOK
<1> USE DEF CommandQueueTypeOK
<1>1. ASSUME NEW n \in Messages, Receive(n) PROVE sinceRun[Of(m)] >= Cooldown[Invokes[m]]
  <2>1. n = m
    BY <1>1, <1>a DEF Receive, Dispatch, Execute, Runs, history
  <2>2. Dispatch(m)
    BY <1>1, <2>1 DEF Receive
  <2>3. CanExecute(m)
    BY <2>2 DEF Dispatch, history
  <2> QED BY <1>c, <2>3 DEF CanExecute
<1>2. ASSUME NEW n \in Messages, InternetChecked(n) PROVE sinceRun[Of(m)] >= Cooldown[Invokes[m]]
  <2>1. n = m
    BY <1>2, <1>a DEF InternetChecked, Execute, Runs, history
  <2> QED BY <1>2, <1>a, <2>1 DEF InternetChecked, WaitsApart
<1>3. ASSUME NEW n \in Messages, ServeQueued(n) PROVE m \in serving' \ serving /\ sinceRun[Of(m)] >= Recent
  <2>1. n = m
    BY <1>3, <1>a DEF ServeQueued, Execute, Runs
  <2> QED BY <1>3, <1>a, <2>1 DEF ServeQueued, WaitsApart
<1>4. ASSUME NEW n \in Messages, Receive(n) \/ InternetChecked(n) PROVE m \notin serving' \ serving
  BY <1>4 DEF Receive, InternetChecked, processor
<1>5. \E n \in Messages : Receive(n) \/ InternetChecked(n) \/ ServeQueued(n)
  BY DEF CommandQueueNext, MessageArrives, CommandQueueTasks, DirectDone, Served, Render, Capture, StartGlobalCooldown,
         FindReady, Reload, CommandQueueTick, commandQueueVars, history
<1> QED
  BY <1>1, <1>2, <1>3, <1>4, <1>5

(* The executions of a user's command keep their distance on every path,    *)
(* unless a message was let in before the execution that it follows or the  *)
(* cooldown of that one was lost to a reload.                               *)
THEOREM RunsAreAlwaysSpaced == BotSpec => RunsAreSpaced
<1>1. CommandInv /\ [BotNext]_botVars =>
      [\A m \in Messages :
         runs'[m] # runs[m] /\ Style(m) # "format" =>
           \/ m \in overtaken \/ Of(m) \in uncharged
           \/ sinceRun[Of(m)] >= IF m \in serving' \ serving THEN Recent ELSE Cooldown[Invokes[m]]]_commandQueueVars
  BY StepOfPart, SpacedStep DEF botVars
<1> QED BY <1>1, CommandInvariant, PTL DEF BotSpec, RunsAreSpaced

-----------------------------------------------------------------------------
(* Services.                                                                *)

(* Whatever restart task there is once stop() has passed the service was    *)
(* there then: the main loop, which creates them, has ended.                *)
LateInv ==
  ~supervising => \A s \in Services \ halting : restart[s] # "none" => s \in late

ServiceInv == ServiceTypeOK /\ LateInv

LEMMA ServicesInitially == ASSUME ServiceInit PROVE ServiceInv
BY ServiceSupervisorAssumption DEF ServiceInit, ServiceInv, ServiceTypeOK, LateInv

LEMMA ServiceStepInv == ASSUME ServiceInv, [ServiceNext]_serviceVars PROVE ServiceInv'
<1> USE DEF ServiceInv, ServiceTypeOK, LateInv, restarts, ServiceFault
<1>1. ASSUME NEW s \in Services, ServiceFails(s) PROVE ServiceInv'
  BY <1>1, ServiceSupervisorAssumption DEF ServiceFails
<1>2. ASSUME HealthStep PROVE ServiceInv'
  BY <1>2 DEF HealthStep
<1>3. ASSUME NEW s \in Services, RestartBegins(s) PROVE ServiceInv'
  BY <1>3 DEF RestartBegins
<1>4. ASSUME NEW s \in Services, RestartStops(s) PROVE ServiceInv'
  <2>1. /\ restart[s] = "stopping" /\ restart' \in {[restart EXCEPT ![s] = "starting"], [restart EXCEPT ![s] = "none"]}
        /\ restarting' \subseteq Services /\ UNCHANGED <<supervising, halting, late>>
    BY <1>4 DEF RestartStops, RestartEnds
  <2>2. /\ service' \in [Services -> {"up", "sick", "down"}] /\ backingOff' \subseteq Services
    BY <1>4 DEF RestartStops
  <2>3. serviceFaults' \in 0..MaxServiceFaults
    BY <1>4, ServiceSupervisorAssumption DEF RestartStops
  <2> QED BY <2>1, <2>2, <2>3
<1>5. ASSUME NEW s \in Services, RestartStarts(s) PROVE ServiceInv'
  <2>1. /\ restart[s] = "starting" /\ restart' = [restart EXCEPT ![s] = "none"]
        /\ restarting' = restarting \ {s} /\ UNCHANGED <<supervising, halting, late>>
    BY <1>5 DEF RestartStarts, RestartEnds
  <2>2. /\ service' \in [Services -> {"up", "sick", "down"}] /\ backingOff' \subseteq Services
    BY <1>5 DEF RestartStarts
  <2>3. serviceFaults' \in 0..MaxServiceFaults
    BY <1>5, ServiceSupervisorAssumption DEF RestartStarts
  <2> QED BY <2>1, <2>2, <2>3
<1>6. ASSUME NEW s \in Services, BackoffEnds(s) PROVE ServiceInv'
  BY <1>6 DEF BackoffEnds
<1>7. ASSUME MainLoopEnds PROVE ServiceInv'
  BY <1>7 DEF MainLoopEnds
<1>8. ASSUME NEW s \in Services, HaltService(s) PROVE ServiceInv'
  BY <1>8, ServiceSupervisorAssumption DEF HaltService
<1>9. ASSUME RestartsCancelled PROVE ServiceInv'
  BY <1>9 DEF RestartsCancelled
<1>10. ASSUME UNCHANGED serviceVars PROVE ServiceInv'
  BY <1>10 DEF serviceVars
<1> QED BY <1>1, <1>2, <1>3, <1>4, <1>5, <1>6, <1>7, <1>8, <1>9, <1>10 DEF ServiceNext, ServiceTasks, ServiceGoesOn

LEMMA ServiceInvariant == BotSpec => []ServiceInv
<1>1. BotInit => ServiceInv
  BY ServicesInitially DEF BotInit
<1>2. ServiceInv /\ [BotNext]_botVars => ServiceInv'
  <2> SUFFICES ASSUME ServiceInv, [BotNext]_botVars PROVE ServiceInv'
    OBVIOUS
  <2>1. [ServiceNext]_serviceVars
    BY StepOfPart DEF botVars
  <2> QED BY <2>1, ServiceStepInv
<1> QED BY <1>1, <1>2, PTL DEF BotSpec

(* Only a restart task that was there when stop() stopped its service makes *)
(* the service run again.                                                   *)
THEOREM ServicesRunAgainOnlyForRestarts == BotSpec => RunsAgainForRestart
<1> DEFINE Again == \A s \in Services :
      ~supervising /\ s \notin halting /\ service[s] = "down" /\ service'[s] # "down" => s \in late
<1>1. ServiceInv /\ [BotNext]_botVars => [Again]_serviceVars
  <2> SUFFICES ASSUME ServiceInv, ServiceNext,
                      NEW s \in Services, ~supervising, s \notin halting, service[s] = "down", service'[s] # "down"
               PROVE  s \in late
    BY StepOfPart DEF botVars
  <2> USE DEF ServiceInv, ServiceTypeOK, restarts
  <2>1. ASSUME NEW t \in Services, ServiceFails(t) PROVE s \in late
    BY <2>1 DEF ServiceFails
  <2>2. ASSUME NEW t \in Services, RestartBegins(t) \/ BackoffEnds(t) PROVE s \in late
    BY <2>2 DEF RestartBegins, BackoffEnds
  <2>3. ASSUME NEW t \in Services, RestartStops(t) PROVE s \in late
    BY <2>3 DEF RestartStops
  <2>4. ASSUME NEW t \in Services, RestartStarts(t) PROVE s \in late
    <3>1. CASE t = s
      BY <2>4, <3>1 DEF RestartStarts, LateInv
    <3>2. CASE t # s
      BY <2>4, <3>2 DEF RestartStarts
    <3> QED BY <3>1, <3>2
  <2>5. ASSUME NEW t \in Services, HaltService(t) PROVE s \in late
    BY <2>5 DEF HaltService
  <2>6. ASSUME HealthStep \/ MainLoopEnds \/ RestartsCancelled PROVE s \in late
    BY <2>6 DEF HealthStep, MainLoopEnds, RestartsCancelled
  <2> QED BY <2>1, <2>2, <2>3, <2>4, <2>5, <2>6 DEF ServiceNext, ServiceTasks, ServiceGoesOn
<1> QED BY <1>1, ServiceInvariant, PTL DEF BotSpec, RunsAgainForRestart

-----------------------------------------------------------------------------
(* The viewer.                                                              *)

(* The restarts of a bot that stops are those that were under way, and none *)
(* of the event loop's thread.                                              *)
UnderWayInv ==
  botStopping => Main \notin underWay /\ \A t \in Threads : InRestart(t) => t \in underWay

ViewerInv == ViewerTypeOK /\ UnderWayInv

LEMMA ViewerInitially == ASSUME ViewerInit PROVE ViewerInv
<1> USE ViewerProcessAssumption
<1>1. /\ alive \subseteq Starts /\ handle \in Starts \cup {NoProcess} /\ underWay \subseteq Threads
      /\ running \in BOOLEAN /\ tearingDown \in BOOLEAN /\ viewerEnabled \in BOOLEAN
      /\ tooSoon \in BOOLEAN /\ botStopping \in BOOLEAN
  BY DEF ViewerInit
<1>2. thread \in [Threads -> ThreadSteps]
  BY DEF ViewerInit, ThreadSteps
<1>3. restartCount \in Nat /\ viewerFaults \in 0..MaxViewerFaults
  BY DEF ViewerInit
<1>4. UnderWayInv
  BY DEF ViewerInit, UnderWayInv
<1> QED BY <1>1, <1>2, <1>3, <1>4 DEF ViewerInv, ViewerTypeOK

(* The types in two parts, for the provers.                                 *)
ThreadTypes ==
  /\ alive \subseteq Starts /\ handle \in Starts \cup {NoProcess}
  /\ thread \in [Threads -> ThreadSteps] /\ underWay \subseteq Threads

FlagTypes ==
  /\ running \in BOOLEAN /\ tearingDown \in BOOLEAN /\ viewerEnabled \in BOOLEAN
  /\ tooSoon \in BOOLEAN /\ botStopping \in BOOLEAN

CountTypes == restartCount \in Nat /\ viewerFaults \in 0..MaxViewerFaults

LEMMA ViewerTypes == ASSUME ViewerTypeOK, [ViewerNext]_viewerVars PROVE ViewerTypeOK'
<1> USE DEF viewerFlags, rateLimit, Becomes, CheckRestart, BeginStop, ProcessEnds, ViewerFault
<1>a. ThreadTypes /\ FlagTypes /\ CountTypes
  BY DEF ViewerTypeOK, ThreadTypes, FlagTypes, CountTypes
<1>b. \A t \in Threads : AfterRestart(t) \in ThreadSteps
  BY DEF AfterRestart, ThreadSteps
<1>c. Main \in Threads /\ \A v \in Starts : v \in Threads /\ v # Main
  BY ViewerProcessAssumption DEF Threads
<1>1. ASSUME NEW v \in Starts, ProcessExits(v) \/ PortTaken(v) PROVE ViewerTypeOK'
  <2>1. ThreadTypes' /\ FlagTypes'
    BY <1>1, <1>a DEF ProcessExits, PortTaken, ThreadTypes, FlagTypes
  <2>2. CountTypes'
    BY <1>1, <1>a, ViewerProcessAssumption DEF ProcessExits, PortTaken, CountTypes
  <2> QED BY <2>1, <2>2 DEF ViewerTypeOK, ThreadTypes, FlagTypes, CountTypes
<1>2. ASSUME NEW t \in Threads, RestartViewer(t) PROVE ViewerTypeOK'
  <2>1. ThreadTypes'
    BY <1>2, <1>a DEF RestartViewer, ThreadTypes, ThreadSteps
  <2>2. FlagTypes'
    BY <1>2, <1>a DEF RestartViewer, FlagTypes
  <2>3. CountTypes'
    BY <1>2, <1>a DEF RestartViewer, CountTypes
  <2> QED BY <2>1, <2>2, <2>3 DEF ViewerTypeOK, ThreadTypes, FlagTypes, CountTypes
<1>3. ASSUME NEW t \in Threads, Terminate(t) PROVE ViewerTypeOK'
  <2>1. ThreadTypes'
    BY <1>3, <1>a DEF Terminate, ThreadTypes, ThreadSteps
  <2>2. FlagTypes' /\ CountTypes'
    BY <1>3, <1>a DEF Terminate, FlagTypes, CountTypes
  <2> QED BY <2>1, <2>2 DEF ViewerTypeOK, ThreadTypes, FlagTypes, CountTypes
<1>4. ASSUME NEW t \in Threads, StartViewer(t) PROVE ViewerTypeOK'
  <2>1. thread' \in [Threads -> ThreadSteps]
    BY <1>4, <1>a, <1>b, <1>c DEF StartViewer, ThreadTypes, ThreadSteps
  <2>2. ThreadTypes'
    BY <1>4, <1>a, <2>1 DEF StartViewer, ThreadTypes
  <2>3. FlagTypes'
    BY <1>4, <1>a DEF StartViewer, FlagTypes
  <2>4. CountTypes'
    BY <1>4, <1>a, ViewerProcessAssumption DEF StartViewer, CountTypes
  <2> QED BY <2>2, <2>3, <2>4 DEF ViewerTypeOK, ThreadTypes, FlagTypes, CountTypes
<1>5. ASSUME NEW v \in Starts, Spawn(v) \/ Settle(v) \/ ThreadEnds(v) PROVE ViewerTypeOK'
  <2>1. ThreadTypes'
    BY <1>5, <1>a, <1>c DEF Spawn, Settle, ThreadEnds, ThreadTypes, ThreadSteps
  <2>2. FlagTypes' /\ CountTypes'
    BY <1>5, <1>a DEF Spawn, Settle, ThreadEnds, FlagTypes, CountTypes
  <2> QED BY <2>1, <2>2 DEF ViewerTypeOK, ThreadTypes, FlagTypes, CountTypes
<1>6. ASSUME NEW t \in Threads, CheckRestart(t) PROVE ViewerTypeOK'
  <2>1. ThreadTypes'
    BY <1>6, <1>a, <1>b DEF ThreadTypes, ThreadSteps
  <2>2. FlagTypes' /\ CountTypes'
    BY <1>6, <1>a DEF FlagTypes, CountTypes
  <2> QED BY <2>1, <2>2 DEF ViewerTypeOK, ThreadTypes, FlagTypes, CountTypes
<1>7. ASSUME NEW v \in Starts, WatchEnds(v) PROVE ViewerTypeOK'
  <2>1. CASE CheckRestart(v)
    BY <1>6, <1>c, <2>1
  <2>2. CASE ~CheckRestart(v)
    <3>1. ThreadTypes' /\ FlagTypes' /\ CountTypes'
      BY <1>7, <1>a, <1>c, <2>2 DEF WatchEnds, ThreadTypes, FlagTypes, CountTypes, ThreadSteps
    <3> QED BY <3>1 DEF ViewerTypeOK, ThreadTypes, FlagTypes, CountTypes
  <2> QED BY <2>1, <2>2
<1>8. ASSUME HaltViewer PROVE ViewerTypeOK'
  <2>1. ThreadTypes'
    BY <1>8, <1>a DEF HaltViewer, ThreadTypes, ThreadSteps
  <2>2. FlagTypes' /\ CountTypes'
    BY <1>8, <1>a DEF HaltViewer, FlagTypes, CountTypes
  <2> QED BY <2>1, <2>2 DEF ViewerTypeOK, ThreadTypes, FlagTypes, CountTypes
<1>9. ASSUME RateLimitEnds \/ BotStops \/ ViewerExit \/ UNCHANGED viewerVars PROVE ViewerTypeOK'
  <2>1. ThreadTypes'
    BY <1>9, <1>a DEF RateLimitEnds, BotStops, ViewerExit, viewerVars, ThreadTypes, ThreadSteps
  <2>2. FlagTypes' /\ CountTypes'
    BY <1>9, <1>a DEF RateLimitEnds, BotStops, ViewerExit, viewerVars, FlagTypes, CountTypes
  <2> QED BY <2>1, <2>2 DEF ViewerTypeOK, ThreadTypes, FlagTypes, CountTypes
<1> USE <1>c
<1>10. ASSUME MainChecks PROVE ViewerTypeOK'
  <2>1. CheckRestart(Main)
    BY <1>10 DEF MainChecks
  <2> QED BY <1>6, <2>1
<1>11. ASSUME NEW t \in Threads, ThreadStep(t) PROVE ViewerTypeOK'
  BY <1>2, <1>3, <1>4, <1>5, <1>7, <1>11 DEF ThreadStep
<1> QED BY <1>1, <1>8, <1>9, <1>10, <1>11 DEF ViewerNext, ViewerGoesOn

LEMMA UnderWayStep == ASSUME ViewerInv, [ViewerNext]_viewerVars PROVE UnderWayInv'
<1> USE DEF viewerFlags, rateLimit, Becomes
<1>a. thread \in [Threads -> ThreadSteps] /\ UnderWayInv
  BY DEF ViewerInv, ViewerTypeOK
<1>b. /\ \A t \in Threads : AfterRestart(t) \notin {"checked", "stopping", "pausing"}
      /\ Main \in Threads /\ \A v \in Starts : v \in Threads /\ v # Main
  BY ViewerProcessAssumption DEF AfterRestart, Threads
<1>1. ASSUME botStopping' = botStopping, underWay' = underWay,
             botStopping => \A t \in Threads : InRestart(t)' => InRestart(t)
      PROVE  UnderWayInv'
  BY <1>1, <1>a DEF UnderWayInv
<1>2. ASSUME NEW v \in Starts, ProcessExits(v) \/ PortTaken(v) PROVE UnderWayInv'
  BY <1>1, <1>2 DEF ProcessExits, PortTaken, ProcessEnds, InRestart
<1>3. ASSUME NEW t \in Threads, RestartViewer(t) PROVE UnderWayInv'
  BY <1>1, <1>3, <1>a DEF RestartViewer, BeginStop, InRestart
<1>4. ASSUME NEW t \in Threads, Terminate(t) PROVE UnderWayInv'
  <2>1. \A u \in Threads : InRestart(u)' => InRestart(u)
    BY <1>4, <1>a DEF Terminate, InRestart
  <2> QED BY <1>1, <1>4, <2>1 DEF Terminate
<1>5. ASSUME NEW t \in Threads, StartViewer(t) PROVE UnderWayInv'
  <2>1. \A u \in Threads : InRestart(u)' => InRestart(u)
    BY <1>5, <1>a, <1>b DEF StartViewer, InRestart
  <2> QED BY <1>1, <1>5, <2>1 DEF StartViewer
<1>6. ASSUME NEW v \in Starts, Spawn(v) \/ Settle(v) \/ ThreadEnds(v) PROVE UnderWayInv'
  <2>1. \A u \in Threads : InRestart(u)' => InRestart(u)
    BY <1>6, <1>a, <1>b DEF Spawn, Settle, ThreadEnds, InRestart
  <2> QED BY <1>1, <1>6, <2>1 DEF Spawn, Settle, ThreadEnds
<1>7. ASSUME NEW t \in Threads, CheckRestart(t) PROVE UnderWayInv'
  <2>1. botStopping => \A u \in Threads : InRestart(u)' => InRestart(u)
    BY <1>7, <1>a, <1>b DEF CheckRestart, InRestart
  <2> QED BY <1>1, <1>7, <2>1 DEF CheckRestart
<1>8. ASSUME NEW v \in Starts, WatchEnds(v) PROVE UnderWayInv'
  <2>1. CASE CheckRestart(v)
    BY <1>7, <1>b, <2>1
  <2>2. CASE Becomes(v, "ending") /\ UNCHANGED <<botStopping, underWay>>
    BY <1>1, <1>a, <2>2 DEF InRestart
  <2> QED BY <1>8, <2>1, <2>2 DEF WatchEnds
<1>9. ASSUME HaltViewer PROVE UnderWayInv'
  <2>1. \A u \in Threads : InRestart(u)' => InRestart(u)
    BY <1>9, <1>a DEF HaltViewer, BeginStop, InRestart
  <2> QED BY <1>1, <1>9, <2>1 DEF HaltViewer
<1>10. ASSUME BotStops PROVE UnderWayInv'
  BY <1>10, <1>b DEF BotStops, UnderWayInv, InRestart
<1>11. ASSUME RateLimitEnds \/ ViewerExit \/ UNCHANGED viewerVars PROVE UnderWayInv'
  BY <1>1, <1>11, <1>a DEF RateLimitEnds, ViewerExit, viewerVars, InRestart
<1>12. ASSUME NEW t \in Threads, ThreadStep(t) PROVE UnderWayInv'
  BY <1>3, <1>4, <1>5, <1>6, <1>8, <1>12 DEF ThreadStep
<1> QED BY <1>2, <1>7, <1>9, <1>10, <1>11, <1>12, <1>b DEF ViewerNext, ViewerGoesOn, MainChecks

LEMMA ViewerInvariant == BotSpec => []ViewerInv
<1>1. BotInit => ViewerInv
  BY ViewerInitially DEF BotInit
<1>2. ViewerInv /\ [BotNext]_botVars => ViewerInv'
  <2> SUFFICES ASSUME ViewerInv, [BotNext]_botVars PROVE ViewerInv'
    OBVIOUS
  <2>1. [ViewerNext]_viewerVars
    BY StepOfPart DEF botVars
  <2> QED BY <2>1, ViewerTypes, UnderWayStep DEF ViewerInv
<1> QED BY <1>1, <1>2, PTL DEF BotSpec

(* While the bot stops, only a watching thread that was in the middle of a  *)
(* restart starts a viewer.                                                 *)
THEOREM ViewersStartOnlyLate == BotSpec => StartsWhileStoppingAreLate
<1> DEFINE Late == \A v \in Starts : botStopping /\ thread[v] = "none" /\ thread'[v] = "spawning" =>
      \E t \in underWay \ {Main} : thread[t] = "pausing" /\ thread'[t] # "pausing"
<1>1. ViewerInv /\ [BotNext]_botVars => [Late]_viewerVars
  <2> SUFFICES ASSUME ViewerInv, ViewerNext,
                      NEW v \in Starts, botStopping, thread[v] = "none", thread'[v] = "spawning"
               PROVE  \E t \in underWay \ {Main} : thread[t] = "pausing" /\ thread'[t] # "pausing"
    BY StepOfPart DEF botVars
  <2> USE DEF Becomes
  <2>a. /\ thread \in [Threads -> ThreadSteps] /\ Main \notin underWay
        /\ \A t \in Threads : InRestart(t) => t \in underWay
    BY DEF ViewerInv, ViewerTypeOK, UnderWayInv
  <2>b. /\ Main \in Threads /\ \A u \in Starts : u \in Threads /\ u # Main
        /\ \A t \in Threads : AfterRestart(t) \in {"idle", "ending"}
    BY ViewerProcessAssumption DEF Threads, AfterRestart
  <2>1. ASSUME NEW t \in Threads, StartViewer(t)
        PROVE  \E u \in underWay \ {Main} : thread[u] = "pausing" /\ thread'[u] # "pausing"
    <3>1. thread[t] = "pausing" /\ t # v
      BY <2>1 DEF StartViewer
    <3>2. t \in underWay \ {Main}
      BY <2>a, <3>1 DEF InRestart
    <3>3. thread'[t] = AfterRestart(t)
      BY <2>1, <2>a, <2>b DEF StartViewer, Free
    <3> QED BY <2>b, <3>1, <3>2, <3>3
  <2>2. ASSUME NEW t \in Threads, RestartViewer(t) \/ Terminate(t) \/ CheckRestart(t) PROVE FALSE
    BY <2>2, <2>a, <2>b DEF RestartViewer, BeginStop, Terminate, CheckRestart
  <2>3. ASSUME NEW u \in Starts, Spawn(u) \/ Settle(u) \/ ThreadEnds(u) \/ ProcessEnds(u) PROVE FALSE
    BY <2>3, <2>a, <2>b DEF Spawn, Settle, ThreadEnds, ProcessEnds
  <2>4. ASSUME NEW u \in Starts, WatchEnds(u) PROVE FALSE
    BY <2>4, <2>2, <2>a, <2>b DEF WatchEnds
  <2>5. ASSUME HaltViewer \/ BotStops \/ ViewerExit \/ RateLimitEnds PROVE FALSE
    BY <2>5, <2>a, <2>b DEF HaltViewer, BeginStop, BotStops, ViewerExit, RateLimitEnds
  <2> QED BY <2>1, <2>2, <2>3, <2>4, <2>5, <2>b
          DEF ViewerNext, ViewerGoesOn, MainChecks, ThreadStep, ProcessExits, PortTaken
<1> QED BY <1>1, ViewerInvariant, PTL DEF BotSpec, StartsWhileStoppingAreLate

-----------------------------------------------------------------------------
(* Region warnings.                                                         *)

(* A set of numbers that is not empty has its greatest and its least.       *)
LEMMA Greatest ==
  ASSUME NEW n \in Nat, NEW S \in SUBSET (1..n), S # {}
  PROVE  \E i \in S : \A j \in S : j <= i
<1> DEFINE F == {i..n : i \in S}
<1>1. F \subseteq FiniteSubsetsOf(Nat) /\ F # {}
  <2>1. \A i \in S : i..n \subseteq Nat /\ IsFiniteSet(i..n)
    BY FS_Interval
  <2> QED BY <2>1 DEF FiniteSubsetsOf
<1>2. PICK T \in F : \A U \in F : <<U, T>> \notin StrictSubsetOrdering(Nat)
  BY <1>1, FS_StrictSubsetOrderingWellFounded, WFMin
<1>3. PICK i \in S : T = i..n
  OBVIOUS
<1>4. ASSUME NEW j \in S, j > i PROVE FALSE
  <2> DEFINE U == j..n
  <2>1. U \in F
    OBVIOUS
  <2>2. U \subseteq T /\ i \in T /\ i \notin U
    BY <1>3, <1>4
  <2>3. U \in SUBSET Nat /\ T \in SUBSET Nat
    BY <1>3
  <2> HIDE DEF U, F
  <2>4. <<U, T>> \in StrictSubsetOrdering(Nat)
    BY <2>2, <2>3, Zenon DEF StrictSubsetOrdering
  <2> QED BY <2>1, <2>4, <1>2
<1> QED BY <1>4

LEMMA IsSequence ==
  ASSUME NEW S, NEW n \in Nat, NEW f \in [1..n -> S]
  PROVE  f \in Seq(S) /\ Len(f) = n
<1>1. f \in Seq(S)
  BY SeqDef
<1>2. 1..Len(f) = 1..n /\ Len(f) \in Nat
  BY <1>1, LenProperties
<1> QED BY <1>1, <1>2

RowsStored == {"none", "sent", "dry_run", "failed"}
Faults == {"none", "seed", "sender", "cap", "record"}

LEMMA SeedIsLast ==
  ASSUME RegionWarningsTypeOK, NEW failing
  PROVE  /\ Seeded(failing) \in Nat
         /\ budgetLoaded => Seeded(failing) = mark
         /\ ~budgetLoaded /\ failing # "seed" => \A j \in Kept : j <= Seeded(failing)
<1>1. Len(attempts) \in Nat /\ Kept \in SUBSET (1..Len(attempts)) /\ mark \in Nat
  BY DEF RegionWarningsTypeOK, Kept
<1>2. CASE Kept = {} \/ budgetLoaded \/ failing = "seed"
  BY <1>1, <1>2 DEF Seeded
<1>3. CASE Kept # {} /\ ~budgetLoaded /\ failing # "seed"
  <2>1. \E i \in Kept : \A j \in Kept : j <= i
    BY <1>1, <1>3, Greatest
  <2> DEFINE last == CHOOSE i \in Kept : \A j \in Kept : j <= i
  <2>2. last \in Kept /\ \A j \in Kept : j <= last
    BY <2>1, Zenon
  <2>3. Seeded(failing) = last
    BY <1>3, Zenon DEF Seeded
  <2> HIDE DEF last
  <2> QED BY <1>1, <1>3, <2>2, <2>3
<1> QED BY <1>2, <1>3

(* A decision to warn adds an attempt.                                      *)
LEMMA Decided ==
  ASSUME RegionWarningsTypeOK, NEW s \in Senders, NEW action \in RowsStored, NEW send \in {"none", "sending"},
         NEW failing \in Faults, Decide(s, action, send, failing)
  PROVE  /\ attempts' \in Seq(Attempts) /\ Len(attempts') = Len(attempts) + 1
         /\ \A i \in 1..Len(attempts) : attempts'[i] = attempts[i]
         /\ attempts'[Len(attempts) + 1].sender = s /\ attempts'[Len(attempts) + 1].send = send
         /\ attempts'[Len(attempts) + 1].row = IF failing = "record" THEN "none" ELSE action
         /\ attempts'[Len(attempts) + 1].previous = IF send = "sending" THEN Seeded(failing) ELSE 0
<1> DEFINE a == [sender |-> s, row |-> IF failing = "record" THEN "none" ELSE action, send |-> send,
                 previous |-> IF send = "sending" THEN Seeded(failing) ELSE 0]
<1>1. a \in Attempts
  BY SeedIsLast DEF Attempts, RowsStored
<1>2. attempts \in Seq(Attempts) /\ attempts' = Append(attempts, a)
  BY DEF Decide, RegionWarningsTypeOK
<1> HIDE DEF a
<1>3. /\ attempts' \in Seq(Attempts) /\ Len(attempts') = Len(attempts) + 1
      /\ \A i \in 1..Len(attempts) : attempts'[i] = attempts[i]
      /\ attempts'[Len(attempts) + 1] = a
  BY <1>1, <1>2
<1> QED BY <1>3 DEF a

(* What a message may do to the warnings, and what it is that may fail.     *)
LEMMA Considered ==
  ASSUME RegionWarningsTypeOK, NEW s \in Senders, ConsiderWarning(s)
  PROVE  \E failing \in Faults :
           /\ warningFaults' = warningFaults + (IF failing = "none" THEN 0 ELSE 1) /\ warningFaults' <= MaxWarningFaults
           /\ unscopedSeen' \in [Senders -> 0..MinUnscoped - 1]
           /\ UNCHANGED <<lapses, overrun>>
           /\ \/ UNCHANGED <<mark, budgetLoaded, attempts, unseeded>>
              \/ /\ budgetLoaded' = TRUE /\ unseeded' = (unseeded \/ (~budgetLoaded /\ failing = "seed"))
                 /\ \/ mark' = Seeded(failing) /\ UNCHANGED attempts
                    \/ ~Withheld(s, failing) /\ Warn(s, failing)
<1>1. PICK n \in 1..MinUnscoped, failing \in Failing :
        /\ warningFaults' = warningFaults + (IF failing = "none" THEN 0 ELSE 1) /\ warningFaults' <= MaxWarningFaults
        /\ \/ /\ n < MinUnscoped /\ failing = "none"
              /\ unscopedSeen' = [unscopedSeen EXCEPT ![s] = n]
              /\ UNCHANGED <<mark, budgetLoaded, attempts, unseeded>>
           \/ /\ n = MinUnscoped
              /\ budgetLoaded' = TRUE
              /\ unseeded' = (unseeded \/ (~budgetLoaded /\ failing = "seed"))
              /\ IF Withheld(s, failing)
                   THEN /\ unscopedSeen' = [unscopedSeen EXCEPT ![s] = n - 1] /\ mark' = Seeded(failing)
                        /\ UNCHANGED attempts
                   ELSE unscopedSeen' = [unscopedSeen EXCEPT ![s] = 0] /\ Warn(s, failing)
  BY DEF ConsiderWarning
<1>2. failing \in Faults
  BY DEF Failing, Faults
<1>3. unscopedSeen' \in [Senders -> 0..MinUnscoped - 1]
  BY <1>1, RegionWarningsAssumption DEF RegionWarningsTypeOK
<1> QED BY <1>1, <1>2, <1>3 DEF ConsiderWarning

(* How the attempts of before may change.                                   *)
Reported(i) ==
  /\ attempts'[i].sender = attempts[i].sender /\ attempts'[i].previous \in {attempts[i].previous, 0}
  /\ attempts'[i].row = "none" <=> attempts[i].row = "none"
  /\ attempts'[i].row \in {attempts[i].row, "failed"}
  /\ attempts'[i].send = attempts[i].send \/ (attempts[i].send = "sending" /\ attempts'[i].send \in {"none", "done"})
  /\ attempts'[i].send = "sending" => attempts'[i].previous = attempts[i].previous
  /\ attempts'[i].row # attempts[i].row => attempts'[i].send = "none"

LEMMA AttemptsReported ==
  ASSUME RegionWarningsTypeOK, WarningsRestart \/ \E i \in 1..Len(attempts) : WarningEnds(i)
  PROVE  /\ attempts' \in Seq(Attempts) /\ Len(attempts') = Len(attempts)
         /\ \A i \in 1..Len(attempts) : Reported(i)
<1>1. Len(attempts) \in Nat /\ attempts \in [1..Len(attempts) -> Attempts]
  BY LenProperties DEF RegionWarningsTypeOK
<1>2. /\ attempts' \in [1..Len(attempts) -> Attempts]
      /\ \A i \in 1..Len(attempts) : Reported(i)
  <2>1. CASE WarningsRestart
    BY <1>1, <2>1 DEF WarningsRestart, Sending, Over, Attempts, Reported
  <2>2. ASSUME NEW k \in 1..Len(attempts), WarningEnds(k)
        PROVE  /\ attempts' \in [1..Len(attempts) -> Attempts]
               /\ \A i \in 1..Len(attempts) : Reported(i)
    <3>1. CASE WarningDone(k)
      BY <1>1, <3>1 DEF WarningDone, Sending, Over, Attempts, Reported
    <3>2. CASE WarningFails(k)
      <4>1. PICK action \in {attempts[k].row, IF attempts[k].row = "none" THEN "none" ELSE "failed"} :
              attempts' = [attempts EXCEPT ![k] = Over(k, action, "none")]
        BY <3>2 DEF WarningFails
      <4> QED BY <1>1, <3>2, <4>1 DEF WarningFails, Sending, Over, Attempts, Reported
    <3> QED BY <2>2, <3>1, <3>2 DEF WarningEnds
  <2> QED BY <2>1, <2>2
<1> QED BY <1>1, <1>2, IsSequence

LEMMA WarningTypes ==
  ASSUME RegionWarningsTypeOK, [RegionWarningsNext]_regionWarningsVars
  PROVE  RegionWarningsTypeOK'
<1> USE RegionWarningsAssumption
<1>1. ASSUME NEW s \in Senders, ConsiderWarning(s) PROVE RegionWarningsTypeOK'
  <2>1. PICK failing \in Faults :
           /\ warningFaults' = warningFaults + (IF failing = "none" THEN 0 ELSE 1) /\ warningFaults' <= MaxWarningFaults
           /\ unscopedSeen' \in [Senders -> 0..MinUnscoped - 1]
           /\ UNCHANGED <<lapses, overrun>>
           /\ \/ UNCHANGED <<mark, budgetLoaded, attempts, unseeded>>
              \/ /\ budgetLoaded' = TRUE /\ unseeded' = (unseeded \/ (~budgetLoaded /\ failing = "seed"))
                 /\ \/ mark' = Seeded(failing) /\ UNCHANGED attempts
                    \/ Warn(s, failing)
    BY <1>1, Considered
  <2>2. warningFaults' \in 0..MaxWarningFaults
    BY <2>1 DEF RegionWarningsTypeOK
  <2>3. budgetLoaded' \in BOOLEAN /\ unseeded' \in BOOLEAN
    BY <2>1, Zenon DEF RegionWarningsTypeOK
  <2>4. attempts' \in Seq(Attempts) /\ Len(attempts') \in {Len(attempts), Len(attempts) + 1} /\ mark' \in Nat
    <3>1. CASE UNCHANGED attempts /\ (mark' = mark \/ mark' = Seeded(failing))
      BY <3>1, SeedIsLast DEF RegionWarningsTypeOK
    <3>2. CASE Warn(s, failing)
      <4>1. /\ attempts' \in Seq(Attempts) /\ Len(attempts') = Len(attempts) + 1
            /\ mark' = Seeded(failing) \/ mark' = Len(attempts) + 1
        BY <3>2, Decided DEF Warn, RowsStored
      <4> QED BY <4>1, SeedIsLast, LenProperties DEF RegionWarningsTypeOK
    <3> QED BY <2>1, <3>1, <3>2
  <2>5. UNCHANGED <<meshLapsed, senderLapsed, dayLapsed, overrun>>
    BY <2>1 DEF lapses
  <2>6. Len(attempts) \in Nat
    BY LenProperties DEF RegionWarningsTypeOK
  <2> QED BY <2>1, <2>2, <2>3, <2>4, <2>5, <2>6 DEF RegionWarningsTypeOK
<1>2. ASSUME NEW s \in Senders, NEW v, Observe(s, v) PROVE RegionWarningsTypeOK'
  <2>1. CASE v = "scoped" /\ unscopedSeen' = [unscopedSeen EXCEPT ![s] = 0]
             /\ UNCHANGED <<mark, budgetLoaded, attempts, lapses, warningHistory, warningFaults>>
    BY <2>1 DEF RegionWarningsTypeOK, lapses, warningHistory
  <2>2. CASE warningFaults < MaxWarningFaults /\ warningFaults' = warningFaults + 1
             /\ UNCHANGED <<decisions, lapses, warningHistory>>
    BY <2>2 DEF RegionWarningsTypeOK, decisions, lapses, warningHistory
  <2>3. CASE UNCHANGED regionWarningsVars
    BY <2>3 DEF regionWarningsVars, RegionWarningsTypeOK, decisions, lapses, warningHistory
  <2> QED BY <1>1, <1>2, <2>1, <2>2, <2>3 DEF Observe
<1>3. CASE WarningsRestart \/ \E i \in 1..Len(attempts) : WarningEnds(i)
  <2>1. attempts' \in Seq(Attempts) /\ Len(attempts') = Len(attempts)
    BY <1>3, AttemptsReported
  <2>3. CASE WarningsRestart
    <3>1. /\ unscopedSeen' = [s \in Senders |-> 0] /\ mark' = 0 /\ budgetLoaded' = FALSE /\ unseeded' = FALSE
          /\ UNCHANGED <<lapses, overrun, warningFaults>>
      BY <2>3 DEF WarningsRestart
    <3>2. unscopedSeen' \in [Senders -> 0..MinUnscoped - 1] /\ mark' \in Nat
      BY <3>1
    <3>3. budgetLoaded' \in BOOLEAN /\ unseeded' \in BOOLEAN
      BY <3>1
    <3> QED BY <2>1, <3>1, <3>2, <3>3 DEF RegionWarningsTypeOK, lapses
  <2>4. ASSUME NEW i \in 1..Len(attempts), WarningDone(i) PROVE RegionWarningsTypeOK'
    BY <2>1, <2>4 DEF WarningDone, RegionWarningsTypeOK, lapses, warningHistory
  <2>5. ASSUME NEW i \in 1..Len(attempts), WarningFails(i) PROVE RegionWarningsTypeOK'
    <3>1. /\ mark' = attempts[i].previous /\ overrun' = overrun \cup i + 1..Len(attempts)
          /\ UNCHANGED <<unscopedSeen, budgetLoaded, lapses, unseeded>>
      BY <2>5 DEF WarningFails
    <3>2. warningFaults' \in 0..MaxWarningFaults
      BY <2>5 DEF WarningFails, RegionWarningsTypeOK
    <3>3. Len(attempts) \in Nat /\ attempts[i] \in Attempts
      BY LenProperties, ElementOfSeq DEF RegionWarningsTypeOK
    <3>4. mark' \in Nat
      BY <3>1, <3>3 DEF Attempts
    <3>5. overrun' \subseteq 1..Len(attempts)
      <4>1. i + 1..Len(attempts) \subseteq 1..Len(attempts) /\ overrun \subseteq 1..Len(attempts)
        BY <3>3 DEF RegionWarningsTypeOK
      <4> QED BY <3>1, <4>1
    <3> QED BY <2>1, <3>1, <3>2, <3>4, <3>5 DEF RegionWarningsTypeOK, lapses
  <2> QED BY <1>3, <2>3, <2>4, <2>5 DEF WarningEnds
<1>4. CASE CooldownEnds
  BY <1>4 DEF CooldownEnds, RegionWarningsTypeOK, decisions, lapses, warningHistory
<1>5. CASE UNCHANGED regionWarningsVars
  BY <1>5 DEF regionWarningsVars, RegionWarningsTypeOK, decisions, lapses, warningHistory
<1> QED BY <1>2, <1>3, <1>4, <1>5 DEF RegionWarningsNext

-----------------------------------------------------------------------------
Unrecorded == {i \in 1..Len(attempts) : attempts[i].row = "none"}
OfSender(s) == {i \in Since(senderLapsed) : attempts[i].sender = s}

(* The marks of a limit that is kept: what the database has is within it,   *)
(* what it lacks are faults.                                                *)
LimitsInv == Cardinality(Unrecorded) <= warningFaults /\ WithinLimits

LEMMA Counts ==
  ASSUME RegionWarningsTypeOK
  PROVE  /\ IsFiniteSet(Unrecorded) /\ Cardinality(Unrecorded) \in Nat
         /\ IsFiniteSet(Since(dayLapsed)) /\ Cardinality(Since(dayLapsed)) \in Nat
         /\ \A s \in Senders : IsFiniteSet(OfSender(s)) /\ Cardinality(OfSender(s)) \in Nat
         /\ IsFiniteSet(Stored(dayLapsed)) /\ Cardinality(Stored(dayLapsed)) \in Nat
<1>1. Len(attempts) \in Nat /\ dayLapsed \in Nat /\ senderLapsed \in Nat
  BY LenProperties DEF RegionWarningsTypeOK
<1>2. \A S \in SUBSET (1..Len(attempts)) : IsFiniteSet(S) /\ Cardinality(S) \in Nat
  <2> TAKE S \in SUBSET (1..Len(attempts))
  <2>1. IsFiniteSet(1..Len(attempts))
    BY <1>1, FS_Interval
  <2>2. IsFiniteSet(S)
    BY <2>1, FS_Subset
  <2> QED BY <2>2, FS_CardinalityType
<1>3. /\ Unrecorded \in SUBSET (1..Len(attempts)) /\ Since(dayLapsed) \in SUBSET (1..Len(attempts))
      /\ \A s \in Senders : OfSender(s) \in SUBSET (1..Len(attempts))
      /\ Stored(dayLapsed) \in SUBSET (1..Len(attempts))
  BY <1>1 DEF Unrecorded, Since, OfSender, Stored
<1> QED BY <1>2, <1>3

(* Without a fault a warning is let through only within the limits.         *)
LEMMA LimitsLetThrough ==
  ASSUME RegionWarningsTypeOK, LimitsInv, NEW s \in Senders, ~Withheld(s, "none")
  PROVE  /\ Cardinality(Since(dayLapsed)) < Cap + warningFaults
         /\ Cardinality(OfSender(s)) <= warningFaults
<1> USE RegionWarningsAssumption
<1>1. /\ Cardinality(Stored(dayLapsed)) < Cap
      /\ OfSender(s) \subseteq Unrecorded
  <2>1. Len(attempts) \in Nat /\ senderLapsed \in Nat
    BY LenProperties DEF RegionWarningsTypeOK
  <2>2. OfSender(s) \subseteq Unrecorded
    BY <2>1 DEF Withheld, SenderCooldownActive, Stored, Since, OfSender, Unrecorded
  <2>3. ~(Cardinality(Stored(dayLapsed)) >= Cap)
    BY DEF Withheld, DailyCapReached
  <2> QED BY <2>2, <2>3, Counts
<1>2. Cardinality(OfSender(s)) <= Cardinality(Unrecorded)
  BY <1>1, Counts, FS_Subset
<1>3. Since(dayLapsed) \subseteq Stored(dayLapsed) \cup Unrecorded
  <2>1. Len(attempts) \in Nat /\ dayLapsed \in Nat
    BY LenProperties DEF RegionWarningsTypeOK
  <2> QED BY <2>1 DEF Stored, Since, Unrecorded
<1>4. /\ IsFiniteSet(Stored(dayLapsed) \cup Unrecorded)
      /\ Cardinality(Stored(dayLapsed) \cup Unrecorded) <= Cardinality(Stored(dayLapsed)) + Cardinality(Unrecorded)
  <2>1. Cardinality(Stored(dayLapsed) \cap Unrecorded) \in Nat
    BY Counts, FS_Intersection, FS_CardinalityType
  <2>2. /\ IsFiniteSet(Stored(dayLapsed) \cup Unrecorded)
        /\ Cardinality(Stored(dayLapsed) \cup Unrecorded)
              = Cardinality(Stored(dayLapsed)) + Cardinality(Unrecorded) - Cardinality(Stored(dayLapsed) \cap Unrecorded)
    BY Counts, FS_Union
  <2> QED BY <2>1, <2>2, Counts
<1>5. Cardinality(Since(dayLapsed)) <= Cardinality(Stored(dayLapsed) \cup Unrecorded)
  BY <1>3, <1>4, FS_Subset
<1>6. Cardinality(Stored(dayLapsed) \cup Unrecorded) \in Nat
  BY <1>4, FS_CardinalityType
<1> QED BY <1>1, <1>2, <1>4, <1>5, <1>6, Counts DEF LimitsInv, RegionWarningsTypeOK

LEMMA LimitsShrink ==
  ASSUME RegionWarningsTypeOK, RegionWarningsTypeOK', LimitsInv,
         Unrecorded' \subseteq Unrecorded, Since(dayLapsed)' \subseteq Since(dayLapsed),
         \A s \in Senders : OfSender(s)' \subseteq OfSender(s), warningFaults' >= warningFaults
  PROVE  LimitsInv'
<1>1. Cardinality(Unrecorded') <= Cardinality(Unrecorded) /\ Cardinality(Unrecorded') \in Nat
  BY Counts, FS_Subset, FS_CardinalityType
<1>2. Cardinality(Since(dayLapsed)') <= Cardinality(Since(dayLapsed)) /\ Cardinality(Since(dayLapsed)') \in Nat
  BY Counts, FS_Subset, FS_CardinalityType
<1>3. \A s \in Senders : Cardinality(OfSender(s)') <= Cardinality(OfSender(s)) /\ Cardinality(OfSender(s)') \in Nat
  BY Counts, FS_Subset, FS_CardinalityType
<1>4. warningFaults \in Nat /\ warningFaults' \in Nat /\ Cap \in Nat
  BY RegionWarningsAssumption DEF RegionWarningsTypeOK
<1>5. /\ Cardinality(Unrecorded) <= warningFaults /\ Cardinality(Since(dayLapsed)) <= Cap + warningFaults
      /\ \A s \in Senders : Cardinality(OfSender(s)) <= 1 + warningFaults
  BY DEF LimitsInv, WithinLimits, OfSender
<1>6. /\ Cardinality(Unrecorded') <= warningFaults' /\ Cardinality(Since(dayLapsed)') <= Cap + warningFaults'
      /\ \A s \in Senders : Cardinality(OfSender(s)') <= 1 + warningFaults'
  BY <1>1, <1>2, <1>3, <1>4, <1>5, Counts
<1> QED BY <1>6 DEF LimitsInv, WithinLimits, OfSender

LEMMA LimitsGrow ==
  ASSUME RegionWarningsTypeOK, RegionWarningsTypeOK', LimitsInv,
         NEW s \in Senders, NEW action \in RowsStored \ {"none"}, NEW send \in {"none", "sending"}, NEW failing \in Faults,
         Decide(s, action, send, failing), ~Withheld(s, failing), UNCHANGED lapses,
         warningFaults' = warningFaults + (IF failing = "none" THEN 0 ELSE 1)
  PROVE  LimitsInv'
<1> DEFINE n == Len(attempts) + 1
<1>1. /\ Len(attempts') = n /\ attempts'[n].sender = s
      /\ \A i \in 1..Len(attempts) : attempts'[i] = attempts[i]
      /\ attempts'[n].row = "none" <=> failing = "record"
  BY Decided DEF RowsStored
<1>2. /\ Len(attempts) \in Nat /\ dayLapsed \in 0..Len(attempts) /\ senderLapsed \in 0..Len(attempts)
      /\ UNCHANGED <<dayLapsed, senderLapsed>> /\ warningFaults \in Nat
  BY LenProperties DEF RegionWarningsTypeOK, lapses
<1>3. Since(dayLapsed)' = Since(dayLapsed) \cup {n} /\ n \notin Since(dayLapsed)
  BY <1>1, <1>2 DEF Since
<1>4. /\ OfSender(s)' = OfSender(s) \cup {n} /\ n \notin OfSender(s)
      /\ \A t \in Senders : t # s => OfSender(t)' = OfSender(t)
  BY <1>1, <1>2 DEF OfSender, Since
<1>5. Unrecorded' = IF failing = "record" THEN Unrecorded \cup {n} ELSE Unrecorded
  BY <1>1, <1>2 DEF Unrecorded
<1> HIDE DEF n
<1>6. Cardinality(Since(dayLapsed)') = Cardinality(Since(dayLapsed)) + 1
  BY <1>3, Counts, FS_AddElement
<1>7. Cardinality(OfSender(s)') = Cardinality(OfSender(s)) + 1
  BY <1>4, Counts, FS_AddElement
<1>8. Cardinality(Unrecorded') <= Cardinality(Unrecorded) + (IF failing = "record" THEN 1 ELSE 0)
  <2>1. n \notin Unrecorded
    BY <1>2 DEF Unrecorded, n
  <2>2. Cardinality(Unrecorded \cup {n}) = Cardinality(Unrecorded) + 1
    BY <2>1, Counts, FS_AddElement
  <2> QED BY <1>5, <2>2, Counts
<1>9. /\ Cardinality(Unrecorded) <= warningFaults /\ Cardinality(Since(dayLapsed)) <= Cap + warningFaults
      /\ \A t \in Senders : Cardinality(OfSender(t)) <= 1 + warningFaults
  BY DEF LimitsInv, WithinLimits, OfSender
<1>10. failing = "none" => /\ Cardinality(Since(dayLapsed)) < Cap + warningFaults
                           /\ Cardinality(OfSender(s)) <= warningFaults
  BY LimitsLetThrough
<1>11. Cardinality(Unrecorded') \in Nat /\ Cap \in Nat
  <2>1. IsFiniteSet(Unrecorded')
    BY <1>5, Counts, FS_AddElement
  <2> QED BY <2>1, FS_CardinalityType, RegionWarningsAssumption
<1>12. Cardinality(Unrecorded') <= warningFaults' /\ Cardinality(Since(dayLapsed)') <= Cap + warningFaults'
  BY <1>2, <1>6, <1>8, <1>9, <1>10, <1>11, Counts
<1>13. \A t \in Senders : Cardinality(OfSender(t)') <= 1 + warningFaults'
  <2> TAKE t \in Senders
  <2>1. CASE t = s
    BY <2>1, <1>2, <1>7, <1>9, <1>10, Counts
  <2>2. CASE t # s
    BY <2>2, <1>2, <1>4, <1>9, Counts
  <2> QED BY <2>1, <2>2
<1> QED BY <1>12, <1>13 DEF LimitsInv, WithinLimits, OfSender

LEMMA LimitsStep ==
  ASSUME RegionWarningsTypeOK, LimitsInv, [RegionWarningsNext]_regionWarningsVars
  PROVE  LimitsInv'
<1>t. /\ RegionWarningsTypeOK' /\ Len(attempts) \in Nat
      /\ dayLapsed \in Nat /\ senderLapsed \in Nat /\ warningFaults \in Nat
  BY WarningTypes, LenProperties DEF RegionWarningsTypeOK
<1>1. CASE UNCHANGED <<attempts, lapses>> /\ warningFaults' >= warningFaults
  BY <1>1, <1>t, LimitsShrink DEF lapses, Unrecorded, Since, OfSender
<1>2. ASSUME NEW s \in Senders, ConsiderWarning(s) PROVE LimitsInv'
  <2>1. PICK failing \in Faults :
           /\ warningFaults' = warningFaults + (IF failing = "none" THEN 0 ELSE 1)
           /\ UNCHANGED lapses
           /\ UNCHANGED attempts \/ (~Withheld(s, failing) /\ Warn(s, failing))
    BY <1>2, Considered
  <2>2. CASE Warn(s, failing) /\ ~Withheld(s, failing)
    BY <2>1, <2>2, <1>t, LimitsGrow DEF Warn, RowsStored
  <2> QED BY <1>1, <1>t, <2>1, <2>2
<1>3. ASSUME NEW s \in Senders, NEW v, Observe(s, v) PROVE LimitsInv'
  <2>1. ConsiderWarning(s) \/ (UNCHANGED <<attempts, lapses>> /\ warningFaults' \in {warningFaults, warningFaults + 1})
    BY <1>3 DEF Observe, regionWarningsVars, decisions
  <2> QED BY <1>1, <1>2, <1>t, <2>1
<1>4. CASE WarningsRestart \/ \E i \in 1..Len(attempts) : WarningEnds(i)
  <2>1. /\ Len(attempts') = Len(attempts)
        /\ \A i \in 1..Len(attempts) : Reported(i)
    BY <1>4, AttemptsReported
  <2>2. UNCHANGED lapses /\ warningFaults' \in {warningFaults, warningFaults + 1}
    <3>1. CASE WarningsRestart
      BY <3>1 DEF WarningsRestart
    <3>2. ASSUME NEW i \in 1..Len(attempts), WarningDone(i)
          PROVE  UNCHANGED lapses /\ warningFaults' = warningFaults
      BY <3>2 DEF WarningDone
    <3>3. ASSUME NEW i \in 1..Len(attempts), WarningFails(i)
          PROVE  UNCHANGED lapses /\ warningFaults' \in {warningFaults, warningFaults + 1}
      BY <3>3, <1>t DEF WarningFails
    <3> QED BY <1>4, <3>1, <3>2, <3>3 DEF WarningEnds
  <2>3. /\ Unrecorded' \subseteq Unrecorded /\ Since(dayLapsed)' \subseteq Since(dayLapsed)
        /\ \A s \in Senders : OfSender(s)' \subseteq OfSender(s)
    BY <2>1, <2>2, <1>t DEF Reported, Unrecorded, Since, OfSender, lapses
  <2> QED BY <2>2, <2>3, <1>t, LimitsShrink
<1>5. CASE CooldownEnds
  <2>1. UNCHANGED <<attempts, warningFaults>>
    BY <1>5 DEF CooldownEnds, decisions
  <2>2. dayLapsed' \in {dayLapsed, Len(attempts)} /\ senderLapsed' \in {senderLapsed, senderLapsed + 1}
    BY <1>5 DEF CooldownEnds
  <2>3. dayLapsed \in 0..Len(attempts)
    BY DEF RegionWarningsTypeOK
  <2>4. /\ Unrecorded' \subseteq Unrecorded /\ Since(dayLapsed)' \subseteq Since(dayLapsed)
        /\ \A s \in Senders : OfSender(s)' \subseteq OfSender(s)
    BY <2>1, <2>2, <2>3, <1>t DEF Unrecorded, Since, OfSender
  <2> QED BY <2>1, <2>4, <1>t, LimitsShrink
<1>6. CASE UNCHANGED regionWarningsVars
  BY <1>1, <1>6, <1>t DEF regionWarningsVars, decisions
<1> QED BY <1>3, <1>4, <1>5, <1>6 DEF RegionWarningsNext

-----------------------------------------------------------------------------
(* Transmitted within the mesh cooldown, recorded, and not overrun.         *)
Held(i) ==
  i \in Since(meshLapsed) /\ Transmitted(i) /\ i \notin overrun /\ attempts[i].row # "none"

(* The mark, and every mark that a failure may restore, holds the cooldown  *)
(* of what was transmitted before.                                          *)
MarkInv ==
  /\ \A i \in 1..Len(attempts) : Transmitted(i) => attempts[i].row \in {"none", "sent"}
  /\ \A k \in 1..Len(attempts) : Sending(k) => budgetLoaded
  /\ ~unseeded =>
       \A i \in 1..Len(attempts) : Held(i) =>
         /\ budgetLoaded => mark >= i
         /\ \A k \in i + 1..Len(attempts) : Sending(k) => attempts[k].previous >= i

LEMMA SeedHolds ==
  ASSUME RegionWarningsTypeOK, MarkInv, NEW failing, ~unseeded, ~(~budgetLoaded /\ failing = "seed")
  PROVE  \A i \in 1..Len(attempts) : Held(i) => Seeded(failing) >= i
<1> SUFFICES ASSUME NEW i \in 1..Len(attempts), Held(i) PROVE Seeded(failing) >= i
  OBVIOUS
<1>1. CASE budgetLoaded
  BY <1>1, SeedIsLast DEF MarkInv
<1>2. CASE ~budgetLoaded
  <2>1. i \in Kept
    BY DEF Kept, Held, MarkInv
  <2> QED BY <1>2, <2>1, SeedIsLast
<1> QED BY <1>1, <1>2

LEMMA MarkStep ==
  ASSUME RegionWarningsTypeOK, MarkInv, [RegionWarningsNext]_regionWarningsVars
  PROVE  MarkInv'
<1>t. /\ RegionWarningsTypeOK' /\ Len(attempts) \in Nat /\ mark \in Nat /\ meshLapsed \in 0..Len(attempts)
  BY WarningTypes, LenProperties DEF RegionWarningsTypeOK
<1>1. CASE UNCHANGED <<mark, budgetLoaded, attempts, unseeded, overrun, meshLapsed>>
  BY <1>1 DEF MarkInv, Held, Since, Transmitted, Sending
<1>2. ASSUME NEW s \in Senders, ConsiderWarning(s) PROVE MarkInv'
  <2>1. PICK failing \in Faults :
           /\ UNCHANGED <<lapses, overrun>>
           /\ \/ UNCHANGED <<mark, budgetLoaded, attempts, unseeded>>
              \/ /\ budgetLoaded' = TRUE /\ unseeded' = (unseeded \/ (~budgetLoaded /\ failing = "seed"))
                 /\ \/ mark' = Seeded(failing) /\ UNCHANGED attempts
                    \/ Warn(s, failing)
    BY <1>2, Considered
  <2>2. CASE UNCHANGED <<mark, budgetLoaded, attempts, unseeded>>
    BY <1>1, <2>1, <2>2 DEF lapses
  <2>3. ASSUME budgetLoaded' = TRUE, unseeded' = (unseeded \/ (~budgetLoaded /\ failing = "seed")),
               mark' = Seeded(failing), UNCHANGED attempts
        PROVE  MarkInv'
    <3>1. \A i \in 1..Len(attempts) : Held(i)' <=> Held(i)
      BY <2>1, <2>3 DEF Held, Since, Transmitted, lapses
    <3>2. ~unseeded' => ~unseeded /\ \A i \in 1..Len(attempts) : Held(i) => mark' >= i
      BY <2>3, SeedHolds
    <3> QED BY <2>3, <3>1, <3>2 DEF MarkInv, Transmitted, Sending
  <2>4. ASSUME budgetLoaded' = TRUE, unseeded' = (unseeded \/ (~budgetLoaded /\ failing = "seed")), Warn(s, failing)
        PROVE  MarkInv'
    <3> DEFINE n == Len(attempts) + 1
    <3>1. PICK action \in RowsStored, send \in {"none", "sending"} :
            /\ Decide(s, action, send, failing) /\ (send = "sending" => action = "sent")
            /\ mark' = n \/ (send = "none" /\ mark' = Seeded(failing))
      BY <2>4 DEF Warn, RowsStored
    <3>2. /\ Len(attempts') = n /\ \A i \in 1..Len(attempts) : attempts'[i] = attempts[i]
          /\ attempts'[n].send = send /\ attempts'[n].row \in {"none", action}
          /\ send = "sending" => attempts'[n].previous = Seeded(failing)
      BY <3>1, Decided
    <3>3. \A i \in 1..Len(attempts) : (Held(i)' <=> Held(i)) /\ (Transmitted(i)' <=> Transmitted(i)) /\ (Sending(i)' <=> Sending(i))
      BY <2>1, <3>2, <1>t DEF Held, Since, Transmitted, Sending, lapses
    <3>4. ~unseeded' => ~unseeded /\ \A i \in 1..Len(attempts) : Held(i) => Seeded(failing) >= i
      BY <2>4, SeedHolds
    <3>5. \A i \in 1..n : i = n /\ Transmitted(i)' => mark' = n
      BY <3>1, <3>2 DEF Transmitted
    <3>6. Seeded(failing) \in Nat
      BY SeedIsLast
    <3> HIDE DEF n
    <3>7. \A i \in 1..n : i = n \/ i \in 1..Len(attempts)
      BY <1>t DEF n
    <3>8. \A i \in 1..n : Transmitted(i)' => attempts'[i].row \in {"none", "sent"}
      BY <3>1, <3>2, <3>3, <3>7 DEF Transmitted, MarkInv
    <3>9. ASSUME ~unseeded', NEW i \in 1..n, Held(i)'
          PROVE  /\ mark' >= i
                 /\ \A k \in i + 1..n : Sending(k)' => attempts'[k].previous >= i
      <4>1. CASE i = n
        BY <3>5, <3>9, <4>1, <1>t DEF n, Held
      <4>2. CASE i \in 1..Len(attempts)
        <5>1. Held(i) /\ Seeded(failing) >= i
          BY <3>3, <3>4, <3>9, <4>2
        <5>2. mark' >= i
          BY <3>1, <5>1, <1>t DEF n
        <5>3. ASSUME NEW k \in i + 1..n, Sending(k)' PROVE attempts'[k].previous >= i
          <6>1. CASE k = n
            BY <3>2, <5>1, <5>3, <6>1 DEF Sending
          <6>2. CASE k \in i + 1..Len(attempts)
            BY <3>2, <3>3, <3>4, <3>9, <4>2, <5>1, <5>3, <6>2, <1>t DEF MarkInv
          <6> QED BY <6>1, <6>2, <1>t DEF n
        <5> QED BY <5>2, <5>3
      <4> QED BY <3>7, <4>1, <4>2
    <3> QED BY <2>4, <3>2, <3>8, <3>9 DEF MarkInv
  <2> QED BY <2>1, <2>2, <2>3, <2>4
<1>3. ASSUME NEW s \in Senders, NEW v, Observe(s, v) PROVE MarkInv'
  BY <1>1, <1>2, <1>3 DEF Observe, regionWarningsVars, decisions, lapses, warningHistory
<1>4. CASE WarningsRestart
  <2>1. Len(attempts') = Len(attempts) /\ \A i \in 1..Len(attempts) : Reported(i) /\ ~Sending(i)'
    <3>1. \A i \in 1..Len(attempts) : ~Sending(i)'
      BY <1>4 DEF WarningsRestart, Sending, Over
    <3> QED BY <1>4, <3>1, AttemptsReported
  <2>2. budgetLoaded' = FALSE
    BY <1>4 DEF WarningsRestart
  <2> QED BY <2>1, <2>2 DEF MarkInv, Reported, Transmitted, Sending
<1>5. ASSUME NEW i \in 1..Len(attempts), WarningDone(i) PROVE MarkInv'
  <2>1. Len(attempts') = Len(attempts) /\ \A j \in 1..Len(attempts) : Reported(j)
    BY <1>5, AttemptsReported DEF WarningEnds
  <2>2. UNCHANGED <<mark, budgetLoaded, unseeded, overrun, meshLapsed>>
    BY <1>5 DEF WarningDone, lapses, warningHistory
  <2>3. \A j \in 1..Len(attempts) : (Transmitted(j)' => Transmitted(j)) /\ (Sending(j)' => Sending(j)) /\ attempts'[j].row \in {attempts[j].row, "failed"}
    BY <2>1 DEF Reported, Transmitted, Sending
  <2>4. \A j \in 1..Len(attempts) : Held(j)' => Held(j)
    BY <2>1, <2>2, <2>3 DEF Held, Since, Reported
  <2> QED BY <2>1, <2>2, <2>3, <2>4, <1>t DEF MarkInv, Reported, Transmitted, Sending
<1>6. ASSUME NEW k \in 1..Len(attempts), WarningFails(k) PROVE MarkInv'
  <2>1. Len(attempts') = Len(attempts) /\ \A j \in 1..Len(attempts) : Reported(j)
    BY <1>6, AttemptsReported DEF WarningEnds
  <2>2. /\ UNCHANGED <<budgetLoaded, unseeded, meshLapsed>> /\ mark' = attempts[k].previous
        /\ overrun' = overrun \cup (k + 1..Len(attempts)) /\ Sending(k)
    BY <1>6 DEF WarningFails, lapses
  <2>3. attempts'[k].send = "none"
    BY <1>6, <1>t, LenProperties DEF WarningFails, Over, RegionWarningsTypeOK
  <2>4. \A j \in 1..Len(attempts) : Held(j)' => Held(j) /\ j < k
    BY <2>1, <2>2, <2>3, <1>t DEF Held, Since, Reported, Transmitted
  <2>5. \A j \in 1..Len(attempts) : Held(j)' /\ ~unseeded' => mark' >= j
    BY <2>2, <2>4, <1>t DEF MarkInv
  <2>6. \A j \in 1..Len(attempts) : Sending(j)' => Sending(j) /\ attempts'[j].previous = attempts[j].previous
    BY <2>1 DEF Reported, Sending
  <2>7. \A j \in 1..Len(attempts) : Transmitted(j)' => attempts'[j].row \in {"none", "sent"}
    BY <2>1 DEF Reported, Transmitted, MarkInv
  <2>8. \A j \in 1..Len(attempts) : Held(j)' /\ ~unseeded' =>
          \A l \in j + 1..Len(attempts) : Sending(l)' => attempts'[l].previous >= j
    BY <2>2, <2>4, <2>6, <1>t DEF MarkInv
  <2> QED BY <2>1, <2>2, <2>5, <2>6, <2>7, <2>8 DEF MarkInv
<1>7. CASE CooldownEnds
  <2>1. UNCHANGED <<mark, budgetLoaded, attempts, unseeded, overrun>> /\ meshLapsed' \in {meshLapsed, meshLapsed + 1}
    BY <1>7 DEF CooldownEnds, decisions, warningHistory
  <2>2. \A i \in 1..Len(attempts) : Held(i)' => Held(i)
    <3>1. meshLapsed' + 1..Len(attempts) \subseteq meshLapsed + 1..Len(attempts)
      BY <2>1, <1>t
    <3> QED BY <2>1, <3>1 DEF Held, Since, Transmitted
  <2> QED BY <2>1, <2>2 DEF MarkInv, Transmitted, Sending
<1>8. CASE UNCHANGED regionWarningsVars
  BY <1>1, <1>8 DEF regionWarningsVars, decisions, lapses, warningHistory
<1> QED BY <1>3, <1>4, <1>5, <1>6, <1>7, <1>8 DEF RegionWarningsNext, WarningEnds

WarningsInv == RegionWarningsTypeOK /\ LimitsInv /\ MarkInv

LEMMA WarningsInitially == ASSUME RegionWarningsInit PROVE WarningsInv
<1> USE RegionWarningsAssumption
<1>1. attempts = <<>> /\ attempts \in Seq(Attempts) /\ Len(attempts) = 0
  BY EmptySeq DEF RegionWarningsInit
<1>2. RegionWarningsTypeOK
  <2>1. unscopedSeen \in [Senders -> 0..MinUnscoped - 1]
    BY DEF RegionWarningsInit
  <2>2. /\ mark \in Nat /\ meshLapsed \in 0..Len(attempts) /\ senderLapsed \in 0..Len(attempts)
        /\ dayLapsed \in 0..Len(attempts) /\ warningFaults \in 0..MaxWarningFaults
        /\ overrun \subseteq 1..Len(attempts)
    BY <1>1, SMT DEF RegionWarningsInit
  <2>3. budgetLoaded \in BOOLEAN /\ unseeded \in BOOLEAN
    BY Zenon DEF RegionWarningsInit
  <2> QED BY <1>1, <2>1, <2>2, <2>3, Zenon DEF RegionWarningsTypeOK
<1>3. MarkInv
  BY <1>1 DEF MarkInv
<1>4. /\ Unrecorded = {} /\ Since(dayLapsed) = {}
      /\ \A s \in Senders : {i \in Since(senderLapsed) : attempts[i].sender = s} = {}
  BY <1>1 DEF RegionWarningsInit, Unrecorded, Since
<1>5. LimitsInv
  <2>1. Cardinality({}) = 0
    BY FS_EmptySet
  <2>2. Cardinality(Unrecorded) = 0 /\ Cardinality(Since(dayLapsed)) = 0
    BY <1>4, <2>1
  <2>3. \A s \in Senders : Cardinality({i \in Since(senderLapsed) : attempts[i].sender = s}) = 0
    BY <1>4, <2>1
  <2>4. warningFaults = 0 /\ Cap \in Nat
    BY DEF RegionWarningsInit
  <2>5. Cardinality(Unrecorded) =< warningFaults /\ Cardinality(Since(dayLapsed)) =< Cap + warningFaults
    BY <2>2, <2>4
  <2>6. \A s \in Senders : Cardinality({i \in Since(senderLapsed) : attempts[i].sender = s}) =< 1 + warningFaults
    <3>1. 0 =< 1 + warningFaults
      BY <2>4
    <3> QED BY <2>3, <3>1, Zenon
  <2> QED BY <2>5, <2>6, Zenon DEF LimitsInv, WithinLimits
<1> QED BY <1>2, <1>3, <1>5 DEF WarningsInv

LEMMA GapStep ==
  ASSUME RegionWarningsTypeOK, MarkInv, RegionWarningsNext, StartsSend,
         NEW i \in Since(meshLapsed), Transmitted(i), i \notin overrun, attempts[i].row # "none"
  PROVE  unseeded'
<1>1. Len(attempts) \in Nat /\ meshLapsed \in Nat
  BY LenProperties DEF RegionWarningsTypeOK
<1>2. Len(attempts') # Len(attempts)
  BY <1>1 DEF StartsSend
<1>3. ~CooldownEnds /\ ~WarningsRestart /\ ~(\E k \in 1..Len(attempts) : WarningEnds(k))
  BY <1>2, AttemptsReported DEF CooldownEnds, decisions
<1>4. PICK s \in Senders : ConsiderWarning(s)
  <2>1. PICK s \in Senders, v \in {"scoped", "global", "unknown"} : Observe(s, v)
    BY <1>3 DEF RegionWarningsNext
  <2> QED BY <1>2, <2>1 DEF Observe, decisions, regionWarningsVars
<1>5. PICK failing \in Faults :
        /\ unseeded' = (unseeded \/ (~budgetLoaded /\ failing = "seed"))
        /\ ~Withheld(s, failing)
  BY <1>2, <1>4, Considered
<1>6. Seeded(failing) \in Nat /\ ~(Seeded(failing) > meshLapsed)
  BY <1>5, SeedIsLast DEF Withheld, MeshCooldownActive
<1>7. i \in 1..Len(attempts) /\ i > meshLapsed /\ Held(i)
  BY <1>1 DEF Since, Held
<1>8. SUFFICES ASSUME ~unseeded' PROVE FALSE
  OBVIOUS
<1>9. Seeded(failing) >= i
  BY <1>5, <1>7, <1>8, SeedHolds
<1> QED BY <1>1, <1>6, <1>7, <1>9

LEMMA WarningsStep == ASSUME WarningsInv, [RegionWarningsNext]_regionWarningsVars PROVE WarningsInv'
BY WarningTypes, LimitsStep, MarkStep DEF WarningsInv

LEMMA WarningsInvariant == BotSpec => []WarningsInv
<1>1. BotInit => WarningsInv
  BY WarningsInitially DEF BotInit
<1>2. WarningsInv /\ [BotNext]_botVars => WarningsInv'
  <2> SUFFICES ASSUME WarningsInv, [BotNext]_botVars PROVE WarningsInv'
    OBVIOUS
  <2>1. [RegionWarningsNext]_regionWarningsVars
    BY StepOfPart DEF botVars
  <2> QED BY <2>1, WarningsStep
<1> QED BY <1>1, <1>2, PTL DEF BotSpec

(* The cap of the day and the cooldown of a sender hold, but for one more   *)
(* warning for each database failure.                                       *)
THEOREM WarningsKeepLimits == BotSpec => []WithinLimits
<1>1. WarningsInv => WithinLimits
  BY DEF WarningsInv, LimitsInv
<1> QED BY <1>1, WarningsInvariant, PTL

(* A warning within the mesh cooldown of another has an excuse.             *)
THEOREM WarningGapsAreExcused == BotSpec => GapsAreExcused
<1> DEFINE Excused == StartsSend =>
      \A i \in Since(meshLapsed) : Transmitted(i) => i \in overrun \/ attempts[i].row = "none" \/ unseeded'
<1>1. WarningsInv /\ [BotNext]_botVars => [Excused]_regionWarningsVars
  <2> SUFFICES ASSUME WarningsInv, RegionWarningsNext, StartsSend,
                      NEW i \in Since(meshLapsed), Transmitted(i), i \notin overrun, attempts[i].row # "none"
               PROVE  unseeded'
    BY StepOfPart DEF botVars
  <2> QED BY GapStep DEF WarningsInv
<1> QED BY <1>1, WarningsInvariant, PTL DEF BotSpec, GapsAreExcused


-----------------------------------------------------------------------------
(* Channel messages.                                                        *)

LEMMA Smallest ==
  ASSUME NEW n \in Nat, NEW S \in SUBSET (1..n), S # {}
  PROVE  \E i \in S : \A j \in S : i <= j
<1> DEFINE T == {k \in 1..n : n + 1 - k \in S}
<1>1. T \in SUBSET (1..n) /\ T # {}
  <2>1. PICK i \in S : TRUE
    OBVIOUS
  <2>2. n + 1 - i \in T
    BY <2>1
  <2> QED BY <2>2
<1>2. PICK k \in T : \A l \in T : l <= k
  BY <1>1, Greatest
<1>3. \A j \in S : n + 1 - k <= j
  <2> TAKE j \in S
  <2>1. n + 1 - j \in T
    OBVIOUS
  <2> QED BY <1>2, <2>1
<1> QED BY <1>2, <1>3

LEMMA EarliestIsOne ==
  ASSUME NEW n \in Nat, NEW S \in SUBSET (1..n), S # {}
  PROVE  Earliest(S) \in S
<1>1. \E i \in S : \A j \in S : i <= j
  BY Smallest
<1> QED BY <1>1, Zenon DEF Earliest

LEMMA LatestIsOne ==
  ASSUME NEW n \in Nat, NEW S \in SUBSET (1..n), S # {}
  PROVE  Latest(S) \in S
<1>1. \E i \in S : \A j \in S : j <= i
  BY Greatest
<1> QED BY <1>1, Zenon DEF Latest

LEMMA OnlyOne ==
  ASSUME NEW S, IsFiniteSet(S), Cardinality(S) = 1, NEW x \in S
  PROVE  S = {x}
BY FS_Singleton

(* The types, the older clock behind the younger one, and the first rows as *)
(* the radio reports them.                                                  *)
LogInv ==
  /\ ChannelMessagesTypeOK /\ stale30 <= stale10
  /\ \A i \in LogRows : log[i].first => log[i].packet \in Texts /\ log[i].signature = FirstSignature[log[i].packet]

LEMMA RowsOfLog ==
  ASSUME LogInv
  PROVE  /\ Len(log) \in Nat /\ \A i \in LogRows : log[i] \in Receptions
         /\ ScopeEligible \subseteq LogRows
         /\ \A p : /\ Authenticated(p) \in SUBSET (1..Len(log)) /\ IsFiniteSet(PacketsOf(Authenticated(p)))
                   /\ \A among \in SUBSET LogRows :
                        /\ Matching(p, among) \in SUBSET (1..Len(log)) /\ IsFiniteSet(PacketsOf(Matching(p, among)))
                        /\ Reachable(among) \in SUBSET (1..Len(log))
<1>1. Len(log) \in Nat /\ \A i \in LogRows : log[i] \in Receptions
  BY LenProperties, ElementOfSeq DEF LogInv, ChannelMessagesTypeOK, LogRows
<1>2. \A S \in SUBSET (1..Len(log)) : IsFiniteSet(PacketsOf(S))
  <2> TAKE S \in SUBSET (1..Len(log))
  <2>1. IsFiniteSet(1..Len(log))
    BY <1>1, FS_Interval
  <2>2. IsFiniteSet(S)
    BY <2>1, FS_Subset
  <2> DEFINE f == [i \in S |-> log[i].packet]
  <2>3. f \in Surjection(S, PacketsOf(S))
    BY DEF Surjection, PacketsOf
  <2> QED BY <2>2, <2>3, FS_Surjection
<1>3. ScopeEligible \subseteq LogRows
  BY DEF ScopeEligible
<1>4. ASSUME NEW p, NEW among \in SUBSET LogRows
      PROVE  /\ Authenticated(p) \in SUBSET (1..Len(log)) /\ Matching(p, among) \in SUBSET (1..Len(log))
             /\ Reachable(among) \in SUBSET (1..Len(log))
  BY DEF Authenticated, Matching, Reachable, LogRows
<1> QED BY <1>1, <1>2, <1>3, <1>4

LEMMA OwnRow ==
  ASSUME LogInv, NEW p \in Texts, NEW i \in LogRows, log[i].packet = p, log[i].first,
         i > evicted, i > stale10
  PROVE  /\ i \in Matching(p, LogRows) /\ i \in Reachable(LogRows)
         /\ Region[p] # Unscoped => i \in Matching(p, ScopeEligible) /\ i \in Reachable(ScopeEligible)
<1>1. IsText(i) /\ log[i].signature = FirstSignature[p]
  BY DEF LogInv, IsText
<1>2. {evicted, stale10, stale30} \subseteq 0..Len(log) /\ Len(log) \in Nat /\ stale30 <= stale10
  BY RowsOfLog DEF LogInv, ChannelMessagesTypeOK
<1>3. i \in Nat /\ evicted \in Nat /\ stale10 \in Nat /\ stale30 \in Nat
  BY <1>2 DEF LogRows
<1>4. i > stale30
  BY <1>2, <1>3
<1>5. Region[p] # Unscoped => i \in ScopeEligible
  BY <1>1 DEF ScopeEligible
<1> QED BY <1>1, <1>4, <1>5 DEF Matching, Reachable

(* A row that is found by more than a guess is of the message, as long as   *)
(* its own first row takes part in the search.                              *)
LEMMA GeneralIsOwn ==
  ASSUME LogInv, NEW p \in Texts, Witnessed(p), Correlated(General(p))
  PROVE  General(p).row \in LogRows /\ log[General(p).row].packet = p
<1> DEFINE A == Authenticated(p)
           M == Matching(p, LogRows)
<1>1. PICK i \in LogRows : /\ log[i].packet = p /\ log[i].first
                           /\ i \in A \/ (PacketsOf(A) \subseteq {p} /\ i > evicted /\ i > stale10)
  BY Zenon DEF Witnessed
<1>2. /\ Len(log) \in Nat /\ A \in SUBSET (1..Len(log)) /\ M \in SUBSET (1..Len(log))
      /\ IsFiniteSet(PacketsOf(A)) /\ IsFiniteSet(PacketsOf(M))
  BY RowsOfLog DEF LogRows
<1>3. CASE A # {}
  <2>1. General(p) = Found(Earliest(A), "authenticated") /\ Cardinality(PacketsOf(A)) = 1
    BY <1>3 DEF General, Correlate, Correlated, NotFound
  <2>2. Earliest(A) \in A
    BY <1>2, <1>3, EarliestIsOne
  <2>3. log[Earliest(A)].packet \in PacketsOf(A)
    BY <2>2 DEF PacketsOf
  <2>4. PacketsOf(A) \subseteq {p}
    <3>1. CASE i \in A
      <4>1. p \in PacketsOf(A)
        BY <1>1, <3>1 DEF PacketsOf
      <4> QED BY <1>2, <2>1, <4>1, OnlyOne
    <3> QED BY <1>1, <3>1
  <2> QED BY <1>2, <2>1, <2>2, <2>3, <2>4 DEF Found, LogRows
<1>4. CASE A = {}
  <2>1. i > evicted /\ i > stale10
    BY <1>1, <1>4
  <2>2. i \in M
    BY <1>1, <2>1, OwnRow
  <2>3. General(p) = Found(Latest(M), "payload") /\ Cardinality(PacketsOf(M)) = 1
    BY <1>4 DEF General, Correlate, Correlated, NotFound, Found, PayloadMatch
  <2>4. Latest(M) \in M
    BY <1>2, <2>2, LatestIsOne
  <2>5. p \in PacketsOf(M) /\ log[Latest(M)].packet \in PacketsOf(M)
    BY <1>1, <2>2, <2>4 DEF PacketsOf
  <2>6. PacketsOf(M) = {p}
    BY <1>2, <2>3, <2>5, OnlyOne
  <2> QED BY <1>2, <2>3, <2>4, <2>5, <2>6 DEF Found, LogRows
<1> QED BY <1>3, <1>4

LEMMA ScopedIsOwn ==
  ASSUME LogInv, NEW p \in Texts, Witnessed(p), Correlated(Scoped(p))
  PROVE  log[Scoped(p).row].packet = p \/ (Contested(p) /\ Region[p] = Unscoped)
<1> DEFINE A == Authenticated(p)
           M == Matching(p, ScopeEligible)
<1>1. PICK i \in LogRows : /\ log[i].packet = p /\ log[i].first
                           /\ i \in A \/ (PacketsOf(A) \subseteq {p} /\ i > evicted /\ i > stale10)
  BY Zenon DEF Witnessed
<1>2. /\ Len(log) \in Nat /\ A \in SUBSET (1..Len(log)) /\ M \in SUBSET (1..Len(log))
      /\ IsFiniteSet(PacketsOf(A)) /\ IsFiniteSet(PacketsOf(M))
  BY RowsOfLog
<1>3. CASE A # {}
  <2>1. Scoped(p) = Found(Earliest(A), "authenticated") /\ Cardinality(PacketsOf(A)) = 1
    BY <1>3 DEF Scoped, Correlate, Correlated, NotFound
  <2>2. Earliest(A) \in A
    BY <1>2, <1>3, EarliestIsOne
  <2>3. log[Earliest(A)].packet \in PacketsOf(A)
    BY <2>2 DEF PacketsOf
  <2>4. PacketsOf(A) \subseteq {p}
    <3>1. CASE i \in A
      <4>1. p \in PacketsOf(A)
        BY <1>1, <3>1 DEF PacketsOf
      <4> QED BY <1>2, <2>1, <4>1, OnlyOne
    <3> QED BY <1>1, <3>1
  <2> QED BY <2>1, <2>3, <2>4 DEF Found
<1>4. CASE A = {}
  <2>1. i > evicted /\ i > stale10
    BY <1>1, <1>4
  <2>2. Scoped(p) = Found(Latest(M), "payload") /\ Cardinality(PacketsOf(M)) = 1
    BY <1>4 DEF Scoped, Correlate, Correlated, NotFound, Found, PayloadMatch
  <2>3. M # {}
    <3>1. M = {} => PacketsOf(M) = {}
      BY DEF PacketsOf
    <3> QED BY <2>2, <3>1, FS_EmptySet
  <2>4. CASE Region[p] = Unscoped
    BY <1>4, <2>3, <2>4 DEF Contested
  <2>5. CASE Region[p] # Unscoped
    <3>1. i \in M
      BY <1>1, <2>1, <2>5, OwnRow
    <3>2. Latest(M) \in M
      BY <1>2, <2>3, LatestIsOne
    <3>3. p \in PacketsOf(M) /\ log[Latest(M)].packet \in PacketsOf(M)
      BY <1>1, <3>1, <3>2 DEF PacketsOf
    <3>4. PacketsOf(M) = {p}
      BY <1>2, <2>2, <3>3, OnlyOne
    <3> QED BY <2>2, <3>3, <3>4 DEF Found
  <2> QED BY <2>4, <2>5
<1> QED BY <1>3, <1>4

(* Who may be answered, and in which region.                               *)
Allowed(p) ==
  \/ p \in unwitnessed \/ (p \in contested /\ Region[p] = Unscoped)
  \/ ScopeKeys = {} /\ ~AllowGlobal
  \/ Region[p] = Unscoped /\ AllowGlobal /\ replyScope[p] = Unscoped
  \/ Region[p] \in ScopeKeys /\ replyScope[p] = Region[p]

LEMMA VerdictIsOwn ==
  ASSUME LogInv, NEW p \in Texts, Witnessed(p), Verdict(p) = "global"
  PROVE  Region[p] = Unscoped
<1>1. Correlated(General(p)) /\ RegionOf(General(p)) = Unscoped
  BY DEF Verdict
<1> QED BY <1>1, GeneralIsOwn DEF RegionOf

LEMMA AnswerIsAllowed ==
  ASSUME LogInv, NEW p \in Texts, Witnessed(p), ScopeAllowed(p)
  PROVE  \/ Contested(p) /\ Region[p] = Unscoped
         \/ ScopeKeys = {} /\ ~AllowGlobal
         \/ Region[p] = Unscoped /\ AllowGlobal /\ Scope(p) = Unscoped
         \/ Region[p] \in ScopeKeys /\ Scope(p) = Region[p]
<1>1. CASE Scope(p) # Unscoped
  <2>1. Correlated(Scoped(p)) /\ RegionOf(Scoped(p)) \in ScopeKeys /\ Scope(p) = RegionOf(Scoped(p))
    BY <1>1 DEF Scope
  <2> QED BY <2>1, ScopedIsOwn DEF RegionOf
<1>2. CASE ~Correlated(Scoped(p)) /\ AllowGlobal /\ ConfirmedGlobal(p)
  <2>1. Scope(p) = Unscoped
    BY <1>2 DEF Scope
  <2>2. CASE Correlated(General(p))
    BY <1>2, <2>1, <2>2, GeneralIsOwn DEF ConfirmedGlobal, RegionOf
  <2>3. CASE ~Correlated(General(p))
    <3>1. General(p) # NotFound /\ Scoped(p) = NotFound
      BY <1>2, <2>3 DEF ConfirmedGlobal
    <3>2. Authenticated(p) = {}
      BY <2>3, <3>1 DEF General, Correlate, Correlated, Found
    <3>3. PICK i \in LogRows : log[i].packet = p /\ log[i].first /\ i > evicted /\ i > stale10
      BY <3>2, Zenon DEF Witnessed
    <3>4. Reachable(ScopeEligible) = {}
      BY <3>1, <3>2 DEF Scoped, Correlate, Found, NotFound
    <3>5. Region[p] = Unscoped
      BY <3>3, <3>4, OwnRow
    <3> QED BY <1>2, <2>1, <3>5
  <2> QED BY <2>2, <2>3
<1> QED BY <1>1, <1>2 DEF ScopeAllowed

(* A message is allowed once, when it is judged, and answered only then.    *)
MessagesInv ==
  /\ LogInv /\ OwnPacketSpeaks
  /\ \A p \in Texts :
       /\ handling[p] \in {"none", "queued", "waiting"} => p \notin admitted
       /\ handling[p] = "answered" => p \in admitted
       /\ p \in admitted => Allowed(p)

LEMMA MessagesInitially == ASSUME ChannelMessagesInit PROVE MessagesInv
<1> USE ChannelMessagesAssumption
<1>1. log = <<>> /\ log \in Seq(Receptions) /\ Len(log) = 0
  BY EmptySeq DEF ChannelMessagesInit
<1>2. /\ {evicted, stale10, stale30, stale300, unkeyed} \subseteq 0..Len(log) /\ stale30 <= stale10
  BY <1>1 DEF ChannelMessagesInit
<1>3. handling \in [Texts -> {"none", "queued", "waiting", "warning", "answered", "ignored", "lost"}]
  BY DEF ChannelMessagesInit
<1>4. /\ awaits \in [Texts -> Nat] /\ route \in [Texts -> 0..Len(log)]
  BY <1>1 DEF ChannelMessagesInit, NoRow
<1>5. replyScope \in [Texts -> ScopeKeys \cup {Unscoped}] /\ verdict \in [Texts -> {"none", "scoped", "global", "unknown"}]
  BY DEF ChannelMessagesInit
<1>6. keysKnown \in BOOLEAN /\ rowDue \subseteq Texts /\ cached \subseteq Texts
      /\ admitted \subseteq Texts /\ unwitnessed \subseteq Texts /\ contested \subseteq Texts
  BY Zenon DEF ChannelMessagesInit
<1>7. LogInv
  BY <1>1, <1>2, <1>3, <1>4, <1>5, <1>6 DEF LogInv, ChannelMessagesTypeOK, LogRows
<1>8. OwnPacketSpeaks
  BY DEF OwnPacketSpeaks, ChannelMessagesInit, NoRow
<1> QED BY <1>7, <1>8 DEF MessagesInv, ChannelMessagesInit

(* Steps that judge no message.                                             *)
LEMMA NotJudged ==
  ASSUME MessagesInv, LogInv', UNCHANGED judgement, \A i \in LogRows : log'[i] = log[i],
         \A p \in Texts : /\ handling'[p] \in {"none", "queued", "waiting"} => p \notin admitted
                          /\ handling'[p] = "answered" => p \in admitted
  PROVE  MessagesInv'
<1>1. UNCHANGED <<route, replyScope, verdict, admitted, unwitnessed, contested>>
  BY DEF judgement
<1>2. \A p \in Texts : route[p] # NoRow => route[p] \in LogRows
  BY RowsOfLog DEF MessagesInv, LogInv, ChannelMessagesTypeOK, LogRows, NoRow
<1>3. OwnPacketSpeaks'
  BY <1>1, <1>2 DEF MessagesInv, OwnPacketSpeaks
<1>4. \A p \in Texts : p \in admitted' => Allowed(p)'
  BY <1>1 DEF MessagesInv, Allowed
<1> QED BY <1>1, <1>3, <1>4 DEF MessagesInv

LEMMA RowIsInserted ==
  ASSUME LogInv, NEW r \in Receptions, InsertRow(r),
         r.first => r.packet \in Texts /\ r.signature = FirstSignature[r.packet],
         UNCHANGED <<handling, awaits, judgement>>, rowDue' \subseteq Texts, cached' \subseteq Texts
  PROVE  LogInv' /\ \A i \in LogRows : log'[i] = log[i]
<1>1. log \in Seq(Receptions) /\ Len(log) \in Nat
  BY LenProperties DEF LogInv, ChannelMessagesTypeOK
<1>2. /\ log' \in Seq(Receptions) /\ Len(log') = Len(log) + 1
      /\ \A i \in 1..Len(log) : log'[i] = log[i]
  BY <1>1, AppendProperties DEF InsertRow
<1>3. log'[Len(log) + 1] = r
  BY <1>1, AppendProperties DEF InsertRow
<1>4. /\ {evicted', stale10', stale30', stale300', unkeyed'} \subseteq 0..Len(log') /\ stale30' <= stale10'
  <2>1. {evicted, stale10, stale30, stale300, unkeyed} \subseteq 0..Len(log) /\ stale30 <= stale10
    BY DEF LogInv, ChannelMessagesTypeOK
  <2>2. evicted' \in evicted..stale10 /\ UNCHANGED <<stale10, stale30, stale300, unkeyed>>
    BY DEF InsertRow
  <2>3. evicted' \in 0..Len(log)
    BY <1>1, <2>1, <2>2
  <2> QED BY <1>1, <1>2, <2>1, <2>2, <2>3
<1>5. \A i \in 1..Len(log') : log'[i].first =>
        log'[i].packet \in Texts /\ log'[i].signature = FirstSignature[log'[i].packet]
  BY <1>1, <1>2, <1>3 DEF LogInv, LogRows
<1>6. route' \in [Texts -> 0..Len(log')]
  <2>1. route \in [Texts -> 0..Len(log)] /\ route' = route
    BY DEF LogInv, ChannelMessagesTypeOK, judgement
  <2> QED BY <1>1, <1>2, <2>1
<1>7. /\ keysKnown' = keysKnown /\ UNCHANGED <<handling, awaits, replyScope, verdict, admitted, unwitnessed, contested>>
  BY DEF InsertRow, judgement
<1>8. ChannelMessagesTypeOK'
  BY <1>2, <1>4, <1>6, <1>7 DEF LogInv, ChannelMessagesTypeOK, Receptions
<1> QED BY <1>2, <1>4, <1>5, <1>8 DEF LogInv, LogRows

(* Steps that leave the log alone.                                          *)
LEMMA LogStays ==
  ASSUME LogInv, log' = log, ChannelMessagesTypeOK', stale30' <= stale10'
  PROVE  LogInv' /\ \A i \in LogRows : log'[i] = log[i]
BY DEF LogInv, LogRows

(* The handler has gone on, and its log is as before.                       *)
LEMMA JudgeStep ==
  ASSUME MessagesInv, NEW p \in Texts, NEW w \in Nat, Judge(p, w)
  PROVE  MessagesInv'
<1>1. LogInv /\ ChannelMessagesTypeOK /\ p \notin admitted
  BY DEF MessagesInv, LogInv, Judge, Ripe
<1>2. /\ log' = log /\ UNCHANGED <<evicted, stale10, stale30, stale300, keysKnown, unkeyed, rowDue, cached>>
      /\ route' = [route EXCEPT ![p] = IF Correlated(General(p)) THEN General(p).row ELSE NoRow]
      /\ replyScope' = [replyScope EXCEPT ![p] = Scope(p)]
      /\ verdict' = [verdict EXCEPT ![p] = IF p \in cached THEN "none" ELSE Verdict(p)]
      /\ admitted' = IF ScopeAllowed(p) THEN admitted \cup {p} ELSE admitted
      /\ unwitnessed' = IF Witnessed(p) THEN unwitnessed ELSE unwitnessed \cup {p}
      /\ contested' = IF Contested(p) THEN contested \cup {p} ELSE contested
      /\ awaits' = [awaits EXCEPT ![p] = w]
      /\ handling' = [handling EXCEPT ![p] = IF w = 0 THEN Outcome(p, admitted') ELSE "warning"]
  BY DEF Judge, rfLog, radioQueue
<1>3. /\ handling'[p] \in {"warning", "answered", "ignored"} /\ (handling'[p] = "answered" => p \in admitted')
      /\ \A q \in Texts : q # p => handling'[q] = handling[q]
  BY <1>1, <1>2 DEF ChannelMessagesTypeOK, Outcome
<1>4. Len(log) \in Nat /\ route'[p] \in 0..Len(log)
  <2>1. Correlated(General(p)) => General(p).row \in 1..Len(log)
    <3> DEFINE A == Authenticated(p)
               M == Matching(p, LogRows)
    <3>1. /\ Len(log) \in Nat /\ A \in SUBSET (1..Len(log)) /\ M \in SUBSET (1..Len(log))
          /\ IsFiniteSet(PacketsOf(M))
      BY <1>1, RowsOfLog DEF LogRows
    <3>2. CASE A # {}
      BY <3>1, <3>2, EarliestIsOne DEF General, Correlate, Correlated, NotFound, Found
    <3>3. CASE A = {} /\ Correlated(General(p))
      <4>1. General(p) = Found(Latest(M), "payload") /\ Cardinality(PacketsOf(M)) = 1
        BY <3>3 DEF General, Correlate, Correlated, NotFound, Found, PayloadMatch
      <4>2. M # {}
        <5>1. M = {} => PacketsOf(M) = {}
          BY DEF PacketsOf
        <5> QED BY <4>1, <5>1, FS_EmptySet
      <4>3. Latest(M) \in M
        BY <3>1, <4>2, LatestIsOne
      <4> QED BY <3>1, <4>1, <4>3 DEF Found
    <3> QED BY <3>2, <3>3
  <2> QED BY <1>1, <1>2, <2>1, RowsOfLog DEF ChannelMessagesTypeOK, NoRow
<1>5. Scope(p) \in ScopeKeys \cup {Unscoped} /\ Verdict(p) \in {"scoped", "global", "unknown"}
  BY DEF Scope, Verdict
<1>6. /\ route' \in [Texts -> 0..Len(log)] /\ awaits' \in [Texts -> Nat]
      /\ replyScope' \in [Texts -> ScopeKeys \cup {Unscoped}]
  BY <1>1, <1>2, <1>4, <1>5 DEF ChannelMessagesTypeOK
<1>7. verdict' \in [Texts -> {"none", "scoped", "global", "unknown"}]
  BY <1>1, <1>2, <1>5 DEF ChannelMessagesTypeOK
<1>8. handling' \in [Texts -> {"none", "queued", "waiting", "warning", "answered", "ignored", "lost"}]
  BY <1>1, <1>2 DEF ChannelMessagesTypeOK, Outcome
<1>9. admitted' \subseteq Texts /\ unwitnessed' \subseteq Texts /\ contested' \subseteq Texts
  BY <1>1, <1>2 DEF ChannelMessagesTypeOK
<1>10. LogInv'
  <2>1. ChannelMessagesTypeOK'
    BY <1>1, <1>2, <1>6, <1>7, <1>8, <1>9, Zenon DEF ChannelMessagesTypeOK
  <2> QED BY <1>1, <1>2, <2>1, LogStays DEF LogInv
<1>11. OwnPacketSpeaks'
  <2>1. ASSUME NEW q \in Texts, q # p PROVE route'[q] = route[q] /\ verdict'[q] = verdict[q] /\ (q \in unwitnessed' <=> q \in unwitnessed)
    BY <1>1, <1>2, <2>1 DEF ChannelMessagesTypeOK
  <2>2. ASSUME p \notin unwitnessed'
        PROVE  (route'[p] # NoRow => log[route'[p]].packet = p) /\ (verdict'[p] = "global" => Region[p] = Unscoped)
    <3>1. Witnessed(p)
      BY <1>2, <2>2
    <3>2. /\ route'[p] = IF Correlated(General(p)) THEN General(p).row ELSE NoRow
          /\ verdict'[p] = IF p \in cached THEN "none" ELSE Verdict(p)
      BY <1>1, <1>2 DEF ChannelMessagesTypeOK
    <3> QED BY <1>1, <3>1, <3>2, GeneralIsOwn, VerdictIsOwn
  <2> QED BY <1>2, <2>1, <2>2 DEF MessagesInv, OwnPacketSpeaks
<1>12. ASSUME NEW q \in Texts, q \in admitted' PROVE Allowed(q)'
  <2>1. CASE q = p
    <3>1. ScopeAllowed(p) /\ replyScope'[p] = Scope(p)
      BY <1>1, <1>2, <1>12, <2>1 DEF ChannelMessagesTypeOK
    <3>2. CASE Witnessed(p)
      BY <1>1, <1>2, <2>1, <3>1, <3>2, AnswerIsAllowed DEF Allowed
    <3>3. CASE ~Witnessed(p)
      BY <1>2, <2>1, <3>3 DEF Allowed
    <3> QED BY <3>2, <3>3
  <2>2. CASE q # p
    <3>1. /\ q \in admitted /\ replyScope'[q] = replyScope[q]
          /\ (q \in unwitnessed => q \in unwitnessed') /\ (q \in contested => q \in contested')
      BY <1>1, <1>2, <1>12, <2>2 DEF ChannelMessagesTypeOK
    <3> QED BY <3>1 DEF MessagesInv, Allowed
  <2> QED BY <2>1, <2>2
<1>13. \A q \in Texts : /\ handling'[q] \in {"none", "queued", "waiting"} => q \notin admitted'
                        /\ handling'[q] = "answered" => q \in admitted'
  BY <1>2, <1>3 DEF MessagesInv
<1> QED BY <1>10, <1>11, <1>12, <1>13 DEF MessagesInv

LEMMA MessagesStep ==
  ASSUME MessagesInv, [ChannelMessagesNext]_channelMessagesVars
  PROVE  MessagesInv'
<1> USE ChannelMessagesAssumption
<1>1. /\ LogInv /\ ChannelMessagesTypeOK /\ Len(log) \in Nat
      /\ \A p \in Texts : /\ handling[p] \in {"none", "queued", "waiting"} => p \notin admitted
                          /\ handling[p] = "answered" => p \in admitted
  BY RowsOfLog DEF MessagesInv, LogInv
<1>2. ASSUME NEW p \in Texts, FirstHeard(p) \/ Deferred(p) \/ Resume(p) PROVE MessagesInv'
  <2>1. UNCHANGED <<rfLog, judgement>>
    BY <1>2 DEF FirstHeard, Deferred, Resume, radioQueue
  <2>2. rowDue' \subseteq Texts /\ cached' \subseteq Texts
    BY <1>1, <1>2 DEF FirstHeard, Deferred, Resume, radioQueue, ChannelMessagesTypeOK
  <2>a. /\ handling \in [Texts -> {"none", "queued", "waiting", "warning", "answered", "ignored", "lost"}]
        /\ awaits \in [Texts -> Nat]
    BY <1>1 DEF ChannelMessagesTypeOK
  <2>b. PICK h \in {"queued", "waiting", "answered", "ignored"} :
          /\ handling' = [handling EXCEPT ![p] = h]
          /\ h \in {"queued", "waiting"} => p \notin admitted
          /\ h = "answered" => p \in admitted
    BY <1>1, <1>2 DEF FirstHeard, Deferred, Resume, Outcome
  <2>3. /\ handling' \in [Texts -> {"none", "queued", "waiting", "warning", "answered", "ignored", "lost"}]
        /\ \A q \in Texts : /\ handling'[q] \in {"none", "queued", "waiting"} => q \notin admitted
                            /\ handling'[q] = "answered" => q \in admitted
    BY <1>1, <2>a, <2>b
  <2>4. awaits' \in [Texts -> Nat]
    <3>1. awaits' = awaits \/ awaits' = [awaits EXCEPT ![p] = 0]
      BY <1>2 DEF FirstHeard, Deferred, Resume
    <3> QED BY <2>a, <3>1
  <2>5. ChannelMessagesTypeOK'
    BY <1>1, <2>1, <2>2, <2>3, <2>4, Zenon DEF ChannelMessagesTypeOK, rfLog, judgement
  <2>6. LogInv' /\ \A i \in LogRows : log'[i] = log[i]
    BY <1>1, <2>1, <2>5, LogStays DEF LogInv, rfLog
  <2> QED BY <2>1, <2>3, <2>6, NotJudged
<1>3. ASSUME NEW p \in Texts, FirstRow(p) PROVE MessagesInv'
  <2> DEFINE r == [packet |-> p, signature |-> FirstSignature[p], first |-> TRUE]
  <2>1. r \in Receptions /\ r.first /\ r.packet \in Texts /\ r.signature = FirstSignature[r.packet]
    BY DEF Receptions
  <2>2. InsertRow(r) /\ UNCHANGED <<handling, awaits, judgement>> /\ rowDue' \subseteq Texts /\ cached' \subseteq Texts
    BY <1>1, <1>3 DEF FirstRow, ChannelMessagesTypeOK
  <2>3. LogInv' /\ \A i \in LogRows : log'[i] = log[i]
    BY <1>1, <2>1, <2>2, RowIsInserted
  <2> QED BY <1>1, <2>2, <2>3, NotJudged
<1>4. ASSUME NEW p \in Texts \cup Noise, NEW s \in Signatures, OtherRow(p, s) PROVE MessagesInv'
  <2> DEFINE r == [packet |-> p, signature |-> s, first |-> FALSE]
  <2>1. r \in Receptions /\ ~r.first
    BY DEF Receptions
  <2>2. InsertRow(r) /\ UNCHANGED <<handling, awaits, judgement>> /\ rowDue' \subseteq Texts /\ cached' \subseteq Texts
    BY <1>1, <1>4 DEF OtherRow, radioQueue, ChannelMessagesTypeOK
  <2>3. LogInv' /\ \A i \in LogRows : log'[i] = log[i]
    BY <1>1, <2>1, <2>2, RowIsInserted
  <2> QED BY <1>1, <2>2, <2>3, NotJudged
<1>5. ASSUME KeysLoad \/ RowAges \/ UNCHANGED channelMessagesVars PROVE MessagesInv'
  <2>1. /\ log' = log /\ UNCHANGED <<rowDue, cached, handling, awaits, judgement>>
    BY <1>5 DEF KeysLoad, RowAges, channelMessagesVars, rfLog, radioQueue
  <2>2. /\ {evicted', stale10', stale30', stale300', unkeyed'} \subseteq 0..Len(log) /\ stale30' <= stale10'
    <3>1. {evicted, stale10, stale30, stale300, unkeyed} \subseteq 0..Len(log) /\ stale30 <= stale10
      BY <1>1 DEF LogInv, ChannelMessagesTypeOK
    <3> QED BY <1>1, <1>5, <3>1 DEF KeysLoad, RowAges, channelMessagesVars, rfLog
  <2>3. keysKnown' \in BOOLEAN
    BY <1>1, <1>5, Zenon DEF KeysLoad, RowAges, channelMessagesVars, rfLog, ChannelMessagesTypeOK
  <2>4. ChannelMessagesTypeOK'
    BY <1>1, <2>1, <2>2, <2>3, Zenon DEF ChannelMessagesTypeOK, judgement
  <2>5. LogInv' /\ \A i \in LogRows : log'[i] = log[i]
    BY <1>1, <2>1, <2>2, <2>4, LogStays
  <2> QED BY <1>1, <2>1, <2>5, NotJudged
<1>6. ASSUME ChannelRestart PROVE MessagesInv'
  <2>1. log' = log /\ UNCHANGED judgement /\ rowDue' = {} /\ keysKnown' = FALSE /\ awaits' = [p \in Texts |-> 0]
    BY <1>6 DEF ChannelRestart
  <2>2. {evicted', stale10', stale30', stale300', unkeyed'} \subseteq 0..Len(log) /\ stale30' <= stale10'
    BY <1>1, <1>6 DEF ChannelRestart
  <2>3. cached' \subseteq Texts
    BY <1>1, <1>6 DEF ChannelRestart, ChannelMessagesTypeOK
  <2>4. /\ handling' \in [Texts -> {"none", "queued", "waiting", "warning", "answered", "ignored", "lost"}]
        /\ \A q \in Texts : /\ handling'[q] \in {"none", "queued", "waiting"} => q \notin admitted
                            /\ handling'[q] = "answered" => q \in admitted
    BY <1>1, <1>6 DEF ChannelRestart, ChannelMessagesTypeOK
  <2>5. awaits' \in [Texts -> Nat] /\ keysKnown' \in BOOLEAN
    BY <2>1
  <2>6. ChannelMessagesTypeOK'
    BY <1>1, <2>1, <2>2, <2>3, <2>4, <2>5, Zenon DEF ChannelMessagesTypeOK, judgement
  <2>7. LogInv' /\ \A i \in LogRows : log'[i] = log[i]
    BY <1>1, <2>1, <2>2, <2>6, LogStays
  <2> QED BY <2>1, <2>4, <2>7, NotJudged
<1> QED BY <1>2, <1>3, <1>4, <1>5, <1>6, JudgeStep DEF ChannelMessagesNext, RowArrives

LEMMA StepOfMessages ==
  ASSUME RegionWarningsTypeOK', BotNext
  PROVE  [ChannelMessagesNext]_channelMessagesVars
<1>1. CASE MessageStep
  <2>1. ASSUME NEW p \in Texts, MessageHandled(p) PROVE [ChannelMessagesNext]_channelMessagesVars
    <3>1. Len(attempts') \in Nat
      BY LenProperties DEF RegionWarningsTypeOK
    <3>2. CASE MessageJudged(p)
      <4>1. PICK w \in Nat : Judge(p, w)
        BY <3>1, <3>2 DEF MessageJudged
      <4> QED BY <4>1 DEF ChannelMessagesNext
    <3>3. CASE Deferred(p) \/ Resume(p)
      BY <3>3 DEF ChannelMessagesNext
    <3> QED BY <2>1, <3>2, <3>3 DEF MessageHandled
  <2> QED BY <1>1, <2>1 DEF MessageStep, ChannelMessagesNext
<1>2. CASE AirStep
  BY <1>2 DEF AirStep, ChannelMessagesNext
<1>3. CASE WarningStep
  BY <1>3 DEF WarningStep, TaskOf, StepOf, Others
<1>4. CASE Restart
  BY <1>4 DEF Restart, ChannelMessagesNext
<1>5. CASE \/ CommandStep \/ TimeStep \/ GraphObserves \/ GraphGoesOn \/ ReplyStep \/ RecordStep
           \/ SuperviseStep \/ ServiceStep \/ ViewerChecked \/ ViewerStep
  BY <1>5 DEF CommandStep, TimeStep, GraphObserves, GraphGoesOn, ReplyStep, RecordStep, SuperviseStep,
              ServiceStep, ViewerChecked, ViewerStep, TaskOf, StepOf, Others
<1>6. CASE Stop
  BY <1>6 DEF Stop, StopBegins, StopGraph, StopService, StopViewer, Disconnect, StopTracker, LoopEnds,
              ExitGraph, ExitViewer, Exit, Others
<1> QED BY <1>1, <1>2, <1>3, <1>4, <1>5, <1>6 DEF BotNext

LEMMA MessagesInvariant == BotSpec => []MessagesInv
<1>1. BotInit => MessagesInv
  BY MessagesInitially DEF BotInit
<1>2. MessagesInv /\ WarningsInv /\ [BotNext]_botVars => MessagesInv'
  <2> SUFFICES ASSUME MessagesInv, WarningsInv, [BotNext]_botVars PROVE MessagesInv'
    OBVIOUS
  <2>1. [RegionWarningsNext]_regionWarningsVars
    BY StepOfPart DEF botVars
  <2>2. RegionWarningsTypeOK'
    BY <2>1, WarningTypes DEF WarningsInv
  <2>3. [ChannelMessagesNext]_channelMessagesVars
    BY <2>2, StepOfMessages DEF botVars
  <2> QED BY <2>3, MessagesStep
<1> QED BY <1>1, <1>2, WarningsInvariant, PTL DEF BotSpec

(* A message takes its route and its verdict from its own packet, whenever  *)
(* the row of its first reception is within reach.                          *)
THEOREM MessagesKeepToTheirPackets == BotSpec => []OwnPacketSpeaks
<1>1. MessagesInv => OwnPacketSpeaks
  BY DEF MessagesInv
<1> QED BY <1>1, MessagesInvariant, PTL

(* A message that is answered was allowed to be, and in the region that it  *)
(* is answered in, unless another packet could speak for it.                *)
THEOREM OnlyAllowedAnswers == BotSpec => []AnswersAreAllowed
<1>1. MessagesInv => AnswersAreAllowed
  BY DEF MessagesInv, AnswersAreAllowed, Allowed
<1> QED BY <1>1, MessagesInvariant, PTL

-----------------------------------------------------------------------------
(* The records: the updates of the stored rows.                             *)

LEMMA UpdateTypes ==
  ASSUME CommandRecordsTypeOK, NEW c \in Replies, NEW n \in Nat, Update(c, n)
  PROVE  /\ stream' \in [Replies -> Nat \cup {NotStored}] /\ missed' \subseteq Replies
         /\ recordFaults' \in 0..MaxRecordFaults
<1>1. /\ stream \in [Replies -> Nat \cup {NotStored}] /\ missed \subseteq Replies
      /\ recordFaults \in 0..MaxRecordFaults
  BY DEF CommandRecordsTypeOK
<1>2. recordFaults' = recordFaults \/ RecordFault
  BY DEF Update
<1>3. recordFaults' \in 0..MaxRecordFaults
  BY <1>1, <1>2, CommandRecordsAssumption DEF RecordFault
<1>4. stream' = stream \/ stream' = [stream EXCEPT ![c] = n]
  BY DEF Update
<1>5. missed' \subseteq Replies
  BY <1>1 DEF Update
<1> QED BY <1>1, <1>3, <1>4, <1>5

LEMMA PutTypes ==
  ASSUME CommandRecordsTypeOK, NEW new \in Rows, Put(new)
  PROVE  /\ waiting' \subseteq Replies /\ others' \in Nat
         /\ held' \in Rows /\ retried' \in BOOLEAN
<1>1. new.commands \subseteq Replies /\ new.others \in Nat
  BY DEF Rows
<1>2. CASE Room > 0
  BY <1>1, <1>2 DEF CommandRecordsTypeOK, Put, hold
<1>3. CASE ~(Room > 0)
  <2>1. held' = new /\ retried' = FALSE /\ UNCHANGED <<waiting, others>>
    BY <1>3 DEF Put, writeQueue
  <2> QED BY <2>1 DEF CommandRecordsTypeOK
<1> QED BY <1>2, <1>3

LEMMA SubmitTypes ==
  ASSUME CommandRecordsTypeOK, Submit
  PROVE  submitting' \in Seq(Updates) /\ worker' \in Seq(Updates) /\ missed' \subseteq Replies
<1>1. submitting' = <<>> /\ submitting \in Seq(Updates) /\ worker \in Seq(Updates) /\ submitting # <<>>
  BY DEF Submit, CommandRecordsTypeOK
<1>2. submitting[1] \in Updates
  BY <1>1, ElementOfSeq, EmptySeq, LenProperties
<1>3. submitting' \in Seq(Updates)
  BY <1>1, EmptySeq
<1>4. CASE worker' = worker \o submitting /\ UNCHANGED missed
  BY <1>1, <1>3, <1>4, ConcatProperties DEF CommandRecordsTypeOK
<1>5. CASE missed' = missed \cup {submitting[1].command} /\ UNCHANGED worker
  BY <1>1, <1>2, <1>3, <1>5 DEF CommandRecordsTypeOK, Updates
<1> QED BY <1>4, <1>5 DEF Submit

LEMMA RecordTypes ==
  ASSUME CommandRecordsTypeOK, [CommandRecordsNext]_commandRecordsVars
  PROVE  CommandRecordsTypeOK'
<1> USE CommandRecordsAssumption
<1> USE DEF records, writeQueue, hold, flushing, executor, recordHistory, recordBounds
<1>1. ASSUME NEW r \in Replies, Transmit(r) PROVE CommandRecordsTypeOK'
  <2>1. sent' \in Seq(Replies)
    BY <1>1, AppendProperties DEF Transmit, CommandRecordsTypeOK
  <2>2. tracked' \in [Replies -> {"no", "pending", "confirmed", "forgotten"}]
    BY <1>1 DEF Transmit, CommandRecordsTypeOK
  <2>3. commandId' \in [Replies -> SUBSET Replies]
    BY <1>1 DEF Transmit, CommandRecordsTypeOK
  <2> QED BY <1>1, <2>1, <2>2, <2>3 DEF Transmit, CommandRecordsTypeOK
<1>2. ASSUME NEW r \in Replies, NEW n \in {0, 1}, Hear(r, n) PROVE CommandRecordsTypeOK'
  <2>1. tracked' \in [Replies -> {"no", "pending", "confirmed", "forgotten"}] /\ heard' \in [Replies -> Nat]
    BY <1>2 DEF Hear, CommandRecordsTypeOK
  <2>2. repeats' \in 0..MaxRepeats
    BY <1>2 DEF Hear, CommandRecordsTypeOK
  <2>3. /\ submitting' \in Seq(Updates) /\ stream' \in [Replies -> Nat \cup {NotStored}]
        /\ missed' \subseteq Replies /\ recordFaults' \in 0..MaxRecordFaults
    <3>1. CASE UNCHANGED <<submitting, stream, missed, recordFaults>>
      BY <3>1 DEF CommandRecordsTypeOK
    <3>2. ASSUME NEW c \in commandId[r],
                 closing /\ Update(c, heard[r] + n) /\ UNCHANGED submitting
          PROVE  /\ submitting' \in Seq(Updates) /\ stream' \in [Replies -> Nat \cup {NotStored}]
                 /\ missed' \subseteq Replies /\ recordFaults' \in 0..MaxRecordFaults
      <4>1. c \in Replies /\ heard[r] + n \in Nat
        BY DEF CommandRecordsTypeOK
      <4> QED BY <3>2, <4>1, UpdateTypes DEF CommandRecordsTypeOK
    <3>3. ASSUME NEW c \in commandId[r],
                 submitting' = <<[command |-> c, count |-> heard[r] + n]>>, UNCHANGED <<stream, missed, recordFaults>>
          PROVE  /\ submitting' \in Seq(Updates) /\ stream' \in [Replies -> Nat \cup {NotStored}]
                 /\ missed' \subseteq Replies /\ recordFaults' \in 0..MaxRecordFaults
      <4>1. c \in Replies /\ heard[r] + n \in Nat
        BY DEF CommandRecordsTypeOK
      <4>2. [command |-> c, count |-> heard[r] + n] \in Updates
        BY <4>1 DEF Updates
      <4>3. submitting' \in Seq(Updates)
        BY <3>3, <4>2
      <4>4. UNCHANGED <<stream, missed, recordFaults>>
        BY <3>3
      <4> QED BY <4>3, <4>4 DEF CommandRecordsTypeOK
    <3>4. \/ UNCHANGED <<submitting, stream, missed, recordFaults>>
          \/ \E c \in commandId[r] :
               \/ closing /\ Update(c, heard[r] + n) /\ UNCHANGED submitting
               \/ /\ submitting' = <<[command |-> c, count |-> heard[r] + n]>>
                  /\ UNCHANGED <<stream, missed, recordFaults>>
      BY <1>2 DEF Hear
    <3> QED BY <3>1, <3>2, <3>3, <3>4
  <2> QED BY <1>2, <2>1, <2>2, <2>3 DEF Hear, CommandRecordsTypeOK
<1>3. ASSUME NEW r \in Replies, CaptureCommand(r) PROVE CommandRecordsTypeOK'
  <2>1. captured' \subseteq Replies
    BY <1>3 DEF CaptureCommand, CommandRecordsTypeOK
  <2>2. commandId' \in [Replies -> SUBSET Replies]
    <3>1. commandId \in [Replies -> SUBSET Replies] /\ {r} \in SUBSET Replies
      BY DEF CommandRecordsTypeOK
    <3>2. CASE r \in Keyword
      BY <1>3, <3>1, <3>2 DEF CaptureCommand, Link
    <3>3. ASSUME NEW oldest \in 1..Len(sent) + 1, NEW F,
                 commandId' = [s \in Replies |-> IF s \in F THEN {r} ELSE commandId[s]]
          PROVE  commandId' \in [Replies -> SUBSET Replies]
      BY <3>1, <3>3
    <3> QED BY <1>3, <3>2, <3>3 DEF CaptureCommand, Link
  <2>3. noted' \in [Replies -> Nat]
    <3> DEFINE P(s) == tracked[s] = "confirmed" /\ r \in commandId'[s]
               n == IF \E s \in Replies : P(s) THEN heard[CHOOSE s \in Replies : P(s)] ELSE 0
    <3>1. noted' = [noted EXCEPT ![r] = n]
      BY <1>3 DEF CaptureCommand
    <3>2. (\E s \in Replies : P(s)) => (CHOOSE s \in Replies : P(s)) \in Replies
      BY Zenon
    <3>3. n \in Nat
      BY <3>2 DEF CommandRecordsTypeOK
    <3> HIDE DEF n
    <3> QED BY <3>1, <3>3 DEF CommandRecordsTypeOK
  <2>4. [commands |-> {r}, others |-> 0] \in Rows
    BY DEF Rows
  <2>5. /\ waiting' \subseteq Replies /\ others' \in Nat
        /\ held' \in Rows /\ retried' \in BOOLEAN
    BY <1>3, <2>4, PutTypes DEF CaptureCommand
  <2> QED BY <1>3, <2>1, <2>2, <2>3, <2>5 DEF CaptureCommand, CommandRecordsTypeOK
<1>4. ASSUME CapturePacket PROVE CommandRecordsTypeOK'
  <2>1. [commands |-> {}, others |-> 1] \in Rows
    BY DEF Rows
  <2>2. /\ waiting' \subseteq Replies /\ others' \in Nat
        /\ held' \in Rows /\ retried' \in BOOLEAN
    BY <1>4, <2>1, PutTypes DEF CapturePacket
  <2> QED BY <1>4, <2>2 DEF CapturePacket, CommandRecordsTypeOK
<1>5. ASSUME PutHeld \/ GiveUp PROVE CommandRecordsTypeOK'
  <2>1. NoRows \in Rows
    BY DEF NoRows, Rows
  <2>2. held.commands \subseteq Replies /\ held.others \in Nat
    BY DEF CommandRecordsTypeOK, Rows
  <2>3. CASE PutHeld
    <3>1. waiting' \subseteq Replies /\ others' \in Nat
      BY <2>2, <2>3 DEF PutHeld, CommandRecordsTypeOK
    <3>2. held' \in Rows /\ retried' \in BOOLEAN
      BY <2>1, <2>3 DEF PutHeld
    <3> QED BY <2>3, <3>1, <3>2 DEF PutHeld, CommandRecordsTypeOK
  <2>4. CASE GiveUp
    BY <2>1, <2>2, <2>4 DEF GiveUp, CommandRecordsTypeOK
  <2> QED BY <1>5, <2>3, <2>4
<1>6. ASSUME NEW thread_ \in {"drain", "loop"}, StartFlush(thread_) PROVE CommandRecordsTypeOK'
  <2>1. [commands |-> waiting, others |-> others] \in Rows
    BY DEF Rows, CommandRecordsTypeOK
  <2> QED BY <1>6, <2>1 DEF StartFlush, CommandRecordsTypeOK
<1>7. ASSUME FlushCommits \/ FlushFails PROVE CommandRecordsTypeOK'
  <2>1. NoRows \in Rows
    BY DEF NoRows, Rows
  <2>2. taken.commands \subseteq Replies /\ taken.others \in Nat
    BY DEF CommandRecordsTypeOK, Rows
  <2>3. CASE FlushCommits
    BY <2>1, <2>3 DEF FlushCommits, EndOfFlush, CommandRecordsTypeOK
  <2>4. CASE FlushFails
    <3>1. /\ waiting' \subseteq Replies /\ others' \in Nat /\ dropped' \subseteq Replies
      BY <2>2, <2>4 DEF FlushFails, CommandRecordsTypeOK
    <3> QED BY <2>1, <2>4, <3>1 DEF FlushFails, EndOfFlush, RecordFault, CommandRecordsTypeOK
  <2> QED BY <1>7, <2>3, <2>4
<1>8. ASSUME Submit PROVE CommandRecordsTypeOK'
  <2>1. submitting' \in Seq(Updates) /\ worker' \in Seq(Updates) /\ missed' \subseteq Replies
    BY <1>8, SubmitTypes
  <2> QED BY <1>8, <2>1 DEF Submit, CommandRecordsTypeOK
<1>9. ASSUME Work PROVE CommandRecordsTypeOK'
  <2>1. Head(worker) \in Updates /\ worker' \in Seq(Updates)
    BY <1>9, HeadTailProperties DEF Work, CommandRecordsTypeOK
  <2>2. Head(worker).command \in Replies /\ Head(worker).count \in Nat
    BY <2>1 DEF Updates
  <2>3. /\ stream' \in [Replies -> Nat \cup {NotStored}] /\ missed' \subseteq Replies
        /\ recordFaults' \in 0..MaxRecordFaults
    BY <1>9, <2>2, UpdateTypes DEF Work
  <2> QED BY <1>9, <2>1, <2>3 DEF Work, CommandRecordsTypeOK
<1>10. ASSUME CloseTracker \/ UNCHANGED commandRecordsVars PROVE CommandRecordsTypeOK'
  BY <1>10 DEF CloseTracker, commandRecordsVars, CommandRecordsTypeOK
<1> QED BY <1>1, <1>2, <1>3, <1>4, <1>5, <1>6, <1>7, <1>8, <1>9, <1>10
        DEF CommandRecordsNext, PacketArrives, CommandRecordsTasks, CommandRecordsGoOn, DrainFlushes, LoopFlushes

(* The tracker is closed in the last phase of stop() at the earliest, and   *)
(* no update is made once the radio is disconnected.                        *)
ClosingInv ==
  /\ phase \in Phases /\ hears \in BOOLEAN
  /\ closing => phase \notin {"running", "graph", "services", "viewer", "disconnecting"}
  /\ ~hears => submitting = <<>>
  /\ Len(submitting) <= 1

(* A record carries the id of one command at most, no command is linked to  *)
(* two records, and repeats count only on a confirmed one.                  *)
LinkInv ==
  /\ \A r \in Replies : \A c, d \in commandId[r] : c = d
  /\ \A r, s \in Replies : r # s => commandId[r] \cap commandId[s] = {}
  /\ \A r \in Replies : \A c \in commandId[r] : IF c \in Keyword THEN c = r ELSE c \in captured
  /\ \A r \in Replies : tracked[r] = "no" => commandId[r] = {} /\ r \notin captured
  /\ \A r \in Replies : tracked[r] \in {"no", "pending"} => heard[r] = 0

(* The row of a captured command is in one place.                           *)
OnTheWay(c) == c \in waiting \/ c \in held.commands \/ c \in taken.commands

RowInv ==
  /\ \A c \in Replies : c \notin captured => noted[c] = 0 /\ stream[c] = NotStored /\ ~OnTheWay(c)
  /\ \A c \in Replies : stream[c] # NotStored => ~OnTheWay(c)
  /\ waiting \cap taken.commands = {} /\ waiting \cap held.commands = {}
  /\ taken.commands \cap held.commands = {}

(* Updates reach a row in the order of the repeats, so that the last one on *)
(* the way has the count of the record, unless updates are made in line.    *)
Overtaken == closing /\ hears
Known(c) == c \in captured \/ (c \in Keyword /\ tracked[c] # "no")
IsUpdate(u, c, n) == u.command = c /\ u.count = n

UpdateInv ==
  /\ \A i \in 1..Len(worker) : Known(worker[i].command)
  /\ \A i \in 1..Len(submitting) : Known(submitting[i].command)
  /\ \A r \in Replies : \A c \in commandId[r] :
       /\ \A i \in 1..Len(submitting) :
            submitting[i].command = c => Overtaken \/ submitting[i].count = heard[r]
       /\ \A i \in 1..Len(worker) : worker[i].command = c =>
            \/ Overtaken \/ worker[i].count = heard[r]
            \/ \E j \in i + 1..Len(worker) : IsUpdate(worker[j], c, heard[r])
            \/ \E j \in 1..Len(submitting) : IsUpdate(submitting[j], c, heard[r])

(* What the row of a command shows, or will show once it is stored.         *)
Shown(c) == IF stream[c] = NotStored THEN noted[c] ELSE stream[c]

Excused(c, n) ==
  \/ c \in missed \/ Overtaken
  \/ \E i \in 1..Len(worker) : IsUpdate(worker[i], c, n)
  \/ \E i \in 1..Len(submitting) : IsUpdate(submitting[i], c, n)

ShownInv == \A r \in Replies : \A c \in commandId[r] : Shown(c) < heard[r] => Excused(c, heard[r])

RecordsInv == CommandRecordsTypeOK /\ ClosingInv /\ LinkInv /\ RowInv /\ UpdateInv /\ ShownInv

LEMMA RecordsInitially == ASSUME BotInit PROVE RecordsInv
<1>1. CommandRecordsTypeOK
  <2>1. NoRows \in Rows /\ <<>> \in Seq(Replies) /\ <<>> \in Seq(Updates)
    BY EmptySeq DEF NoRows, Rows
  <2>2. /\ sent \in Seq(Replies) /\ submitting \in Seq(Updates) /\ worker \in Seq(Updates)
        /\ held \in Rows /\ taken \in Rows
    BY <2>1 DEF BotInit, CommandRecordsInit
  <2>3. /\ tracked \in [Replies -> {"no", "pending", "confirmed", "forgotten"}]
        /\ commandId \in [Replies -> SUBSET Replies] /\ heard \in [Replies -> Nat]
        /\ noted \in [Replies -> Nat] /\ stream \in [Replies -> Nat \cup {NotStored}]
    BY DEF BotInit, CommandRecordsInit
  <2>4. repeats \in 0..MaxRepeats /\ packets \in 0..MaxPackets /\ recordFaults \in 0..MaxRecordFaults
    BY CommandRecordsAssumption DEF BotInit, CommandRecordsInit
  <2> QED BY <2>2, <2>3, <2>4 DEF BotInit, CommandRecordsInit, CommandRecordsTypeOK
<1>2. ClosingInv
  <2>1. phase \in Phases
    BY DEF BotInit, Phases, Order
  <2> QED BY <2>1, EmptySeq DEF BotInit, CommandRecordsInit, ClosingInv
<1>3. LinkInv
  BY DEF BotInit, CommandRecordsInit, LinkInv
<1>4. RowInv
  BY DEF BotInit, CommandRecordsInit, RowInv, OnTheWay, NoRows
<1>5. UpdateInv /\ ShownInv
  BY EmptySeq DEF BotInit, CommandRecordsInit, UpdateInv, ShownInv
<1> QED BY <1>1, <1>2, <1>3, <1>4, <1>5 DEF RecordsInv

(* The phases of stop() only go forward.                                    *)
LEMMA PhaseGoesOn ==
  ASSUME NextPhase
  PROVE  /\ phase' \in Phases
         /\ phase \notin {"running", "graph", "services", "viewer", "disconnecting"} =>
              phase' \notin {"running", "graph", "services", "viewer", "disconnecting"}
<1>1. PICK i, j \in 1..10 : phase = Order[i] /\ i < j /\ phase' = Order[j]
  BY DEF NextPhase, Order
<1>2. phase' \in Phases
  BY <1>1 DEF Phases, Order
<1>3. phase \notin {"running", "graph", "services", "viewer", "disconnecting"} => i > 5
  BY <1>1 DEF Order
<1>4. i > 5 => phase' \notin {"running", "graph", "services", "viewer", "disconnecting"}
  BY <1>1 DEF Order
<1> QED BY <1>2, <1>3, <1>4

(* What a step of the bot does to the records, and to what they know of the *)
(* life of the bot.                                                         *)
LEMMA StepOfRecords ==
  ASSUME [BotNext]_botVars
  PROVE  \/ /\ UNCHANGED <<phase, hears>>
            /\ \/ UNCHANGED commandRecordsVars \/ CommandRecordsTasks \/ CommandRecordsGoOn
               \/ hears /\ PacketArrives
               \/ phase = "closing" /\ CloseTracker
         \/ /\ UNCHANGED commandRecordsVars /\ NextPhase
            /\ hears' = hears \/ (phase = "disconnecting" /\ hears' \in BOOLEAN /\ LoopIdle)
<1> USE DEF lifecycle
<1>1. CASE \/ CommandStep \/ TimeStep \/ GraphObserves \/ GraphGoesOn \/ SuperviseStep \/ ServiceStep
           \/ ViewerChecked \/ ViewerStep
  BY <1>1 DEF CommandStep, TimeStep, GraphObserves, GraphGoesOn, SuperviseStep, ServiceStep,
              ViewerChecked, ViewerStep, TaskOf, StepOf, Others
<1>2. CASE ReplyStep \/ RecordStep
  BY <1>2 DEF ReplyStep, RecordStep, TaskOf, StepOf
<1>3. CASE MessageStep \/ AirStep \/ WarningStep \/ Restart
  BY <1>3 DEF MessageStep, MessageHandled, AirStep, WarningStep, Restart, TaskOf, StepOf, Others
<1>4. CASE StopBegins \/ StopGraph \/ StopService \/ StopViewer \/ LoopEnds \/ ExitGraph \/ ExitViewer \/ Exit
  BY <1>4 DEF StopBegins, StopGraph, StopService, StopViewer, LoopEnds, ExitGraph, ExitViewer, Exit, Others
<1>5. CASE Disconnect
  <2>1. hears' \in BOOLEAN
    BY <1>5 DEF Disconnect
  <2> QED BY <1>5, <2>1 DEF Disconnect, LoopFree, Others
<1>6. CASE StopTracker
  BY <1>6 DEF StopTracker
<1>7. CASE UNCHANGED botVars
  BY <1>7 DEF botVars
<1> QED BY <1>1, <1>2, <1>3, <1>4, <1>5, <1>6, <1>7 DEF BotNext, Stop

(* What an action that leaves the records, the updates and the tracker      *)
(* alone keeps.                                                             *)
LEMMA RecordsFrame ==
  ASSUME RecordsInv, UNCHANGED <<records, submitting, worker, closing, phase, hears, captured>>
  PROVE  ClosingInv' /\ LinkInv' /\ UpdateInv'
<1> USE DEF RecordsInv, records
<1>1. ClosingInv'
  BY DEF ClosingInv
<1>2. LinkInv'
  BY DEF LinkInv
<1>3. UpdateInv'
  BY DEF UpdateInv, Known, Overtaken, IsUpdate
<1> QED BY <1>1, <1>2, <1>3

LEMMA UpdatesOnTheWay ==
  ASSUME CommandRecordsTypeOK
  PROVE  /\ Len(worker) \in Nat /\ Len(submitting) \in Nat
         /\ \A i \in 1..Len(worker) : worker[i].command \in Replies /\ worker[i].count \in Nat
         /\ \A i \in 1..Len(submitting) : submitting[i].command \in Replies /\ submitting[i].count \in Nat
<1>1. worker \in Seq(Updates) /\ submitting \in Seq(Updates)
  BY DEF CommandRecordsTypeOK
<1>2. /\ \A i \in 1..Len(worker) : worker[i] \in Updates
      /\ \A i \in 1..Len(submitting) : submitting[i] \in Updates
  BY <1>1, ElementOfSeq
<1>3. Len(worker) \in Nat /\ Len(submitting) \in Nat
  BY <1>1, LenProperties
<1> QED BY <1>2, <1>3 DEF Updates

LEMMA TransmitKeeps == ASSUME RecordsInv, NEW r \in Replies, Transmit(r), UNCHANGED <<phase, hears>> PROVE RecordsInv'
<1> USE DEF RecordsInv, writeQueue, hold, flushing, executor, recordHistory, recordBounds
<1>1. CommandRecordsTypeOK'
  BY RecordTypes DEF CommandRecordsNext, CommandRecordsTasks
<1>2. ClosingInv'
  BY DEF ClosingInv, Transmit
<1>3. /\ tracked[r] = "no" /\ commandId[r] = {} /\ heard[r] = 0 /\ ~Known(r)
  BY DEF Transmit, LinkInv, Known
<1>4. /\ tracked'[r] = "pending"
      /\ \A s \in Replies \ {r} : tracked'[s] = tracked[s] \/ (tracked[s] # "no" /\ tracked'[s] = "forgotten")
  BY DEF Transmit, Findable
<1>5. /\ \A s \in Replies \ {r} : commandId'[s] = commandId[s]
      /\ commandId'[r] \subseteq {r} /\ (r \notin Keyword => commandId'[r] = {})
  BY <1>3 DEF Transmit, CommandRecordsTypeOK
<1>6. UNCHANGED <<heard, noted, waiting, held, taken, stream, submitting, worker, closing, captured, missed>>
  BY DEF Transmit
<1>7. LinkInv'
  BY <1>3, <1>4, <1>5, <1>6 DEF LinkInv
<1>8. RowInv'
  BY <1>6 DEF RowInv, OnTheWay
<1>9. UpdateInv'
  <2>1. \A c \in Replies : Known(c) => Known(c)'
    BY <1>4, <1>6 DEF Known
  <2>2. \A i \in 1..Len(worker) : worker[i].command \in Replies /\ Known(worker[i].command)
    BY UpdatesOnTheWay DEF UpdateInv
  <2>3. \A i \in 1..Len(submitting) : submitting[i].command \in Replies /\ Known(submitting[i].command)
    BY UpdatesOnTheWay DEF UpdateInv
  <2>4. /\ \A i \in 1..Len(worker) : Known(worker[i].command)'
        /\ \A i \in 1..Len(submitting) : Known(submitting[i].command)'
    BY <1>6, <2>1, <2>2, <2>3
  <2>5. \A s \in Replies : \A c \in commandId'[s] : c \in commandId[s] \/ ~Known(c)
    BY <1>3, <1>5
  <2> QED BY <1>6, <2>2, <2>3, <2>4, <2>5 DEF UpdateInv, Overtaken, IsUpdate
<1>10. ShownInv'
  <2>1. \A s \in Replies : \A c \in commandId'[s] : c \in commandId[s] \/ (s = r /\ c = r)
    BY <1>3, <1>5
  <2>2. ~(Shown(r) < heard[r])
    BY <1>3 DEF Shown, CommandRecordsTypeOK
  <2> QED BY <1>6, <2>1, <2>2 DEF ShownInv, Shown, Excused, Overtaken, IsUpdate
<1> QED BY <1>1, <1>2, <1>7, <1>8, <1>9, <1>10

LEMMA AtMostOne == ASSUME NEW n, n = 0 \/ n = 1 PROVE n <= 1
OBVIOUS

LEMMA HearKeeps ==
  ASSUME RecordsInv, NEW r \in Replies, NEW n \in {0, 1}, Hear(r, n), hears, UNCHANGED <<phase, hears>>
  PROVE  RecordsInv'
<1> USE DEF RecordsInv, writeQueue, hold, flushing
<1>1. CommandRecordsTypeOK'
  BY RecordTypes DEF CommandRecordsNext, PacketArrives
<1>2. /\ submitting = <<>> /\ Len(submitting) = 0
      /\ UNCHANGED <<sent, commandId, noted, waiting, held, taken, worker, closing, captured>>
  BY EmptySeq DEF Hear, LoopIdle
<1>3. /\ tracked' = [tracked EXCEPT ![r] = "confirmed"] /\ tracked[r] # "no"
      /\ heard' = [heard EXCEPT ![r] = @ + n]
  BY DEF Hear, Findable
<1>4. \/ /\ n = 0 \/ commandId[r] = {}
         /\ UNCHANGED <<submitting, stream, missed>>
      \/ \E c \in commandId[r] :
           /\ n = 1
           /\ \/ closing /\ Update(c, heard[r] + n) /\ UNCHANGED submitting
              \/ /\ submitting' = <<[command |-> c, count |-> heard[r] + n]>>
                 /\ UNCHANGED <<stream, missed>>
  BY DEF Hear
<1>5. ClosingInv'
  <2>1. Len(submitting') = 0 \/ Len(submitting') = 1
    BY <1>2, <1>4
  <2>2. Len(submitting') <= 1
    BY <2>1, AtMostOne, Zenon
  <2> QED BY <1>2, <2>2, Zenon DEF ClosingInv
<1>6. LinkInv'
  BY <1>2, <1>3 DEF LinkInv, CommandRecordsTypeOK
<1>7. \A c \in Replies : Known(c)' <=> Known(c)
  BY <1>2, <1>3 DEF Known, CommandRecordsTypeOK
<1>8. Overtaken' <=> Overtaken
  BY <1>2 DEF Overtaken
<1>9. CASE (n = 0 \/ commandId[r] = {}) /\ UNCHANGED <<submitting, stream, missed>>
  <2>1. RowInv'
    BY <1>2, <1>9 DEF RowInv, OnTheWay
  <2>2. \A s \in Replies : commandId[s] # {} => heard'[s] = heard[s]
    BY <1>3, <1>9 DEF CommandRecordsTypeOK
  <2>3. UpdateInv'
    BY <1>2, <1>7, <1>8, <1>9, <2>2, UpdatesOnTheWay DEF UpdateInv, IsUpdate
  <2>4. ShownInv'
    BY <1>2, <1>8, <1>9, <2>2 DEF ShownInv, Shown, Excused, IsUpdate
  <2> QED BY <1>1, <1>5, <1>6, <2>1, <2>3, <2>4
<1>10. ASSUME NEW c \in commandId[r], closing, Update(c, heard[r] + n), UNCHANGED submitting PROVE RecordsInv'
  <2>1. Overtaken
    BY <1>10 DEF Overtaken
  <2>2. RowInv'
    BY <1>2, <1>10 DEF RowInv, OnTheWay, Update, CommandRecordsTypeOK
  <2>3. UpdateInv' /\ ShownInv'
    BY <1>2, <1>7, <1>8, <1>10, <2>1, UpdatesOnTheWay DEF UpdateInv, ShownInv, Excused
  <2> QED BY <1>1, <1>5, <1>6, <2>2, <2>3
<1>11. ASSUME NEW c \in commandId[r], n = 1, submitting' = <<[command |-> c, count |-> heard[r] + n]>>,
              UNCHANGED <<stream, missed>>
       PROVE  RecordsInv'
  <2>1. RowInv'
    BY <1>2, <1>11 DEF RowInv, OnTheWay
  <2>2. c \in Replies /\ Known(c)
    BY <1>3, <1>11 DEF LinkInv, Known, CommandRecordsTypeOK
  <2>3. /\ Len(submitting') = 1 /\ submitting'[1].command = c /\ submitting'[1].count = heard'[r]
        /\ IsUpdate(submitting'[1], c, heard'[r])
    BY <1>3, <1>11 DEF CommandRecordsTypeOK, IsUpdate
  <2>4. \A s \in Replies : \A d \in commandId[s] :
          IF d = c THEN s = r ELSE s # r /\ heard'[s] = heard[s]
    BY <1>3, <1>11 DEF LinkInv, CommandRecordsTypeOK
  <2>5. UpdateInv'
    <3>1. /\ \A i \in 1..Len(worker) : Known(worker[i].command)'
          /\ \A i \in 1..1 : Known(submitting[i].command)'
      BY <1>2, <1>7, <2>2, <2>3, UpdatesOnTheWay DEF UpdateInv
    <3>2. ASSUME NEW s \in Replies, NEW d \in commandId[s]
          PROVE  /\ \A i \in 1..1 :
                      submitting'[i].command = d => Overtaken' \/ submitting'[i].count = heard'[s]
                 /\ \A i \in 1..Len(worker) : worker[i].command = d =>
                      \/ Overtaken' \/ worker[i].count = heard'[s]
                      \/ \E j \in i + 1..Len(worker) : IsUpdate(worker[j], d, heard'[s])
                      \/ \E j \in 1..1 : IsUpdate(submitting'[j], d, heard'[s])
      <4>1. CASE d = c
        BY <2>3, <2>4, <4>1
      <4>2. CASE d # c
        BY <1>2, <1>8, <2>3, <2>4, <4>2 DEF UpdateInv
      <4> QED BY <4>1, <4>2
    <3> QED BY <1>2, <2>3, <3>1, <3>2 DEF UpdateInv
  <2>6. ShownInv'
    <3>1. ASSUME NEW s \in Replies, NEW d \in commandId[s], Shown(d)' < heard'[s] PROVE Excused(d, heard[s])'
      <4>1. CASE d = c
        BY <2>3, <2>4, <4>1 DEF Excused
      <4>2. CASE d # c
        BY <1>2, <1>8, <1>11, <2>4, <3>1, <4>2 DEF ShownInv, Shown, Excused, IsUpdate
      <4> QED BY <4>1, <4>2
    <3> QED BY <1>2, <3>1 DEF ShownInv
  <2> QED BY <1>1, <1>5, <1>6, <2>1, <2>5, <2>6
<1> QED BY <1>4, <1>9, <1>10, <1>11

LEMMA FirstIsOne ==
  ASSUME NEW recent \in SUBSET Nat, NEW r
  PROVE  \A s, t \in First(recent, r) : s = t
<1> SUFFICES ASSUME NEW s \in First(recent, r), NEW t \in First(recent, r) PROVE s = t
  OBVIOUS
<1>1. PICK i \in recent : s = sent[i] /\ Text[sent[i]] = Text[r] /\ Findable(sent[i])
               /\ \A k \in recent : k < i => Text[sent[k]] # Text[r] \/ ~Findable(sent[k])
  BY DEF First
<1>2. PICK j \in recent : t = sent[j] /\ Text[sent[j]] = Text[r] /\ Findable(sent[j])
               /\ \A k \in recent : k < j => Text[sent[k]] # Text[r] \/ ~Findable(sent[k])
  BY DEF First
<1>3. ~(i < j) /\ ~(j < i)
  BY <1>1, <1>2
<1>4. i = j
  BY <1>3
<1> QED BY <1>1, <1>2, <1>4

(* A command is linked to at most one record, which can still be found.     *)
LEMMA Linked ==
  ASSUME CommandRecordsTypeOK, NEW r \in Replies, r \notin Keyword, Link(r)
  PROVE  \E F \in SUBSET Replies :
           /\ \A s, t \in F : s = t
           /\ \A s \in F : Findable(s)
           /\ commandId' = [s \in Replies |-> IF s \in F THEN {r} ELSE commandId[s]]
<1>1. PICK oldest \in 1..Len(sent) + 1 :
        commandId' = [s \in Replies |-> IF s \in First(oldest..Len(sent), r) THEN {r} ELSE commandId[s]]
  BY DEF Link
<1> DEFINE F == First(oldest..Len(sent), r)
<1>2. Len(sent) \in Nat /\ \A i \in 1..Len(sent) : sent[i] \in Replies
  BY ElementOfSeq, LenProperties DEF CommandRecordsTypeOK
<1>3. oldest..Len(sent) \in SUBSET Nat /\ oldest..Len(sent) \subseteq 1..Len(sent)
  BY <1>2
<1>4. \A s, t \in F : s = t
  BY <1>3, FirstIsOne
<1>5. \A s \in F : s \in Replies /\ Findable(s)
  BY <1>2, <1>3 DEF First
<1> QED BY <1>1, <1>4, <1>5

LEMMA PutKeepsRows ==
  ASSUME CommandRecordsTypeOK, LoopIdle, NEW C \in SUBSET Replies, NEW n,
         Put([commands |-> C, others |-> n])
  PROVE  \/ waiting' = waiting \cup C /\ held' = held
         \/ waiting' = waiting /\ held'.commands = C /\ held.commands = {}
<1>1. held.commands = {}
  BY DEF LoopIdle, NoRows
<1> QED BY <1>1 DEF Put, hold, writeQueue

LEMMA CaptureKeeps ==
  ASSUME RecordsInv, NEW r \in Replies, CaptureCommand(r), UNCHANGED <<phase, hears>>
  PROVE  RecordsInv'
<1> USE DEF RecordsInv
<1>1. CommandRecordsTypeOK'
  BY RecordTypes DEF CommandRecordsNext, CommandRecordsTasks
<1>2. /\ UNCHANGED <<sent, tracked, heard, taken, stream, submitting, worker, closing, missed>>
      /\ r \notin captured /\ tracked[r] # "no" /\ captured' = captured \cup {r}
      /\ LoopIdle /\ Link(r) /\ Put([commands |-> {r}, others |-> 0])
  BY DEF CaptureCommand, flushing, executor
<1>3. ClosingInv'
  BY <1>2 DEF ClosingInv
<1>4. /\ noted[r] = 0 /\ stream[r] = NotStored /\ ~OnTheWay(r)
  BY <1>2 DEF RowInv
<1>5. noted' \in [Replies -> Nat] /\ \A c \in Replies \ {r} : noted'[c] = noted[c]
  BY <1>1 DEF CaptureCommand, CommandRecordsTypeOK
<1>6. RowInv'
  <2>1. \/ waiting' = waiting \cup {r} /\ held' = held
        \/ waiting' = waiting /\ held'.commands = {r} /\ held.commands = {}
    BY <1>2, PutKeepsRows
  <2> QED BY <1>2, <1>4, <1>5, <2>1 DEF RowInv, OnTheWay
<1>7. Overtaken' <=> Overtaken
  BY <1>2 DEF Overtaken
<1>8. /\ \A i \in 1..Len(worker) : Known(worker[i].command)'
      /\ \A i \in 1..Len(submitting) : Known(submitting[i].command)'
  BY <1>2, UpdatesOnTheWay DEF UpdateInv, Known
<1>9. CASE r \in Keyword
  <2>1. commandId' = commandId
    BY <1>2, <1>9 DEF Link
  <2>2. LinkInv'
    BY <1>2, <2>1 DEF LinkInv
  <2>3. UpdateInv'
    BY <1>2, <1>7, <1>8, <2>1 DEF UpdateInv, IsUpdate
  <2>4. \A s \in Replies : r \in commandId[s] => s = r
    BY <1>9 DEF LinkInv
  <2>5. r \in commandId[r] => noted'[r] = heard[r] \/ noted'[r] = noted[r]
    <3> DEFINE P(s) == tracked[s] = "confirmed" /\ r \in commandId'[s]
    <3>1. noted'[r] = IF \E s \in Replies : P(s) THEN heard[CHOOSE s \in Replies : P(s)] ELSE 0
      BY DEF CaptureCommand, CommandRecordsTypeOK
    <3>2. CASE \E s \in Replies : P(s)
      <4>1. (CHOOSE s \in Replies : P(s)) \in Replies /\ P(CHOOSE s \in Replies : P(s))
        BY <3>2, Zenon
      <4>2. (CHOOSE s \in Replies : P(s)) = r
        BY <2>1, <2>4, <4>1
      <4> HIDE DEF P
      <4> QED BY <3>1, <3>2, <4>2
    <3>3. CASE ~\E s \in Replies : P(s)
      BY <1>4, <3>1, <3>3
    <3> QED BY <3>2, <3>3
  <2>6. ShownInv'
    <3>1. ASSUME NEW s \in Replies, NEW c \in commandId[s], Shown(c)' < heard[s] PROVE Excused(c, heard[s])
      <4>1. c \in Replies /\ heard[s] \in Nat
        BY DEF CommandRecordsTypeOK
      <4>2. CASE c # r
        BY <1>2, <1>5, <3>1, <4>1, <4>2 DEF ShownInv, Shown
      <4>3. CASE c = r
        <5>1. s = r /\ Shown(r)' = noted'[r] /\ Shown(r) = noted[r]
          BY <1>2, <1>4, <2>4, <4>3 DEF Shown
        <5> QED BY <2>5, <3>1, <4>1, <4>3, <5>1 DEF ShownInv
      <4> QED BY <4>2, <4>3
    <3> QED BY <1>2, <1>7, <2>1, <3>1 DEF ShownInv, Excused, IsUpdate
  <2> QED BY <1>1, <1>3, <1>6, <2>2, <2>3, <2>6
<1>10. CASE r \notin Keyword
  <2>1. PICK F \in SUBSET Replies :
           /\ \A s, t \in F : s = t
           /\ \A s \in F : Findable(s)
           /\ commandId' = [s \in Replies |-> IF s \in F THEN {r} ELSE commandId[s]]
    BY <1>2, <1>10, Linked
  <2>2. \A s \in Replies : r \notin commandId[s]
    BY <1>2, <1>10 DEF LinkInv
  <2>3. \A s \in Replies : commandId'[s] = IF s \in F THEN {r} ELSE commandId[s]
    BY <2>1
  <2>4. LinkInv'
    BY <1>2, <1>10, <2>1, <2>2, <2>3 DEF LinkInv, Findable
  <2>5. ~Known(r)
    BY <1>2, <1>10 DEF Known
  <2>6. UpdateInv'
    BY <1>2, <1>7, <1>8, <2>3, <2>5 DEF UpdateInv, IsUpdate
  <2>7. \A s \in F : noted'[r] = heard[s]
    <3> SUFFICES ASSUME NEW s \in F PROVE noted'[r] = heard[s]
      OBVIOUS
    <3> DEFINE P(t) == tracked[t] = "confirmed" /\ r \in commandId'[t]
    <3>1. noted'[r] = IF \E t \in Replies : P(t) THEN heard[CHOOSE t \in Replies : P(t)] ELSE 0
      BY DEF CaptureCommand, CommandRecordsTypeOK
    <3>2. \A t \in Replies : r \in commandId'[t] <=> t = s
      BY <2>1, <2>2, <2>3
    <3>3. CASE tracked[s] = "confirmed"
      <4>1. P(s)
        BY <3>2, <3>3
      <4>2. (CHOOSE t \in Replies : P(t)) \in Replies /\ P(CHOOSE t \in Replies : P(t))
        BY <4>1, Zenon
      <4>3. (CHOOSE t \in Replies : P(t)) = s
        BY <3>2, <4>2
      <4> HIDE DEF P
      <4> QED BY <3>1, <4>1, <4>3
    <3>4. CASE tracked[s] # "confirmed"
      <4>1. ~\E t \in Replies : P(t)
        BY <3>2, <3>4
      <4>2. heard[s] = 0
        BY <2>1, <3>4 DEF Findable, LinkInv
      <4> HIDE DEF P
      <4> QED BY <3>1, <4>1, <4>2
    <3> QED BY <3>3, <3>4
  <2>8. ShownInv'
    <3>1. ASSUME NEW s \in Replies, NEW c \in commandId'[s], Shown(c)' < heard[s] PROVE Excused(c, heard[s])
      <4>1. heard[s] \in Nat
        BY DEF CommandRecordsTypeOK
      <4>2. CASE s \in F
        <5>1. c = r /\ Shown(r)' = noted'[r]
          BY <1>2, <1>4, <2>3, <4>2 DEF Shown
        <5> QED BY <2>7, <3>1, <4>1, <4>2, <5>1
      <4>3. CASE s \notin F
        <5>1. c \in commandId[s] /\ c \in Replies /\ c # r
          BY <2>2, <2>3, <4>3 DEF CommandRecordsTypeOK
        <5> QED BY <1>2, <1>5, <3>1, <5>1 DEF ShownInv, Shown
      <4> QED BY <4>2, <4>3
    <3> QED BY <1>2, <1>7, <3>1 DEF ShownInv, Excused, IsUpdate
  <2> QED BY <1>1, <1>3, <1>6, <2>4, <2>6, <2>8
<1> QED BY <1>9, <1>10

(* What an action that leaves the counts and the updates alone keeps.       *)
LEMMA ShownFrame ==
  ASSUME RecordsInv, UNCHANGED <<records, submitting, worker, closing, hears>>, missed \subseteq missed',
         \A c \in Replies : Shown(c)' = Shown(c)
  PROVE  ShownInv'
<1>1. \A r \in Replies : \A c \in commandId[r] : c \in Replies
  BY DEF RecordsInv, CommandRecordsTypeOK
<1> QED BY <1>1 DEF RecordsInv, ShownInv, Excused, Overtaken, IsUpdate, records

LEMMA CapturePacketKeeps == ASSUME RecordsInv, CapturePacket, UNCHANGED <<phase, hears>> PROVE RecordsInv'
<1> USE DEF RecordsInv, flushing, executor, recordHistory
<1>1. CommandRecordsTypeOK'
  BY RecordTypes DEF CommandRecordsNext, PacketArrives
<1>2. /\ LoopIdle /\ Put([commands |-> {}, others |-> 1])
      /\ UNCHANGED <<records, noted, flushing, stream, executor, recordHistory>>
  BY DEF CapturePacket
<1>3. \/ waiting' = waiting \cup {} /\ held' = held
      \/ waiting' = waiting /\ held'.commands = {} /\ held.commands = {}
  BY <1>2, PutKeepsRows
<1>4. ClosingInv' /\ LinkInv' /\ UpdateInv'
  BY <1>2, RecordsFrame
<1>5. RowInv'
  BY <1>2, <1>3 DEF RowInv, OnTheWay
<1>6. ShownInv'
  BY <1>2, ShownFrame DEF Shown
<1> QED BY <1>1, <1>4, <1>5, <1>6

LEMMA HeldKeeps == ASSUME RecordsInv, PutHeld \/ GiveUp, UNCHANGED <<phase, hears>> PROVE RecordsInv'
<1> USE DEF RecordsInv, writeQueue, flushing, executor, recordHistory
<1>1. CommandRecordsTypeOK'
  BY RecordTypes DEF CommandRecordsNext, CommandRecordsGoOn
<1>2. UNCHANGED <<records, noted, flushing, stream, executor, captured, missed>>
  BY DEF PutHeld, GiveUp
<1>3. /\ waiting' = waiting \cup held.commands \/ waiting' = waiting
      /\ held'.commands = {}
  BY DEF PutHeld, GiveUp, NoRows
<1>4. ClosingInv' /\ LinkInv' /\ UpdateInv'
  BY <1>2, RecordsFrame
<1>5. RowInv'
  BY <1>2, <1>3 DEF RowInv, OnTheWay
<1>6. ShownInv'
  BY <1>2, ShownFrame DEF Shown
<1> QED BY <1>1, <1>4, <1>5, <1>6

LEMMA StartFlushKeeps ==
  ASSUME RecordsInv, DrainFlushes \/ LoopFlushes, UNCHANGED <<phase, hears>>
  PROVE  RecordsInv'
<1> USE DEF RecordsInv, hold, executor, recordHistory
<1>1. CommandRecordsTypeOK'
  BY RecordTypes DEF CommandRecordsNext, CommandRecordsGoOn
<1>2. /\ UNCHANGED <<records, noted, held, stream, executor, captured, missed>>
      /\ taken'.commands = waiting /\ waiting' = {}
  BY DEF DrainFlushes, LoopFlushes, StartFlush
<1>3. ClosingInv' /\ LinkInv' /\ UpdateInv'
  BY <1>2, RecordsFrame
<1>4. RowInv'
  BY <1>2 DEF RowInv, OnTheWay
<1>5. ShownInv'
  BY <1>2, ShownFrame DEF Shown
<1> QED BY <1>1, <1>3, <1>4, <1>5

LEMMA FlushKeeps == ASSUME RecordsInv, FlushCommits \/ FlushFails, UNCHANGED <<phase, hears>> PROVE RecordsInv'
<1> USE DEF RecordsInv, writeQueue, executor, recordHistory
<1>1. CommandRecordsTypeOK'
  BY RecordTypes DEF CommandRecordsNext, CommandRecordsGoOn
<1>2. /\ UNCHANGED <<records, noted, held, executor, captured, missed>>
      /\ taken'.commands = {}
  BY DEF FlushCommits, FlushFails, EndOfFlush, NoRows
<1>3. ClosingInv' /\ LinkInv' /\ UpdateInv'
  BY <1>2, RecordsFrame
<1>4. CASE FlushCommits
  <2>1. /\ waiting' = waiting
        /\ \A r \in Replies : stream'[r] = IF r \in taken.commands THEN noted[r] ELSE stream[r]
    BY <1>4 DEF FlushCommits
  <2>2. RowInv'
    BY <1>2, <2>1 DEF RowInv, OnTheWay
  <2>3. \A c \in Replies : Shown(c)' = Shown(c)
    <3> SUFFICES ASSUME NEW c \in Replies PROVE Shown(c)' = Shown(c)
      OBVIOUS
    <3>1. noted[c] \in Nat /\ noted[c] # NotStored /\ noted' = noted
      BY <1>2 DEF CommandRecordsTypeOK, NotStored
    <3>2. CASE c \in taken.commands
      <4>1. stream[c] = NotStored
        BY <3>2 DEF RowInv, OnTheWay
      <4> QED BY <2>1, <3>1, <3>2, <4>1 DEF Shown
    <3>3. CASE c \notin taken.commands
      BY <2>1, <3>1, <3>3 DEF Shown
    <3> QED BY <3>2, <3>3
  <2>4. ShownInv'
    BY <1>2, <2>3, ShownFrame
  <2> QED BY <1>1, <1>3, <2>2, <2>4
<1>5. CASE FlushFails
  <2>1. PICK kept \in SUBSET taken.commands : waiting' = waiting \cup kept /\ stream' = stream
    BY <1>5 DEF FlushFails
  <2>2. RowInv'
    BY <1>2, <2>1 DEF RowInv, OnTheWay
  <2>3. ShownInv'
    BY <1>2, <2>1, ShownFrame DEF Shown
  <2> QED BY <1>1, <1>3, <2>2, <2>3
<1> QED BY <1>4, <1>5

LEMMA ExactlyOne == ASSUME NEW n \in Nat, n # 0, n <= 1 PROVE n = 1
OBVIOUS

LEMMA SubmitKeeps == ASSUME RecordsInv, Submit, UNCHANGED <<phase, hears>> PROVE RecordsInv'
<1> USE DEF RecordsInv
<1>1. CommandRecordsTypeOK'
  BY RecordTypes DEF CommandRecordsNext, CommandRecordsGoOn
<1>2. /\ UNCHANGED <<sent, tracked, commandId, heard, noted, waiting, held, taken, stream, closing, captured>>
      /\ submitting # <<>> /\ submitting' = <<>> /\ Len(submitting') = 0
  BY EmptySeq DEF Submit, records, writeQueue, hold, flushing
<1>3. Len(submitting) = 1
  <2>1. Len(submitting) \in Nat /\ Len(submitting) # 0
    BY <1>2, EmptySeq, LenProperties DEF CommandRecordsTypeOK
  <2>2. Len(submitting) <= 1
    BY DEF ClosingInv
  <2> QED BY <2>1, <2>2, ExactlyOne, Zenon
<1>4. ClosingInv'
  BY <1>2 DEF ClosingInv
<1>5. LinkInv'
  BY <1>2 DEF LinkInv
<1>6. RowInv'
  BY <1>2 DEF RowInv, OnTheWay
<1>7. \A c \in Replies : Known(c)' <=> Known(c)
  BY <1>2 DEF Known
<1>8. Overtaken' <=> Overtaken
  BY <1>2 DEF Overtaken
<1>9. CASE worker' = worker \o submitting /\ UNCHANGED missed
  <2>1. Len(worker) \in Nat /\ Len(worker') = Len(worker) + 1
    <3>1. worker \in Seq(Updates) /\ submitting \in Seq(Updates)
      BY DEF CommandRecordsTypeOK
    <3>2. Len(worker') = Len(worker) + Len(submitting) /\ Len(worker) \in Nat
      BY <1>9, <3>1, ConcatProperties, LenProperties
    <3> QED BY <1>3, <3>2
  <2>2. \A i \in 1..Len(worker) : worker'[i] = worker[i]
    BY <1>9, <2>1, ConcatProperties DEF CommandRecordsTypeOK
  <2>3. worker'[Len(worker) + 1] = submitting[1]
    BY <1>3, <1>9, <2>1, ConcatProperties DEF CommandRecordsTypeOK
  <2>4. \A i \in 1..Len(worker') : i \in 1..Len(worker) \/ i = Len(worker) + 1
    BY <2>1
  <2>5. UpdateInv'
    <3>1. \A i \in 1..Len(worker') : Known(worker[i].command)'
      BY <1>3, <1>7, <2>2, <2>3, <2>4, UpdatesOnTheWay DEF UpdateInv
    <3>2. ASSUME NEW r \in Replies, NEW c \in commandId[r], NEW i \in 1..Len(worker'), worker'[i].command = c
          PROVE  \/ Overtaken' \/ worker'[i].count = heard[r]
                 \/ \E j \in i + 1..Len(worker') : IsUpdate(worker'[j], c, heard[r])
      <4>1. CASE i = Len(worker) + 1
        BY <1>3, <1>8, <2>3, <3>2, <4>1 DEF UpdateInv
      <4>2. CASE i \in 1..Len(worker)
        <5>1. \/ Overtaken \/ worker[i].count = heard[r]
              \/ \E j \in i + 1..Len(worker) : IsUpdate(worker[j], c, heard[r])
              \/ \E j \in 1..Len(submitting) : IsUpdate(submitting[j], c, heard[r])
          BY <2>2, <3>2, <4>2 DEF UpdateInv
        <5>2. ASSUME NEW j \in i + 1..Len(worker), IsUpdate(worker[j], c, heard[r])
              PROVE  \E k \in i + 1..Len(worker') : IsUpdate(worker'[k], c, heard[r])
          BY <2>1, <2>2, <4>2, <5>2
        <5>3. ASSUME NEW j \in 1..Len(submitting), IsUpdate(submitting[j], c, heard[r])
              PROVE  \E k \in i + 1..Len(worker') : IsUpdate(worker'[k], c, heard[r])
          <6>1. j = 1
            BY <1>3
          <6> QED BY <2>1, <2>3, <4>2, <5>3, <6>1
        <5> QED BY <1>8, <2>2, <4>2, <5>1, <5>2, <5>3
      <4> QED BY <2>4, <4>1, <4>2
    <3> QED BY <1>2, <3>1, <3>2 DEF UpdateInv
  <2>6. ShownInv'
    <3>1. ASSUME NEW r \in Replies, NEW c \in commandId[r], Shown(c)' < heard[r] PROVE Excused(c, heard[r])'
      <4>1. \/ c \in missed \/ Overtaken
            \/ \E i \in 1..Len(worker) : IsUpdate(worker[i], c, heard[r])
            \/ \E i \in 1..Len(submitting) : IsUpdate(submitting[i], c, heard[r])
        BY <1>2, <3>1 DEF ShownInv, Shown, Excused
      <4>2. ASSUME NEW i \in 1..Len(worker), IsUpdate(worker[i], c, heard[r])
            PROVE  \E k \in 1..Len(worker') : IsUpdate(worker'[k], c, heard[r])
        BY <2>1, <2>2, <4>2
      <4>3. ASSUME NEW i \in 1..Len(submitting), IsUpdate(submitting[i], c, heard[r])
            PROVE  \E k \in 1..Len(worker') : IsUpdate(worker'[k], c, heard[r])
        <5>1. i = 1
          BY <1>3
        <5> QED BY <2>1, <2>3, <4>3, <5>1
      <4> QED BY <1>2, <1>8, <1>9, <4>1, <4>2, <4>3 DEF Excused
    <3> QED BY <1>2, <3>1 DEF ShownInv
  <2> QED BY <1>1, <1>4, <1>5, <1>6, <2>5, <2>6
<1>10. CASE closing /\ missed' = missed \cup {submitting[1].command} /\ UNCHANGED worker
  <2>1. hears
    BY <1>2 DEF ClosingInv
  <2>2. Overtaken
    BY <1>10, <2>1 DEF Overtaken
  <2>3. UpdateInv' /\ ShownInv'
    BY <1>2, <1>7, <1>8, <1>10, <2>2, UpdatesOnTheWay DEF UpdateInv, ShownInv, Excused
  <2> QED BY <1>1, <1>4, <1>5, <1>6, <2>3
<1> QED BY <1>9, <1>10 DEF Submit

LEMMA WorkKeeps == ASSUME RecordsInv, Work, UNCHANGED <<phase, hears>> PROVE RecordsInv'
<1> USE DEF RecordsInv
<1> DEFINE u == Head(worker)
<1>1. CommandRecordsTypeOK'
  BY RecordTypes DEF CommandRecordsNext, CommandRecordsGoOn
<1>2. /\ UNCHANGED <<sent, tracked, commandId, heard, noted, waiting, held, taken, submitting, closing, captured>>
      /\ worker # <<>> /\ worker' = Tail(worker) /\ Update(u.command, u.count)
  BY DEF Work, records, writeQueue, hold, flushing
<1>3. /\ Len(worker) \in Nat \ {0} /\ Len(worker') = Len(worker) - 1 /\ u = worker[1]
      /\ \A i \in 1..Len(worker') : worker'[i] = worker[i + 1]
  BY <1>2, HeadTailProperties, EmptySeq, LenProperties DEF CommandRecordsTypeOK
<1>4. u.command \in Replies /\ u.count \in Nat /\ u.count # NotStored
  BY <1>3, UpdatesOnTheWay DEF NotStored
<1>5. /\ \A c \in Replies \ {u.command} : stream'[c] = stream[c] /\ (c \in missed => c \in missed')
      /\ \/ stream[u.command] # NotStored /\ stream'[u.command] = u.count
         \/ u.command \in missed' /\ stream' = stream
  BY <1>2, <1>4 DEF Update, CommandRecordsTypeOK
<1>6. ClosingInv'
  BY <1>2 DEF ClosingInv
<1>7. LinkInv'
  BY <1>2 DEF LinkInv
<1>8. RowInv'
  BY <1>2, <1>4, <1>5 DEF RowInv, OnTheWay
<1>9. \A c \in Replies : Known(c)' <=> Known(c)
  BY <1>2 DEF Known
<1>10. Overtaken' <=> Overtaken
  BY <1>2 DEF Overtaken
<1>11. ASSUME NEW i \in 1..Len(worker), NEW c, NEW n, IsUpdate(worker[i], c, n), NEW k \in 0..i - 1, k > 0
       PROVE  \E j \in k..Len(worker') : IsUpdate(worker'[j], c, n)
  <2>1. i - 1 \in k..Len(worker') /\ i - 1 \in 1..Len(worker') /\ (i - 1) + 1 = i
    BY <1>3, <1>11
  <2> QED BY <1>3, <1>11, <2>1
<1>12. UpdateInv'
  <2>1. \A i \in 1..Len(worker') : Known(worker[i].command)'
    <3> SUFFICES ASSUME NEW i \in 1..Len(worker') PROVE Known(worker[i].command)'
      OBVIOUS
    <3>1. i + 1 \in 1..Len(worker) /\ worker'[i] = worker[i + 1]
      BY <1>3
    <3>2. worker[i + 1].command \in Replies /\ Known(worker[i + 1].command)
      BY <3>1, UpdatesOnTheWay DEF UpdateInv
    <3> QED BY <1>9, <3>1, <3>2
  <2>2. \A i \in 1..Len(submitting) : Known(submitting[i].command)'
    BY <1>2, <1>9, UpdatesOnTheWay DEF UpdateInv
  <2>3. ASSUME NEW r \in Replies, NEW c \in commandId[r], NEW i \in 1..Len(worker'), worker'[i].command = c
        PROVE  \/ Overtaken \/ worker'[i].count = heard[r]
               \/ \E j \in i + 1..Len(worker') : IsUpdate(worker'[j], c, heard[r])
               \/ \E j \in 1..Len(submitting) : IsUpdate(submitting[j], c, heard[r])
    <3>1. i + 1 \in 1..Len(worker) /\ worker'[i] = worker[i + 1]
      BY <1>3
    <3>2. \/ Overtaken \/ worker'[i].count = heard[r]
          \/ \E j \in (i + 1) + 1..Len(worker) : IsUpdate(worker[j], c, heard[r])
          \/ \E j \in 1..Len(submitting) : IsUpdate(submitting[j], c, heard[r])
      BY <2>3, <3>1 DEF UpdateInv
    <3>3. ASSUME NEW j \in (i + 1) + 1..Len(worker), IsUpdate(worker[j], c, heard[r])
          PROVE  \E k \in i + 1..Len(worker') : IsUpdate(worker'[k], c, heard[r])
      <4>1. j \in 1..Len(worker) /\ i + 1 \in 0..j - 1 /\ i + 1 > 0
        BY <3>1
      <4> QED BY <1>11, <3>3, <4>1
    <3> QED BY <3>2, <3>3
  <2> QED BY <1>2, <1>10, <2>1, <2>2, <2>3 DEF UpdateInv
<1>13. ShownInv'
  <2>1. ASSUME NEW r \in Replies, NEW c \in commandId[r], Shown(c)' < heard[r] PROVE Excused(c, heard[r])'
    <3>1. c \in Replies /\ heard[r] \in Nat
      BY DEF CommandRecordsTypeOK
    <3>2. CASE c = u.command
      <4>1. CASE u.command \in missed'
        BY <3>2, <4>1 DEF Excused
      <4>2. CASE stream'[u.command] = u.count
        <5>1. worker[1].command = c /\ worker[1].count # heard[r]
          BY <1>3, <1>4, <2>1, <3>1, <3>2, <4>2 DEF Shown
        <5>2. \/ Overtaken
              \/ \E j \in 1 + 1..Len(worker) : IsUpdate(worker[j], c, heard[r])
              \/ \E j \in 1..Len(submitting) : IsUpdate(submitting[j], c, heard[r])
          <6>1. 1 \in 1..Len(worker)
            BY <1>3
          <6> QED BY <5>1, <6>1 DEF UpdateInv
        <5>3. ASSUME NEW j \in 1 + 1..Len(worker), IsUpdate(worker[j], c, heard[r])
              PROVE  \E k \in 1..Len(worker') : IsUpdate(worker'[k], c, heard[r])
          <6>1. j \in 1..Len(worker) /\ 1 \in 0..j - 1 /\ 1 > 0
            BY <1>3
          <6> QED BY <1>11, <5>3, <6>1
        <5> QED BY <1>2, <1>10, <5>2, <5>3 DEF Excused
      <4> QED BY <1>5, <4>1, <4>2
    <3>3. CASE c # u.command
      <4>1. Excused(c, heard[r])
        BY <1>2, <1>5, <2>1, <3>1, <3>3 DEF ShownInv, Shown
      <4>2. ASSUME NEW j \in 1..Len(worker), IsUpdate(worker[j], c, heard[r])
            PROVE  \E k \in 1..Len(worker') : IsUpdate(worker'[k], c, heard[r])
        <5>1. j # 1
          BY <1>3, <3>3, <4>2 DEF IsUpdate
        <5>2. 1 \in 0..j - 1 /\ 1 > 0
          BY <1>3, <5>1
        <5> QED BY <1>11, <4>2, <5>2
      <4> QED BY <1>2, <1>5, <1>10, <3>1, <3>3, <4>1, <4>2 DEF Excused
    <3> QED BY <3>2, <3>3
  <2> QED BY <1>2, <2>1 DEF ShownInv
<1> QED BY <1>1, <1>6, <1>7, <1>8, <1>12, <1>13

(* The tracker is closed while packets arrive, or when none does.           *)
LEMMA CloseKeeps ==
  ASSUME RecordsInv, CloseTracker, phase = "closing", UNCHANGED <<phase, hears>>
  PROVE  RecordsInv'
<1> USE DEF RecordsInv, records, writeQueue, hold, flushing, recordHistory
<1>1. CommandRecordsTypeOK'
  BY RecordTypes DEF CommandRecordsNext
<1>2. /\ UNCHANGED <<records, noted, writeQueue, hold, flushing, stream, submitting, worker, recordHistory>>
      /\ Overtaken => Overtaken'
  BY DEF CloseTracker, Overtaken
<1>3. ClosingInv'
  BY <1>2 DEF ClosingInv
<1>4. LinkInv' /\ RowInv'
  BY <1>2 DEF LinkInv, RowInv, OnTheWay
<1>5. UpdateInv'
  BY <1>2 DEF UpdateInv, Known, IsUpdate
<1>6. ShownInv'
  BY <1>2 DEF ShownInv, Shown, Excused, IsUpdate
<1> QED BY <1>1, <1>3, <1>4, <1>5, <1>6

(* The radio is disconnected when no update is being made, and before the   *)
(* tracker is closed.                                                       *)
LEMMA PhaseKeeps ==
  ASSUME RecordsInv, UNCHANGED commandRecordsVars, NextPhase,
         hears' = hears \/ (phase = "disconnecting" /\ hears' \in BOOLEAN /\ LoopIdle)
  PROVE  RecordsInv'
<1> USE DEF RecordsInv, commandRecordsVars, records, writeQueue, hold, flushing, executor, recordHistory
<1>1. CommandRecordsTypeOK'
  BY RecordTypes
<1>2. ClosingInv'
  BY PhaseGoesOn DEF ClosingInv, LoopIdle
<1>3. Overtaken' <=> Overtaken
  BY DEF Overtaken, ClosingInv
<1>4. LinkInv' /\ RowInv'
  BY DEF LinkInv, RowInv, OnTheWay
<1>5. UpdateInv'
  BY <1>3 DEF UpdateInv, Known, IsUpdate
<1>6. ShownInv'
  BY <1>3 DEF ShownInv, Shown, Excused, IsUpdate
<1> QED BY <1>1, <1>2, <1>4, <1>5, <1>6

LEMMA RecordsStep == ASSUME RecordsInv, [BotNext]_botVars PROVE RecordsInv'
<1>1. CASE UNCHANGED <<phase, hears>> /\ UNCHANGED commandRecordsVars
  <2>1. CommandRecordsTypeOK'
    BY <1>1, RecordTypes DEF RecordsInv
  <2>2. ClosingInv' /\ LinkInv' /\ UpdateInv'
    BY <1>1, RecordsFrame DEF commandRecordsVars, executor, recordHistory
  <2>3. RowInv' /\ ShownInv'
    BY <1>1 DEF RecordsInv, RowInv, OnTheWay, ShownInv, Shown, Excused, Overtaken, IsUpdate, commandRecordsVars,
                records, writeQueue, hold, flushing, executor, recordHistory
  <2> QED BY <2>1, <2>2, <2>3 DEF RecordsInv
<1>2. CASE UNCHANGED <<phase, hears>> /\ CommandRecordsTasks
  BY <1>2, TransmitKeeps, CaptureKeeps DEF CommandRecordsTasks
<1>3. CASE UNCHANGED <<phase, hears>> /\ CommandRecordsGoOn
  BY <1>3, HeldKeeps, StartFlushKeeps, FlushKeeps, SubmitKeeps, WorkKeeps DEF CommandRecordsGoOn
<1>4. CASE UNCHANGED <<phase, hears>> /\ hears /\ PacketArrives
  BY <1>4, CapturePacketKeeps, HearKeeps DEF PacketArrives
<1>5. CASE UNCHANGED <<phase, hears>> /\ phase = "closing" /\ CloseTracker
  BY <1>5, CloseKeeps
<1>6. CASE /\ UNCHANGED commandRecordsVars /\ NextPhase
           /\ hears' = hears \/ (phase = "disconnecting" /\ hears' \in BOOLEAN /\ LoopIdle)
  BY <1>6, PhaseKeeps
<1> QED BY <1>1, <1>2, <1>3, <1>4, <1>5, <1>6, StepOfRecords

LEMMA RecordsInvariant == BotSpec => []RecordsInv
<1>1. BotInit => RecordsInv
  BY RecordsInitially
<1>2. RecordsInv /\ [BotNext]_botVars => RecordsInv'
  BY RecordsStep
<1> QED BY <1>1, <1>2, PTL DEF BotSpec

(* A stored row that is behind the repeats its record has counted has the   *)
(* update with their number on the way, or an update of it was lost, or it  *)
(* is overtaken by a later packet while the tracker is closed: neither the  *)
(* order of link, capture and flush nor the stop loses one silently         *)
(* (transmission_tracker.py: record_repeat() and close(), core.py: stop()). *)
THEOREM RepeatsAreAlwaysStored == BotSpec => []RepeatsAreStored
<1>1. RecordsInv => RepeatsAreStored
  <2> SUFFICES ASSUME RecordsInv, NEW r \in Replies, NEW c \in commandId[r], stream[c] # NotStored, stream[c] < heard[r]
               PROVE  \/ c \in missed \/ (closing /\ hears)
                      \/ \E u \in {worker[i] : i \in 1..Len(worker)} \cup {submitting[i] : i \in 1..Len(submitting)} :
                           u.command = c /\ u.count = heard[r]
    BY DEF RepeatsAreStored
  <2>1. Excused(c, heard[r])
    BY DEF RecordsInv, ShownInv, Shown
  <2> QED BY <2>1 DEF Excused, Overtaken, IsUpdate
<1> QED BY <1>1, RecordsInvariant, PTL

-----------------------------------------------------------------------------
(* The whole bot.                                                           *)

(* The parts in use are chosen at the start and stay.                       *)
LEMMA FeaturesStay == [BotNext]_botVars => UNCHANGED features
<1> SUFFICES ASSUME BotNext PROVE UNCHANGED features
  BY DEF botVars, lifecycle
<1> USE DEF StepOf, TaskOf, lifecycle
<1>1. ASSUME CommandStep \/ TimeStep \/ GraphObserves \/ GraphGoesOn \/ ReplyStep \/ RecordStep
             \/ SuperviseStep \/ ServiceStep \/ ViewerChecked \/ ViewerStep
      PROVE  UNCHANGED features
  BY <1>1 DEF CommandStep, TimeStep, GraphObserves, GraphGoesOn, ReplyStep, RecordStep, SuperviseStep, ServiceStep,
              ViewerChecked, ViewerStep
<1>2. ASSUME MessageStep \/ AirStep \/ WarningStep \/ Restart PROVE UNCHANGED features
  BY <1>2 DEF MessageStep, MessageHandled, AirStep, WarningStep, Restart
<1>3. ASSUME Stop PROVE UNCHANGED features
  BY <1>3 DEF Stop, StopBegins, StopGraph, StopService, StopViewer, Disconnect, StopTracker, LoopEnds, ExitGraph,
              ExitViewer, Exit
<1> QED BY <1>1, <1>2, <1>3 DEF BotNext

(* Type correctness of the whole bot, whichever parts are composed.         *)
THEOREM BotTypeCorrect == BotSpec => []BotTypeOK
<1>1. BotInit => features \in Configurations
  BY DEF BotInit
<1>2. features \in Configurations /\ [BotNext]_botVars => (features \in Configurations)'
  BY FeaturesStay
<1>3. features \in Configurations /\ GraphInv /\ CommandInv /\ RecordsInv /\ ServiceInv /\ ViewerInv /\ MessagesInv /\ WarningsInv
        => BotTypeOK
  <2>1. GraphInv => MeshGraphTypeOK
    BY DEF GraphInv
  <2>2. CommandInv => CommandQueueTypeOK
    BY DEF CommandInv
  <2>3. RecordsInv => CommandRecordsTypeOK /\ phase \in Phases /\ hears \in BOOLEAN
    BY DEF RecordsInv, ClosingInv
  <2>4. (ServiceInv => ServiceTypeOK) /\ (ViewerInv => ViewerTypeOK)
    BY DEF ServiceInv, ViewerInv
  <2>5. (MessagesInv => ChannelMessagesTypeOK) /\ (WarningsInv => RegionWarningsTypeOK)
    BY DEF MessagesInv, LogInv, WarningsInv
  <2> QED BY <2>1, <2>2, <2>3, <2>4, <2>5 DEF BotTypeOK
<1> QED BY <1>1, <1>2, <1>3, GraphInvariant, CommandInvariant, RecordsInvariant, ServiceInvariant, ViewerInvariant,
           MessagesInvariant, WarningsInvariant, PTL DEF BotSpec

================================================================================

------------------------------- MODULE MeshGraph -------------------------------
(***************************************************************************)
(* The mesh graph and its rows in the database (modules/mesh_graph.py).     *)
(*                                                                         *)
(* Observations of a link between two nodes arrive on the event loop and    *)
(* count in memory. A link is known by the one-byte prefixes of its nodes   *)
(* ("coarse") or by longer ones ("fine"); a fine observation promotes the   *)
(* coarse edge. Under the strategies batched and hybrid the changed edges   *)
(* are pending until a flush, by a thread of its own or by the loop when    *)
(* too many are pending, writes them in one transaction.                    *)
(***************************************************************************)
EXTENDS Integers, FiniteSets

CONSTANTS
  Links,             (* links between nodes, with distinct prefixes          *)
  BatchMax,          (* graph_batch_max_pending                             *)
  MaxObservations,   (* bound on observations                               *)
  MaxGraphFaults     (* bound on writes that fail                           *)

ASSUME MeshGraphAssumption ==
  /\ IsFiniteSet(Links) /\ BatchMax \in Nat \ {0}
  /\ MaxObservations \in Nat /\ MaxGraphFaults \in Nat

Edges == Links \X {"coarse", "fine"}
Coarse(l) == <<l, "coarse">>
Fine(l) == <<l, "fine">>

Strategies == {"immediate", "batched", "hybrid"}
Flushers == {"loop", "writer"}

VARIABLES
  strategy,    (* graph_write_strategy, which never changes                 *)
  count,       (* observation_count of the edges in memory, 0 = no edge      *)
  row,         (* observation_count of the rows, 0 = no row                  *)
  pending,     (* pending_updates                                           *)
  stage,       (* per flusher: "idle", "taken" or "built"                   *)
  updates,     (* per flusher: the edges of its flush                       *)
  params,      (* per flusher: the counts it will write                     *)
  promoting,   (* coarse edge the loop replaces by the fine one, if any      *)
  merged,      (* its count                                                 *)
  deleted,     (* whether its row has been dealt with                       *)
  writer,      (* batch thread: "waiting", "flushing", "pruning" or "ended"  *)
  resized,     (* whether edges came or went while the thread prunes         *)
  graphClosed, (* _shutdown_event                                           *)
  unsaved,     (* history: edges whose direct write failed                  *)
  pruned,      (* history: edges evicted from memory, or not loaded          *)
  revived,     (* history: rows that survived or outran their promotion      *)
  observations, graphFaults

memory == <<count, promoting, merged, deleted>>
flushes == <<stage, updates, params>>
writerVars == <<writer, resized>>
graphHistory == <<unsaved, pruned, revived>>
graphBounds == <<observations, graphFaults>>
meshGraphVars == <<strategy, memory, row, pending, flushes, writerVars, graphClosed, graphHistory, graphBounds>>

MeshGraphTypeOK ==
  /\ strategy \in Strategies
  /\ count \in [Edges -> Nat] /\ row \in [Edges -> Nat]
  /\ pending \subseteq Edges
  /\ stage \in [Flushers -> {"idle", "taken", "built"}]
  /\ updates \in [Flushers -> SUBSET Edges] /\ params \in [Flushers -> [Edges -> Nat]]
  /\ promoting \subseteq Edges /\ merged \in Nat /\ deleted \in BOOLEAN
  /\ writer \in {"waiting", "flushing", "pruning", "ended"} /\ resized \in BOOLEAN
  /\ graphClosed \in BOOLEAN
  /\ unsaved \subseteq Edges /\ pruned \subseteq Edges /\ revived \subseteq Edges
  /\ observations \in 0..MaxObservations /\ graphFaults \in 0..MaxGraphFaults

Nothing == [e \in Edges |-> 0]

(* _load_from_database(): the rows of an earlier run, which may know a link *)
(* twice, as far as they are recent.                                        *)
MeshGraphInit ==
  /\ strategy \in Strategies
  /\ row \in [Edges -> {0, 1}] /\ count \in [Edges -> {0, 1}]
  /\ \A e \in Edges : count[e] <= row[e]
  /\ pruned = {e \in Edges : count[e] < row[e]}
  /\ pending = {}
  /\ stage = [f \in Flushers |-> "idle"] /\ updates = [f \in Flushers |-> {}]
  /\ params = [f \in Flushers |-> Nothing]
  /\ promoting = {} /\ merged = 0 /\ deleted = FALSE
  /\ writer = IF strategy = "immediate" THEN "ended" ELSE "waiting"
  /\ resized = FALSE /\ graphClosed = FALSE
  /\ unsaved = {} /\ revived = {}
  /\ observations = 0 /\ graphFaults = 0

Larger(a, b) == IF a > b THEN a ELSE b

GraphFault == graphFaults < MaxGraphFaults /\ graphFaults' = graphFaults + 1

(* The loop's thread is free: it runs one handler or one flush at a time.   *)
GraphLoopFree == promoting = {} /\ stage["loop"] = "idle"

-----------------------------------------------------------------------------
(* A flush: _flush_pending_updates_sync().                                  *)

Take(f) ==
  /\ stage[f] = "idle" /\ pending # {}
  /\ stage' = [stage EXCEPT ![f] = "taken"]
  /\ updates' = [updates EXCEPT ![f] = pending] /\ pending' = {}
  /\ UNCHANGED params

(* Edges that have gone from memory are left out.                           *)
BuildParams(f) ==
  /\ stage[f] = "taken"
  /\ stage' = [stage EXCEPT ![f] = "built"]
  /\ params' = [params EXCEPT ![f] = [e \in Edges |-> IF e \in updates[f] THEN count[e] ELSE 0]]
  /\ UNCHANGED <<strategy, memory, row, pending, updates, writerVars, graphClosed, graphHistory, graphBounds>>

(* The flush is never over.                                                 *)
EndFlush_Holds(f) ==
  /\ updates' = [updates EXCEPT ![f] = {}]
  /\ params' = [params EXCEPT ![f] = Nothing]
  /\ UNCHANGED <<stage, writer, resized>>

EndFlush(f) ==
  /\ stage' = [stage EXCEPT ![f] = "idle"]
  /\ updates' = [updates EXCEPT ![f] = {}]
  /\ params' = [params EXCEPT ![f] = Nothing]
  /\ writer' = IF f = "writer" THEN "pruning" ELSE writer
  /\ resized' = IF f = "writer" THEN FALSE ELSE resized

(* The upserts are one transaction and keep the larger count.               *)
CommitFlush(f) ==
  /\ stage[f] = "built"
  /\ row' = [e \in Edges |-> Larger(row[e], params[f][e])]
  /\ EndFlush(f)
  /\ UNCHANGED <<strategy, memory, pending, graphClosed, graphHistory, graphBounds>>

FailFlush_Forgets(f) ==
  /\ stage[f] # "idle" /\ GraphFault
  /\ EndFlush(f)
  /\ UNCHANGED <<strategy, memory, row, pending, graphClosed, graphHistory, observations>>

(* The transaction fails, or the connection before it.                      *)
FailFlush(f) ==
  /\ stage[f] # "idle" /\ GraphFault
  /\ pending' = pending \cup updates[f]
  /\ EndFlush(f)
  /\ UNCHANGED <<strategy, memory, row, graphClosed, graphHistory, observations>>

-----------------------------------------------------------------------------
(* The event loop: add_edge().                                              *)

(* _persist_and_notify_edge(): written at once, or pending until a flush,   *)
(* which the loop makes itself when too many are pending. A write that      *)
(* fails is only logged.                                                    *)
WriteEdge(e, n, rest) ==
  /\ pending' = rest /\ UNCHANGED flushes
  /\ \/ /\ row' = [row EXCEPT ![e] = Larger(@, n)] /\ unsaved' = unsaved \ {e}
        /\ UNCHANGED graphFaults
     \/ GraphFault /\ unsaved' = unsaved \cup {e} /\ UNCHANGED row

MakePending(e, rest) ==
  /\ IF Cardinality(rest \cup {e}) >= BatchMax
       THEN /\ pending' = {} /\ stage' = [stage EXCEPT !["loop"] = "taken"]
            /\ updates' = [updates EXCEPT !["loop"] = rest \cup {e}]
       ELSE pending' = rest \cup {e} /\ UNCHANGED <<stage, updates>>
  /\ unsaved' = unsaved \ {e}
  /\ UNCHANGED <<params, row, graphFaults>>

Persist(e, n, isNew, rest) ==
  IF strategy = "immediate" \/ (strategy = "hybrid" /\ isNew)
    THEN WriteEdge(e, n, rest)
    ELSE MakePending(e, rest)

Resize(changed) == resized' = (resized \/ (changed /\ writer = "pruning"))

(* The edge an observation at a resolution counts for: the only one the     *)
(* link has, or the exact one.                                              *)
Target(l, seen) ==
  LET other == <<l, IF seen = "coarse" THEN "fine" ELSE "coarse">> IN
  IF count[<<l, seen>>] = 0 /\ count[other] > 0 THEN other ELSE <<l, seen>>

Observed == observations < MaxObservations /\ observations' = observations + 1

(* A fine observation of a coarse edge of which no public key is known      *)
(* counts for the coarse edge too.                                          *)
AddEdge(l, seen) ==
  LET e == Target(l, seen)
      isNew == count[e] = 0
  IN
  /\ GraphLoopFree /\ Observed
  /\ count' = [count EXCEPT ![e] = @ + 1]
  /\ Resize(isNew)
  /\ pruned' = pruned \ {e} /\ revived' = revived \ {e}
  /\ Persist(e, count[e] + 1, isNew, pending)
  /\ UNCHANGED <<strategy, promoting, merged, deleted, writer, graphClosed>>

(* Promotion: the coarse edge leaves the memory, its row is deleted, and    *)
(* the fine edge takes over its count.                                      *)
PromoteRemove(l) ==
  LET e == Coarse(l) IN
  /\ GraphLoopFree /\ Target(l, "fine") = e /\ Observed
  /\ promoting' = {e} /\ merged' = count[e] + 1 /\ deleted' = FALSE
  /\ count' = [count EXCEPT ![e] = 0]
  /\ Resize(TRUE)
  /\ UNCHANGED <<strategy, row, pending, flushes, writer, graphClosed, graphHistory, graphFaults>>

BuiltWith(e) == \E f \in Flushers : params[f][e] > 0

PromoteDelete_MemoryOnly(e) ==
  /\ e \in promoting /\ ~deleted /\ deleted' = TRUE
  /\ UNCHANGED <<strategy, count, promoting, merged, row, pending, flushes, writerVars, graphClosed, graphHistory, graphBounds>>

(* The delete may fail, which execute_update() only logs; and a flush may   *)
(* hold the edge already, and write its row again.                          *)
PromoteDelete(e) ==
  /\ e \in promoting /\ ~deleted /\ deleted' = TRUE
  /\ \/ /\ row' = [row EXCEPT ![e] = 0]
        /\ revived' = IF BuiltWith(e) THEN revived \cup {e} ELSE revived
        /\ UNCHANGED graphFaults
     \/ GraphFault /\ revived' = revived \cup {e} /\ UNCHANGED row
  /\ UNCHANGED <<strategy, count, promoting, merged, pending, flushes, writerVars, graphClosed, unsaved, pruned, observations>>

PromoteAdd(l) ==
  LET e == Fine(l) IN
  /\ promoting = {Coarse(l)} /\ deleted
  /\ promoting' = {} /\ merged' = 0 /\ deleted' = FALSE
  /\ count' = [count EXCEPT ![e] = merged] /\ Resize(TRUE)
  /\ pruned' = pruned \ {e} /\ revived' = revived \ {e}
  /\ Persist(e, merged, TRUE, pending \ promoting)
  /\ UNCHANGED <<strategy, writer, graphClosed, observations>>

-----------------------------------------------------------------------------
(* The batch thread: every graph_batch_interval_seconds a flush, then       *)
(* prune_expired_edges().                                                   *)

(* It flushes only what would be flushed anyway.                            *)
WriterWakes_WhenFull ==
  /\ writer = "waiting" /\ ~graphClosed
  /\ \/ Cardinality(pending) >= BatchMax /\ Take("writer") /\ writer' = "flushing" /\ UNCHANGED resized
     \/ /\ Cardinality(pending) < BatchMax /\ writer' = "pruning" /\ resized' = FALSE
        /\ UNCHANGED <<pending, flushes>>
  /\ UNCHANGED <<strategy, memory, row, graphClosed, graphHistory, graphBounds>>

WriterWakes ==
  /\ writer = "waiting" /\ ~graphClosed
  /\ \/ Take("writer") /\ writer' = "flushing" /\ UNCHANGED resized
     \/ /\ pending = {} /\ writer' = "pruning" /\ resized' = FALSE
        /\ UNCHANGED <<pending, flushes>>
  /\ UNCHANGED <<strategy, memory, row, graphClosed, graphHistory, graphBounds>>

(* Any edge may have expired. If edges come or go meanwhile, the iteration  *)
(* over them or the removal may raise, which nothing in the thread catches. *)
WriterPrunes ==
  /\ writer = "pruning"
  /\ \/ /\ \E expired \in SUBSET {e \in Edges : count[e] > 0} :
             /\ count' = [e \in Edges |-> IF e \in expired THEN 0 ELSE count[e]]
             /\ pruned' = pruned \cup expired
        /\ writer' = "waiting"
     \/ resized /\ writer' = "ended" /\ UNCHANGED <<count, pruned>>
  /\ UNCHANGED <<strategy, promoting, merged, deleted, row, pending, flushes, resized, graphClosed, unsaved, revived, graphBounds>>

WriterEnds ==
  /\ writer = "waiting" /\ graphClosed /\ writer' = "ended"
  /\ UNCHANGED <<strategy, memory, row, pending, flushes, resized, graphClosed, graphHistory, graphBounds>>

GraphShutdown_NoFlush ==
  /\ GraphLoopFree /\ graphClosed' = TRUE
  /\ UNCHANGED <<strategy, memory, row, pending, flushes, writerVars, graphHistory, graphBounds>>

(* shutdown(), called on the loop's thread: the thread is told to end but   *)
(* not waited for, and what is pending is flushed.                          *)
GraphShutdown ==
  /\ GraphLoopFree /\ graphClosed' = TRUE
  /\ IF pending = {} THEN UNCHANGED <<pending, flushes>> ELSE Take("loop")
  /\ UNCHANGED <<strategy, memory, row, writerVars, graphHistory, graphBounds>>

LinkObserved == \E l \in Links :
  PromoteRemove(l) \/ \E seen \in {"coarse", "fine"} : AddEdge(l, seen)

MeshGraphGoesOn ==
  \/ \E l \in Links : PromoteDelete(Coarse(l)) \/ PromoteAdd(l)
  \/ \E f \in Flushers : BuildParams(f) \/ CommitFlush(f) \/ FailFlush(f)
  \/ WriterWakes \/ WriterPrunes \/ WriterEnds

MeshGraphNext == LinkObserved \/ MeshGraphGoesOn \/ GraphShutdown

-----------------------------------------------------------------------------
(* A flush that has not ended will write the edge as it is now.             *)
InFlush(e) == \E f \in Flushers :
  e \in updates[f] /\ (stage[f] = "taken" \/ (stage[f] = "built" /\ params[f][e] >= count[e]))

(* Observations in memory that the database does not have are pending, or   *)
(* on their way, or a write of their edge failed under a strategy that      *)
(* writes it directly (mesh_graph.py:1031 "A failed transaction must not    *)
(* silently lose the newest in-memory observation counts").                 *)
DirtyIsTracked ==
  \A e \in Edges : count[e] > row[e] => e \in pending \/ InFlush(e) \/ e \in unsaved

(* A row without an edge in memory has expired there, or is that of a       *)
(* promotion whose delete failed or was outrun by a flush (mesh_graph.py:   *)
(* "Promote: remove old edge, add new at higher resolution").               *)
GhostRowsAreExcused ==
  \A e \in Edges : row[e] > 0 /\ count[e] = 0 => e \in promoting \/ e \in pruned \cup revived

Tracked(l) == \E e \in {Coarse(l), Fine(l)} : e \in pending \/ \E f \in Flushers : e \in updates[f]

(* Pending updates of a link are written, unless the batch thread has ended *)
(* or the graph has been shut down.                                         *)
UpdatesAreWritten ==
  \A l \in Links : Tracked(l) ~> (~Tracked(l) \/ writer = "ended" \/ graphClosed)
=============================================================================

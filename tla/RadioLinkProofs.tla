--------------------------- MODULE RadioLinkProofs ----------------------------
(* Proofs about RadioLink for any set of connections, any threshold, limit  *)
(* of attempts and number of incidents, with every radio operation.         *)
EXTENDS RadioLink, TLAPS

Relinks == {"reboot", "reconnect"}

(* TypeOK in four parts, for the provers. *)
TypeFlags ==
  /\ connected \in BOOLEAN /\ banner \in BOOLEAN /\ missed \in BOOLEAN
  /\ repairing \in BOOLEAN /\ shutdown \in BOOLEAN /\ zombie \in BOOLEAN
TypeCounts ==
  /\ relinks \in Nat /\ incidents \in Nat
  /\ fails \in 0..Threshold - 1 /\ attempts \in 0..MaxRetries
TypeTasks ==
  /\ pc \in [Tasks -> Steps] /\ own \in [Tasks -> Conns \cup {NoConn}]
  /\ op \in Operations \cup {"none"}
TypeObjects ==
  /\ current \in Conns \cup {NoConn}
  /\ link \in [Conns -> {"up", "down", "closed"}] /\ notices \subseteq Conns
  /\ probe \in {"idle", "waiting"} /\ main \in {"running", "ended"} /\ site \in Sites
  /\ outcomes \subseteq {"stopped", "gave_up", "relink_failed"}

(* Which task can be at which step, and what the flags say of it.           *)
TaskInv ==
  /\ repairing <=> pc["repair"] # "idle"
  /\ relinks = IF op \in Relinks THEN 1 ELSE 0
  /\ op = "none" <=> pc["op"] = "idle"
  /\ op = "disconnect" <=> pc["op"] = "stopping"
  /\ pc["repair"] \notin {"stopping", "rebooting"}
  /\ pc["op"] \notin {"begin", "backoff"}

(* No task is about to remove the object of a bot that counts as connected. *)
ObjectInv ==
  /\ connected => current # NoConn
  /\ \A t \in Tasks : pc[t] = "cleanup" /\ connected => current # own[t]

(* While nothing that may end the bot has happened, a bot without link has  *)
(* a task that still has to bring one up.                                   *)
PendingInv ==
  ~shutdown /\ outcomes = {} /\ ~connected =>
    \/ pc["repair"] \in {"begin", "closing", "creating", "cleanup", "backoff"}
    \/ pc["op"] \in {"rebooting", "closing", "creating", "cleanup"}

EndInv == main = "ended" => shutdown \/ outcomes # {}

IInv == TypeFlags /\ TypeCounts /\ TypeTasks /\ TypeObjects /\ TaskInv /\ ObjectInv /\ PendingInv /\ EndInv

LEMMA InitInv == Init => IInv
<1> SUFFICES ASSUME Init PROVE IInv
  OBVIOUS
<1> USE RadioLinkAssumption DEF RadioLinkAssumption, Init, NoConn, Tasks
<1>1. TypeFlags /\ TypeCounts /\ TypeTasks /\ TypeObjects
  <2>1. TypeFlags
    BY DEF TypeFlags
  <2>2. TypeCounts
    BY DEF TypeCounts
  <2>3. TypeTasks
    BY DEF TypeTasks, Steps
  <2>4. TypeObjects
    BY DEF TypeObjects
  <2>5. QED
    BY <2>1, <2>2, <2>3, <2>4
<1>2. TaskInv
  BY DEF TaskInv, Relinks
<1>3. ObjectInv
  BY DEF ObjectInv
<1>4. PendingInv
  BY DEF PendingInv
<1>5. EndInv
  BY DEF EndInv
<1>6. QED
  BY <1>1, <1>2, <1>3, <1>4, <1>5 DEF IInv

LEMMA StepInv == IInv /\ [Next]_vars => IInv'
<1> SUFFICES ASSUME IInv, [Next]_vars PROVE IInv'
  OBVIOUS
<1> USE RadioLinkAssumption DEF RadioLinkAssumption, IInv, TypeFlags, TypeCounts, TypeTasks, TypeObjects, TaskInv, ObjectInv, PendingInv, EndInv,
      Operations, Relinks, Tasks, Steps, NoConn, radio, row, UpdateRadioConnectedMetadata, transport, health, tasks, flags, At, Goto, Incident, Quiet
<1>1. ASSUME NEW c \in Conns, Drop(c) PROVE IInv'
  <2>1. TypeFlags'
    BY <1>1 DEF Drop
  <2>2. TypeCounts'
    BY <1>1 DEF Drop
  <2>3. TypeTasks'
    BY <1>1 DEF Drop
  <2>4. TypeObjects'
    BY <1>1 DEF Drop
  <2>5. TaskInv'
    BY <1>1 DEF Drop
  <2>6. ObjectInv'
    BY <1>1 DEF Drop
  <2>7. PendingInv'
    BY <1>1 DEF Drop
  <2>8. EndInv'
    BY <1>1 DEF Drop
  <2>9. QED
    BY <2>1, <2>2, <2>3, <2>4, <2>5, <2>6, <2>7, <2>8
<1>2. ASSUME NEW c \in Conns, OnDisconnected(c) PROVE IInv'
  <2>1. TypeFlags'
    BY <1>2 DEF OnDisconnected, ScheduleTransportReconnect
  <2>2. TypeCounts'
    BY <1>2 DEF OnDisconnected, ScheduleTransportReconnect
  <2>3. TypeTasks'
    BY <1>2 DEF OnDisconnected, ScheduleTransportReconnect
  <2>4. TypeObjects'
    BY <1>2 DEF OnDisconnected, ScheduleTransportReconnect
  <2>5. TaskInv'
    BY <1>2 DEF OnDisconnected, ScheduleTransportReconnect
  <2>6. ObjectInv'
    BY <1>2 DEF OnDisconnected, ScheduleTransportReconnect
  <2>7. PendingInv'
    BY <1>2 DEF OnDisconnected, ScheduleTransportReconnect
  <2>8. EndInv'
    BY <1>2 DEF OnDisconnected, ScheduleTransportReconnect
  <2>9. QED
    BY <2>1, <2>2, <2>3, <2>4, <2>5, <2>6, <2>7, <2>8
<1>3. ASSUME PollTransport PROVE IInv'
  <2>1. TypeFlags'
    BY <1>3 DEF PollTransport, ScheduleTransportReconnect
  <2>2. TypeCounts'
    BY <1>3 DEF PollTransport, ScheduleTransportReconnect
  <2>3. TypeTasks'
    BY <1>3 DEF PollTransport, ScheduleTransportReconnect
  <2>4. TypeObjects'
    BY <1>3 DEF PollTransport, ScheduleTransportReconnect
  <2>5. TaskInv'
    BY <1>3 DEF PollTransport, ScheduleTransportReconnect
  <2>6. ObjectInv'
    BY <1>3 DEF PollTransport, ScheduleTransportReconnect
  <2>7. PendingInv'
    BY <1>3 DEF PollTransport, ScheduleTransportReconnect
  <2>8. EndInv'
    BY <1>3 DEF PollTransport, ScheduleTransportReconnect
  <2>9. QED
    BY <2>1, <2>2, <2>3, <2>4, <2>5, <2>6, <2>7, <2>8
<1>4. ASSUME RepairRound PROVE IInv'
  <2>1. TypeFlags'
    BY <1>4 DEF RepairRound, RepairOver, Attempt, AttemptsSpent
  <2>2. TypeCounts'
    BY <1>4 DEF RepairRound, RepairOver, Attempt, AttemptsSpent
  <2>3. TypeTasks'
    BY <1>4 DEF RepairRound, RepairOver, Attempt, AttemptsSpent
  <2>4. TypeObjects'
    BY <1>4 DEF RepairRound, RepairOver, Attempt, AttemptsSpent
  <2>5. TaskInv'
    BY <1>4 DEF RepairRound, RepairOver, Attempt, AttemptsSpent
  <2>6. ObjectInv'
    BY <1>4 DEF RepairRound, RepairOver, Attempt, AttemptsSpent
  <2>7. PendingInv'
    BY <1>4 DEF RepairRound, RepairOver, Attempt, AttemptsSpent
  <2>8. EndInv'
    BY <1>4 DEF RepairRound, RepairOver, Attempt, AttemptsSpent
  <2>9. QED
    BY <2>1, <2>2, <2>3, <2>4, <2>5, <2>6, <2>7, <2>8
<1>5. ASSUME RepairCloses PROVE IInv'
  <2>1. TypeFlags'
    BY <1>5 DEF RepairCloses, Disconnect
  <2>2. TypeCounts'
    BY <1>5 DEF RepairCloses, Disconnect
  <2>3. TypeTasks'
    BY <1>5 DEF RepairCloses, Disconnect
  <2>4. TypeObjects'
    BY <1>5 DEF RepairCloses, Disconnect
  <2>5. TaskInv'
    BY <1>5 DEF RepairCloses, Disconnect
  <2>6. ObjectInv'
    BY <1>5 DEF RepairCloses, Disconnect
  <2>7. PendingInv'
    BY <1>5 DEF RepairCloses, Disconnect
  <2>8. EndInv'
    BY <1>5 DEF RepairCloses, Disconnect
  <2>9. QED
    BY <2>1, <2>2, <2>3, <2>4, <2>5, <2>6, <2>7, <2>8
<1>6. ASSUME RepairRaises PROVE IInv'
  <2>1. TypeFlags'
    BY <1>6 DEF RepairRaises, RepairOver, Abandon
  <2>2. TypeCounts'
    BY <1>6 DEF RepairRaises, RepairOver, Abandon
  <2>3. TypeTasks'
    BY <1>6 DEF RepairRaises, RepairOver, Abandon
  <2>4. TypeObjects'
    BY <1>6 DEF RepairRaises, RepairOver, Abandon
  <2>5. TaskInv'
    BY <1>6 DEF RepairRaises, RepairOver, Abandon
  <2>6. ObjectInv'
    BY <1>6 DEF RepairRaises, RepairOver, Abandon
  <2>7. PendingInv'
    BY <1>6 DEF RepairRaises, RepairOver, Abandon
  <2>8. EndInv'
    BY <1>6 DEF RepairRaises, RepairOver, Abandon
  <2>9. QED
    BY <2>1, <2>2, <2>3, <2>4, <2>5, <2>6, <2>7, <2>8
<1>7. ASSUME CreateFails("repair") PROVE IInv'
  <2>1. TypeFlags'
    BY <1>7 DEF CreateFails, Abandon, ConnectReturns
  <2>2. TypeCounts'
    BY <1>7 DEF CreateFails, Abandon, ConnectReturns
  <2>3. TypeTasks'
    BY <1>7 DEF CreateFails, Abandon, ConnectReturns
  <2>4. TypeObjects'
    BY <1>7 DEF CreateFails, Abandon, ConnectReturns
  <2>5. TaskInv'
    BY <1>7 DEF CreateFails, Abandon, ConnectReturns
  <2>6. ObjectInv'
    BY <1>7 DEF CreateFails, Abandon, ConnectReturns
  <2>7. PendingInv'
    BY <1>7 DEF CreateFails, Abandon, ConnectReturns
  <2>8. EndInv'
    BY <1>7 DEF CreateFails, Abandon, ConnectReturns
  <2>9. QED
    BY <2>1, <2>2, <2>3, <2>4, <2>5, <2>6, <2>7, <2>8
<1>8. ASSUME CreateFails("op") PROVE IInv'
  <2>1. TypeFlags'
    BY <1>8 DEF CreateFails, Abandon, ConnectReturns
  <2>2. TypeCounts'
    BY <1>8 DEF CreateFails, Abandon, ConnectReturns
  <2>3. TypeTasks'
    BY <1>8 DEF CreateFails, Abandon, ConnectReturns
  <2>4. TypeObjects'
    BY <1>8 DEF CreateFails, Abandon, ConnectReturns
  <2>5. TaskInv'
    BY <1>8 DEF CreateFails, Abandon, ConnectReturns
  <2>6. ObjectInv'
    BY <1>8 DEF CreateFails, Abandon, ConnectReturns
  <2>7. PendingInv'
    BY <1>8 DEF CreateFails, Abandon, ConnectReturns
  <2>8. EndInv'
    BY <1>8 DEF CreateFails, Abandon, ConnectReturns
  <2>9. QED
    BY <2>1, <2>2, <2>3, <2>4, <2>5, <2>6, <2>7, <2>8
<1>9. ASSUME NEW t \in Tasks, CreateUnconnected(t) PROVE IInv'
  <2>1. TypeFlags'
    BY <1>9 DEF CreateUnconnected, Abandon, Fresh
  <2>2. TypeCounts'
    BY <1>9 DEF CreateUnconnected, Abandon, Fresh
  <2>3. TypeTasks'
    BY <1>9 DEF CreateUnconnected, Abandon, Fresh
  <2>4. TypeObjects'
    BY <1>9 DEF CreateUnconnected, Abandon, Fresh
  <2>5. TaskInv'
    BY <1>9 DEF CreateUnconnected, Abandon, Fresh
  <2>6. ObjectInv'
    BY <1>9 DEF CreateUnconnected, Abandon, Fresh
  <2>7. PendingInv'
    BY <1>9 DEF CreateUnconnected, Abandon, Fresh
  <2>8. EndInv'
    BY <1>9 DEF CreateUnconnected, Abandon, Fresh
  <2>9. QED
    BY <2>1, <2>2, <2>3, <2>4, <2>5, <2>6, <2>7, <2>8
<1>10. ASSUME NEW t \in Tasks, CreateConnected(t) PROVE IInv'
  <2>1. TypeFlags'
    BY <1>10 DEF CreateConnected, ClearHealth, Fresh
  <2>2. TypeCounts'
    BY <1>10 DEF CreateConnected, ClearHealth, Fresh
  <2>3. TypeTasks'
    BY <1>10 DEF CreateConnected, ClearHealth, Fresh
  <2>4. TypeObjects'
    BY <1>10 DEF CreateConnected, ClearHealth, Fresh
  <2>5. TaskInv'
    BY <1>10 DEF CreateConnected, ClearHealth, Fresh
  <2>6. ObjectInv'
    BY <1>10 DEF CreateConnected, ClearHealth, Fresh
  <2>7. PendingInv'
    BY <1>10 DEF CreateConnected, ClearHealth, Fresh
  <2>8. EndInv'
    BY <1>10 DEF CreateConnected, ClearHealth, Fresh
  <2>9. QED
    BY <2>1, <2>2, <2>3, <2>4, <2>5, <2>6, <2>7, <2>8
<1>11. ASSUME NEW t \in Tasks, SetupHandlers(t) PROVE IInv'
  <2>1. TypeFlags'
    BY <1>11 DEF SetupHandlers
  <2>2. TypeCounts'
    BY <1>11 DEF SetupHandlers
  <2>3. TypeTasks'
    BY <1>11 DEF SetupHandlers
  <2>4. TypeObjects'
    BY <1>11 DEF SetupHandlers
  <2>5. TaskInv'
    BY <1>11 DEF SetupHandlers
  <2>6. ObjectInv'
    BY <1>11 DEF SetupHandlers
  <2>7. PendingInv'
    BY <1>11 DEF SetupHandlers
  <2>8. EndInv'
    BY <1>11 DEF SetupHandlers
  <2>9. QED
    BY <2>1, <2>2, <2>3, <2>4, <2>5, <2>6, <2>7, <2>8
<1>12. ASSUME NEW t \in Tasks, SetupFails(t) PROVE IInv'
  <2>1. TypeFlags'
    BY <1>12 DEF SetupFails, Abandon
  <2>2. TypeCounts'
    BY <1>12 DEF SetupFails, Abandon
  <2>3. TypeTasks'
    BY <1>12 DEF SetupFails, Abandon
  <2>4. TypeObjects'
    BY <1>12 DEF SetupFails, Abandon
  <2>5. TaskInv'
    BY <1>12 DEF SetupFails, Abandon
  <2>6. ObjectInv'
    BY <1>12 DEF SetupFails, Abandon
  <2>7. PendingInv'
    BY <1>12 DEF SetupFails, Abandon
  <2>8. EndInv'
    BY <1>12 DEF SetupFails, Abandon
  <2>9. QED
    BY <2>1, <2>2, <2>3, <2>4, <2>5, <2>6, <2>7, <2>8
<1>13. ASSUME SetupDone("repair") PROVE IInv'
  <2>1. TypeFlags'
    BY <1>13 DEF SetupDone, ConnectReturns
  <2>2. TypeCounts'
    BY <1>13 DEF SetupDone, ConnectReturns
  <2>3. TypeTasks'
    BY <1>13 DEF SetupDone, ConnectReturns
  <2>4. TypeObjects'
    BY <1>13 DEF SetupDone, ConnectReturns
  <2>5. TaskInv'
    BY <1>13 DEF SetupDone, ConnectReturns
  <2>6. ObjectInv'
    BY <1>13 DEF SetupDone, ConnectReturns
  <2>7. PendingInv'
    BY <1>13 DEF SetupDone, ConnectReturns
  <2>8. EndInv'
    BY <1>13 DEF SetupDone, ConnectReturns
  <2>9. QED
    BY <2>1, <2>2, <2>3, <2>4, <2>5, <2>6, <2>7, <2>8
<1>14. ASSUME SetupDone("op") PROVE IInv'
  <2>1. TypeFlags'
    BY <1>14 DEF SetupDone, ConnectReturns
  <2>2. TypeCounts'
    BY <1>14 DEF SetupDone, ConnectReturns
  <2>3. TypeTasks'
    BY <1>14 DEF SetupDone, ConnectReturns
  <2>4. TypeObjects'
    BY <1>14 DEF SetupDone, ConnectReturns
  <2>5. TaskInv'
    BY <1>14 DEF SetupDone, ConnectReturns
  <2>6. ObjectInv'
    BY <1>14 DEF SetupDone, ConnectReturns
  <2>7. PendingInv'
    BY <1>14 DEF SetupDone, ConnectReturns
  <2>8. EndInv'
    BY <1>14 DEF SetupDone, ConnectReturns
  <2>9. QED
    BY <2>1, <2>2, <2>3, <2>4, <2>5, <2>6, <2>7, <2>8
<1>15. ASSUME Cleanup("repair") PROVE IInv'
  <2>1. TypeFlags'
    BY <1>15 DEF Cleanup, Disconnect, ConnectReturns, RepairOver
  <2>2. TypeCounts'
    BY <1>15 DEF Cleanup, Disconnect, ConnectReturns, RepairOver
  <2>3. TypeTasks'
    BY <1>15 DEF Cleanup, Disconnect, ConnectReturns, RepairOver
  <2>4. TypeObjects'
    BY <1>15 DEF Cleanup, Disconnect, ConnectReturns, RepairOver
  <2>5. TaskInv'
    BY <1>15 DEF Cleanup, Disconnect, ConnectReturns, RepairOver
  <2>6. ObjectInv'
    BY <1>15 DEF Cleanup, Disconnect, ConnectReturns, RepairOver
  <2>7. PendingInv'
    BY <1>15 DEF Cleanup, Disconnect, ConnectReturns, RepairOver
  <2>8. EndInv'
    BY <1>15 DEF Cleanup, Disconnect, ConnectReturns, RepairOver
  <2>9. QED
    BY <2>1, <2>2, <2>3, <2>4, <2>5, <2>6, <2>7, <2>8
<1>16. ASSUME Cleanup("op") PROVE IInv'
  <2>1. TypeFlags'
    BY <1>16 DEF Cleanup, Disconnect, ConnectReturns, RepairOver
  <2>2. TypeCounts'
    BY <1>16 DEF Cleanup, Disconnect, ConnectReturns, RepairOver
  <2>3. TypeTasks'
    BY <1>16 DEF Cleanup, Disconnect, ConnectReturns, RepairOver
  <2>4. TypeObjects'
    BY <1>16 DEF Cleanup, Disconnect, ConnectReturns, RepairOver
  <2>5. TaskInv'
    BY <1>16 DEF Cleanup, Disconnect, ConnectReturns, RepairOver
  <2>6. ObjectInv'
    BY <1>16 DEF Cleanup, Disconnect, ConnectReturns, RepairOver
  <2>7. PendingInv'
    BY <1>16 DEF Cleanup, Disconnect, ConnectReturns, RepairOver
  <2>8. EndInv'
    BY <1>16 DEF Cleanup, Disconnect, ConnectReturns, RepairOver
  <2>9. QED
    BY <2>1, <2>2, <2>3, <2>4, <2>5, <2>6, <2>7, <2>8
<1>17. ASSUME "disconnect" \in site.uses, BeginDisconnect PROVE IInv'
  <2>1. TypeFlags'
    BY <1>17 DEF BeginDisconnect, OpBegins, Stopped
  <2>2. TypeCounts'
    BY <1>17 DEF BeginDisconnect, OpBegins, Stopped
  <2>3. TypeTasks'
    BY <1>17 DEF BeginDisconnect, OpBegins, Stopped
  <2>4. TypeObjects'
    BY <1>17 DEF BeginDisconnect, OpBegins, Stopped
  <2>5. TaskInv'
    BY <1>17 DEF BeginDisconnect, OpBegins, Stopped
  <2>6. ObjectInv'
    BY <1>17 DEF BeginDisconnect, OpBegins, Stopped
  <2>7. PendingInv'
    BY <1>17 DEF BeginDisconnect, OpBegins, Stopped
  <2>8. EndInv'
    BY <1>17 DEF BeginDisconnect, OpBegins, Stopped
  <2>9. QED
    BY <2>1, <2>2, <2>3, <2>4, <2>5, <2>6, <2>7, <2>8
<1>18. ASSUME NEW kind \in site.uses \cap {"reboot", "reconnect"}, BeginRelink(kind) PROVE IInv'
  <2>1. TypeFlags'
    BY <1>18 DEF BeginRelink, OpBegins, Close
  <2>2. TypeCounts'
    BY <1>18 DEF BeginRelink, OpBegins, Close
  <2>3. TypeTasks'
    BY <1>18 DEF BeginRelink, OpBegins, Close
  <2>4. TypeObjects'
    BY <1>18 DEF BeginRelink, OpBegins, Close
  <2>5. TaskInv'
    BY <1>18 DEF BeginRelink, OpBegins, Close
  <2>6. ObjectInv'
    BY <1>18 DEF BeginRelink, OpBegins, Close
  <2>7. PendingInv'
    BY <1>18 DEF BeginRelink, OpBegins, Close
  <2>8. EndInv'
    BY <1>18 DEF BeginRelink, OpBegins, Close
  <2>9. QED
    BY <2>1, <2>2, <2>3, <2>4, <2>5, <2>6, <2>7, <2>8
<1>19. ASSUME EndDisconnect PROVE IInv'
  <2>1. TypeFlags'
    BY <1>19 DEF EndDisconnect, Disconnect, Stopped
  <2>2. TypeCounts'
    BY <1>19 DEF EndDisconnect, Disconnect, Stopped
  <2>3. TypeTasks'
    BY <1>19 DEF EndDisconnect, Disconnect, Stopped
  <2>4. TypeObjects'
    BY <1>19 DEF EndDisconnect, Disconnect, Stopped
  <2>5. TaskInv'
    BY <1>19 DEF EndDisconnect, Disconnect, Stopped
  <2>6. ObjectInv'
    BY <1>19 DEF EndDisconnect, Disconnect, Stopped
  <2>7. PendingInv'
    BY <1>19 DEF EndDisconnect, Disconnect, Stopped
  <2>8. EndInv'
    BY <1>19 DEF EndDisconnect, Disconnect, Stopped
  <2>9. QED
    BY <2>1, <2>2, <2>3, <2>4, <2>5, <2>6, <2>7, <2>8
<1>20. ASSUME RebootSent PROVE IInv'
  <2>1. TypeFlags'
    BY <1>20 DEF RebootSent, Close
  <2>2. TypeCounts'
    BY <1>20 DEF RebootSent, Close
  <2>3. TypeTasks'
    BY <1>20 DEF RebootSent, Close
  <2>4. TypeObjects'
    BY <1>20 DEF RebootSent, Close
  <2>5. TaskInv'
    BY <1>20 DEF RebootSent, Close
  <2>6. ObjectInv'
    BY <1>20 DEF RebootSent, Close
  <2>7. PendingInv'
    BY <1>20 DEF RebootSent, Close
  <2>8. EndInv'
    BY <1>20 DEF RebootSent, Close
  <2>9. QED
    BY <2>1, <2>2, <2>3, <2>4, <2>5, <2>6, <2>7, <2>8
<1>21. ASSUME RelinkCloses PROVE IInv'
  <2>1. TypeFlags'
    BY <1>21 DEF RelinkCloses, Disconnect
  <2>2. TypeCounts'
    BY <1>21 DEF RelinkCloses, Disconnect
  <2>3. TypeTasks'
    BY <1>21 DEF RelinkCloses, Disconnect
  <2>4. TypeObjects'
    BY <1>21 DEF RelinkCloses, Disconnect
  <2>5. TaskInv'
    BY <1>21 DEF RelinkCloses, Disconnect
  <2>6. ObjectInv'
    BY <1>21 DEF RelinkCloses, Disconnect
  <2>7. PendingInv'
    BY <1>21 DEF RelinkCloses, Disconnect
  <2>8. EndInv'
    BY <1>21 DEF RelinkCloses, Disconnect
  <2>9. QED
    BY <2>1, <2>2, <2>3, <2>4, <2>5, <2>6, <2>7, <2>8
<1>22. ASSUME OpRaises PROVE IInv'
  <2>1. TypeFlags'
    BY <1>22 DEF OpRaises
  <2>2. TypeCounts'
    BY <1>22 DEF OpRaises
  <2>3. TypeTasks'
    BY <1>22 DEF OpRaises
  <2>4. TypeObjects'
    BY <1>22 DEF OpRaises
  <2>5. TaskInv'
    BY <1>22 DEF OpRaises
  <2>6. ObjectInv'
    BY <1>22 DEF OpRaises
  <2>7. PendingInv'
    BY <1>22 DEF OpRaises
  <2>8. EndInv'
    BY <1>22 DEF OpRaises
  <2>9. QED
    BY <2>1, <2>2, <2>3, <2>4, <2>5, <2>6, <2>7, <2>8
<1>23. ASSUME ProbeBegins PROVE IInv'
  <2>1. TypeFlags'
    BY <1>23 DEF ProbeBegins, ScheduleTransportReconnect
  <2>2. TypeCounts'
    BY <1>23 DEF ProbeBegins, ScheduleTransportReconnect
  <2>3. TypeTasks'
    BY <1>23 DEF ProbeBegins, ScheduleTransportReconnect
  <2>4. TypeObjects'
    BY <1>23 DEF ProbeBegins, ScheduleTransportReconnect
  <2>5. TaskInv'
    BY <1>23 DEF ProbeBegins, ScheduleTransportReconnect
  <2>6. ObjectInv'
    BY <1>23 DEF ProbeBegins, ScheduleTransportReconnect
  <2>7. PendingInv'
    BY <1>23 DEF ProbeBegins, ScheduleTransportReconnect
  <2>8. EndInv'
    BY <1>23 DEF ProbeBegins, ScheduleTransportReconnect
  <2>9. QED
    BY <2>1, <2>2, <2>3, <2>4, <2>5, <2>6, <2>7, <2>8
<1>24. ASSUME ProbeAnswered PROVE IInv'
  <2>1. TypeFlags'
    BY <1>24 DEF ProbeAnswered
  <2>2. TypeCounts'
    BY <1>24 DEF ProbeAnswered
  <2>3. TypeTasks'
    BY <1>24 DEF ProbeAnswered
  <2>4. TypeObjects'
    BY <1>24 DEF ProbeAnswered
  <2>5. TaskInv'
    BY <1>24 DEF ProbeAnswered
  <2>6. ObjectInv'
    BY <1>24 DEF ProbeAnswered
  <2>7. PendingInv'
    BY <1>24 DEF ProbeAnswered
  <2>8. EndInv'
    BY <1>24 DEF ProbeAnswered
  <2>9. QED
    BY <2>1, <2>2, <2>3, <2>4, <2>5, <2>6, <2>7, <2>8
<1>25. ASSUME ProbeFails PROVE IInv'
  <2>1. TypeFlags'
    BY <1>25 DEF ProbeFails, ScheduleTransportReconnect
  <2>2. TypeCounts'
    BY <1>25 DEF ProbeFails, ScheduleTransportReconnect
  <2>3. TypeTasks'
    BY <1>25 DEF ProbeFails, ScheduleTransportReconnect
  <2>4. TypeObjects'
    BY <1>25 DEF ProbeFails, ScheduleTransportReconnect
  <2>5. TaskInv'
    BY <1>25 DEF ProbeFails, ScheduleTransportReconnect
  <2>6. ObjectInv'
    BY <1>25 DEF ProbeFails, ScheduleTransportReconnect
  <2>7. PendingInv'
    BY <1>25 DEF ProbeFails, ScheduleTransportReconnect
  <2>8. EndInv'
    BY <1>25 DEF ProbeFails, ScheduleTransportReconnect
  <2>9. QED
    BY <2>1, <2>2, <2>3, <2>4, <2>5, <2>6, <2>7, <2>8
<1>26. ASSUME Signal PROVE IInv'
  <2>1. TypeFlags'
    BY <1>26 DEF Signal
  <2>2. TypeCounts'
    BY <1>26 DEF Signal
  <2>3. TypeTasks'
    BY <1>26 DEF Signal
  <2>4. TypeObjects'
    BY <1>26 DEF Signal
  <2>5. TaskInv'
    BY <1>26 DEF Signal
  <2>6. ObjectInv'
    BY <1>26 DEF Signal
  <2>7. PendingInv'
    BY <1>26 DEF Signal
  <2>8. EndInv'
    BY <1>26 DEF Signal
  <2>9. QED
    BY <2>1, <2>2, <2>3, <2>4, <2>5, <2>6, <2>7, <2>8
<1>27. ASSUME MainEnds PROVE IInv'
  <2>1. TypeFlags'
    BY <1>27 DEF MainEnds, KeepRunning
  <2>2. TypeCounts'
    BY <1>27 DEF MainEnds, KeepRunning
  <2>3. TypeTasks'
    BY <1>27 DEF MainEnds, KeepRunning
  <2>4. TypeObjects'
    BY <1>27 DEF MainEnds, KeepRunning
  <2>5. TaskInv'
    BY <1>27 DEF MainEnds, KeepRunning
  <2>6. ObjectInv'
    BY <1>27 DEF MainEnds, KeepRunning
  <2>7. PendingInv'
    BY <1>27 DEF MainEnds, KeepRunning
  <2>8. EndInv'
    BY <1>27 DEF MainEnds, KeepRunning
  <2>9. QED
    BY <2>1, <2>2, <2>3, <2>4, <2>5, <2>6, <2>7, <2>8
<1>28. CASE UNCHANGED vars
  BY <1>28 DEF vars
<1>29. QED
  BY <1>1, <1>2, <1>3, <1>4, <1>5, <1>6, <1>7, <1>8, <1>9, <1>10, <1>11, <1>12, <1>13, <1>14, <1>15, <1>16, <1>17, <1>18, <1>19, <1>20, <1>21, <1>22, <1>23, <1>24, <1>25, <1>26, <1>27, <1>28 DEF Next, ConnectStep, OpStep

LEMMA Invariance == Spec => []IInv
  BY InitInv, StepInv, PTL DEF Spec

(* Type correctness, with the counts of failed probes and of attempts       *)
(* within their limits.                                                     *)
THEOREM TypeCorrect == Spec => []TypeOK
<1>1. IInv => TypeOK
  BY DEF IInv, TypeFlags, TypeCounts, TypeTasks, TypeObjects, TypeOK
<1>2. QED
  BY <1>1, Invariance, PTL

(* Whatever connections the tasks open, replace and clean up, a bot that    *)
(* counts as connected has one.                                             *)
THEOREM ObjectWhenConnected == Spec => []ConnectedHasObject
<1>1. IInv => ConnectedHasObject
  BY DEF IInv, ObjectInv, ConnectedHasObject
<1>2. QED
  BY <1>1, Invariance, PTL

(* The flags that hold the main loop open stand for running tasks.          *)
THEOREM FlagsCleared == Spec => []FlagsHaveTasks
<1>1. IInv => FlagsHaveTasks
  BY DEF IInv, TaskInv, Relinks, FlagsHaveTasks
<1>2. QED
  BY <1>1, Invariance, PTL

(* A lost link alone never ends the bot.                                    *)
THEOREM ReasonedLoopEnd == Spec => []LoopEndsForAReason
<1>1. IInv => LoopEndsForAReason
  BY DEF IInv, EndInv, LoopEndsForAReason
<1>2. QED
  BY <1>1, Invariance, PTL

-----------------------------------------------------------------------------
(* A reconnect that nothing interferes with: no radio operation runs, and   *)
(* the object that the repair works on is the bot's, or none is.            *)
RepairerInv ==
  /\ op = "none" /\ pc["op"] = "idle" /\ own["op"] = NoConn
  /\ pc["repair"] \in {"idle", "begin", "creating", "backoff"} => own["repair"] = NoConn
  /\ pc["repair"] \in {"closing", "creating", "backoff"} => current = NoConn
  /\ pc["repair"] \in {"setup", "finishing", "cleanup"} => current = own["repair"]

(* The banner goes up with the connection and down with the repair, unless  *)
(* the last write of the row failed.                                        *)
HonestInv == ~missed =>
  /\ pc["repair"] \in {"begin", "closing", "creating", "cleanup", "backoff"} => ~banner
  /\ pc["repair"] \in {"setup", "finishing"} => banner
  /\ pc["repair"] = "idle" /\ connected => banner
  /\ banner => connected \/ shutdown

LiveInv == \A c \in Conns : link[c] = "up" => c = current \/ c = own["repair"]

AloneInv == RepairerInv /\ HonestInv /\ LiveInv

LEMMA AloneInitially == ASSUME Init PROVE AloneInv
<1> USE DEF Init, Tasks, NoConn
<1>1. RepairerInv
  BY DEF RepairerInv
<1>2. HonestInv
  BY DEF HonestInv
<1>3. LiveInv
  BY DEF LiveInv
<1> QED BY <1>1, <1>2, <1>3 DEF AloneInv

(* What a request for a reconnect does to the repairer.                     *)
LEMMA ScheduleKeeps ==
  ASSUME IInv, AloneInv, ScheduleTransportReconnect \/ UNCHANGED <<repairing, row, tasks>>,
         UNCHANGED <<connected, current, link, op, shutdown>>
  PROVE  AloneInv'
<1> USE DEF IInv, TypeTasks, TypeFlags, TaskInv, AloneInv, Tasks, tasks, NoConn, row, UpdateRadioConnectedMetadata
<1>1. RepairerInv'
  BY DEF ScheduleTransportReconnect, Goto, RepairerInv
<1>2. HonestInv'
  BY DEF ScheduleTransportReconnect, Goto, HonestInv
<1>3. LiveInv'
  BY DEF ScheduleTransportReconnect, Goto, LiveInv, RepairerInv
<1> QED BY <1>1, <1>2, <1>3

LEMMA AloneStep == ASSUME IInv, Alone, AloneInv, [Next]_vars PROVE AloneInv'
<1> USE DEF IInv, TypeFlags, TypeTasks, TypeObjects, TaskInv, AloneInv, Tasks, NoConn, radio, row, UpdateRadioConnectedMetadata,
      transport, tasks, flags, At
<1>1. ASSUME NEW c \in Conns, Drop(c) PROVE AloneInv'
  <2>1. RepairerInv' /\ HonestInv'
    BY <1>1 DEF Drop, RepairerInv, HonestInv
  <2>2. LiveInv'
    BY <1>1 DEF Drop, LiveInv
  <2> QED BY <2>1, <2>2
<1>2. ASSUME NEW c \in Conns, OnDisconnected(c) PROVE AloneInv'
  BY <1>2, ScheduleKeeps DEF OnDisconnected
<1>3. CASE PollTransport \/ ProbeBegins \/ ProbeFails
  <2>1. /\ ScheduleTransportReconnect \/ UNCHANGED <<repairing, row, tasks>>
        /\ UNCHANGED <<connected, current, link, op, shutdown>>
    BY <1>3 DEF PollTransport, ProbeBegins, ProbeFails
  <2> QED BY <2>1, ScheduleKeeps
<1>4. CASE RepairRound
  <2>1. RepairerInv'
    BY <1>4 DEF RepairRound, RepairOver, Attempt, Goto, RepairerInv
  <2>2. HonestInv'
    BY <1>4 DEF RepairRound, RepairOver, Attempt, Goto, HonestInv
  <2>3. LiveInv'
    BY <1>4 DEF RepairRound, RepairOver, Attempt, Goto, LiveInv, RepairerInv
  <2> QED BY <2>1, <2>2, <2>3
<1>5. ASSUME NEW c \in Conns \cup {NoConn}, Disconnect(c)
      PROVE  \A d \in Conns : link'[d] = "up" => link[d] = "up" /\ d # c
  BY <1>5 DEF Disconnect, Alone
<1>6. CASE RepairCloses
  <2>1. RepairerInv' /\ HonestInv'
    BY <1>6 DEF RepairCloses, Goto, RepairerInv, HonestInv
  <2>2. LiveInv'
    BY <1>5, <1>6 DEF RepairCloses, Goto, LiveInv
  <2> QED BY <2>1, <2>2
<1>7. CASE RepairRaises
  <2>1. RepairerInv' /\ HonestInv'
    BY <1>7 DEF RepairRaises, RepairOver, Abandon, Goto, RepairerInv, HonestInv
  <2>2. LiveInv'
    BY <1>7 DEF RepairRaises, RepairOver, Goto, LiveInv, RepairerInv
  <2> QED BY <2>1, <2>2
<1>8. CASE CreateFails("repair")
  <2>1. RepairerInv' /\ HonestInv'
    BY <1>8 DEF CreateFails, ConnectReturns, Abandon, Goto, RepairerInv, HonestInv
  <2>2. LiveInv'
    BY <1>8 DEF CreateFails, ConnectReturns, Goto, LiveInv, RepairerInv
  <2> QED BY <2>1, <2>2
<1>9. CASE CreateUnconnected("repair")
  <2>1. RepairerInv' /\ HonestInv'
    BY <1>9 DEF CreateUnconnected, Abandon, Goto, RepairerInv, HonestInv
  <2>2. PICK c \in Conns : current' = c /\ link' = [link EXCEPT ![c] = "down"] /\ current = NoConn /\ own["repair"] = NoConn
    BY <1>9 DEF CreateUnconnected, RepairerInv
  <2>3. \A d \in Conns : link[d] # "up"
    BY <2>2, RadioLinkAssumption DEF LiveInv, RadioLinkAssumption
  <2>4. LiveInv'
    BY <2>2, <2>3 DEF LiveInv
  <2> QED BY <2>1, <2>4
<1>10. CASE CreateConnected("repair")
  <2>1. RepairerInv' /\ HonestInv'
    BY <1>10 DEF CreateConnected, Goto, RepairerInv, HonestInv
  <2>2. PICK c \in Conns : current' = c /\ link' = [link EXCEPT ![c] = "up"] /\ current = NoConn /\ own["repair"] = NoConn
    BY <1>10 DEF CreateConnected, RepairerInv
  <2>3. \A d \in Conns : link[d] # "up"
    BY <2>2, RadioLinkAssumption DEF LiveInv, RadioLinkAssumption
  <2>4. LiveInv'
    BY <2>2, <2>3 DEF LiveInv
  <2> QED BY <2>1, <2>4
<1>11. CASE SetupHandlers("repair") \/ SetupFails("repair")
  <2>1. RepairerInv' /\ HonestInv'
    BY <1>11 DEF SetupHandlers, SetupFails, Abandon, Goto, RepairerInv, HonestInv
  <2>2. LiveInv'
    BY <1>11 DEF SetupHandlers, SetupFails, Goto, LiveInv
  <2> QED BY <2>1, <2>2
<1>12. CASE SetupDone("repair")
  <2>1. RepairerInv' /\ HonestInv'
    BY <1>12 DEF SetupDone, ConnectReturns, Goto, RepairerInv, HonestInv
  <2>2. LiveInv'
    BY <1>12 DEF SetupDone, ConnectReturns, Goto, LiveInv, RepairerInv
  <2> QED BY <2>1, <2>2
<1>13. CASE Cleanup("repair")
  <2>1. /\ current' = NoConn /\ own' = [own EXCEPT !["repair"] = NoConn] /\ UNCHANGED <<op, connected, row, shutdown>>
        /\ \E step \in {"idle", "backoff"} : pc' = [pc EXCEPT !["repair"] = step]
        /\ pc["repair"] = "cleanup"
    BY <1>13 DEF Cleanup, ConnectReturns, RepairOver, Goto, RepairerInv
  <2>4. RepairerInv'
    BY <2>1 DEF RepairerInv
  <2>5. HonestInv'
    BY <2>1 DEF HonestInv, RepairerInv, ObjectInv
  <2>2. LiveInv'
    BY <1>5, <1>13 DEF Cleanup, ConnectReturns, RepairOver, Goto, LiveInv, RepairerInv
  <2> QED BY <2>2, <2>4, <2>5
<1>14. ~OpStep /\ ~ConnectStep("op")
  BY DEF Alone, OpStep, EndDisconnect, RebootSent, RelinkCloses, OpRaises, ConnectStep, CreateFails, CreateUnconnected,
    CreateConnected, SetupHandlers, SetupFails, SetupDone, Cleanup, RepairerInv
<1>15. CASE ProbeAnswered \/ MainEnds \/ UNCHANGED vars
  BY <1>15 DEF ProbeAnswered, MainEnds, vars, RepairerInv, HonestInv, LiveInv
<1>16. CASE Signal
  BY <1>16 DEF Signal, RepairerInv, HonestInv, LiveInv
<1> QED BY <1>1, <1>2, <1>3, <1>4, <1>6, <1>7, <1>8, <1>9, <1>10, <1>11, <1>12, <1>13, <1>14, <1>15, <1>16 DEF Next, ConnectStep

LEMMA SiteStays == [Next]_vars => UNCHANGED site
BY DEF Next, vars, ConnectStep, OpStep, Drop, OnDisconnected, PollTransport, RepairRound, RepairCloses, RepairRaises,
  CreateFails, CreateUnconnected, CreateConnected, SetupHandlers, SetupFails, SetupDone, Cleanup, BeginDisconnect,
  BeginRelink, OpBegins, EndDisconnect, RebootSent, RelinkCloses, OpRaises, ProbeBegins, ProbeAnswered, ProbeFails,
  Signal, MainEnds

LEMMA AloneInvariance == Spec => [](Alone => AloneInv)
<1>1. Init => (Alone => AloneInv)
  BY AloneInitially
<1>2. IInv /\ (Alone => AloneInv) /\ [Next]_vars => (Alone => AloneInv)'
  BY AloneStep, SiteStays DEF Alone
<1> QED BY <1>1, <1>2, Invariance, PTL DEF Spec

(* The row of the web viewer, unless its last write failed, shows a         *)
(* connection exactly while the bot has one that it is not repairing,       *)
(* however reconnects fail and whichever earlier writes were lost, as long  *)
(* as nothing interferes with a reconnect (_schedule_transport_reconnect,   *)
(* every exit of connect(), _update_radio_connected_metadata).              *)
THEOREM HonestBanner == Spec => []BannerIsHonest
<1>1. IInv /\ (Alone => AloneInv) => BannerIsHonest
  BY DEF IInv, TypeFlags, TaskInv, AloneInv, HonestInv, BannerIsHonest
<1> QED BY <1>1, AloneInvariance, Invariance, PTL

(* No reconnect that works alone leaves a second transport open behind it   *)
(* (_attempt_reconnect closes the object it replaces, connect() the one     *)
(* that did not get ready).                                                 *)
THEOREM SingleLink == Spec => []OneLiveLink
<1>1. (Alone => AloneInv) => OneLiveLink
  BY DEF AloneInv, LiveInv, OneLiveLink, Tasks
<1> QED BY <1>1, AloneInvariance, PTL
=============================================================================

---------------------------- MODULE PruningProofs ----------------------------
(***************************************************************************)
(* Pruning loses no record and takes no live row, for any number of        *)
(* processes, rows and failures and for any retention.                     *)
(***************************************************************************)
EXTENDS Pruning, TLAPS

\* The initial state.
LEMMA InitPruningInv ==
  ASSUME Init PROVE PruningInv
BY PruningAssumption DEF Init, PruningInv, PruningTypeOK, GoneIsArchived, TakenIsFinal,
   CutoffHolds, Idle, Stages, NoMark, Cycles

\* What the facts about types come to.
LEMMA Typed ==
  ASSUME PruningTypeOK
  PROVE  /\ now \in Nat /\ NoMark \in Nat /\ now <= MaxTime
         /\ \A r \in Rows : mark[r] \in Nat
         /\ AuditRetention \in Nat /\ ExecutionRetention \in Nat /\ CallTicks \in Nat
         /\ CallTicks <= ExecutionRetention
         /\ \A p \in Processes :
              /\ cycle[p].stage \in Stages /\ cycle[p].table \in 1..3
              /\ cycle[p].cutoff \in Int /\ cycle[p].batch \in SUBSET Rows
BY PruningAssumption DEF PruningTypeOK, NoMark, Cycles

\* The rest of the server does not touch a row that a cycle has taken, except
\* to write what it already says.
LEMMA WorldPreserves ==
  ASSUME PruningInv, NEW r \in Rows, WorldStep(r)
  PROVE  PruningInv'
<1> USE DEF PruningInv
<1>1. /\ UNCHANGED <<now, archived, cycle, sound>>
      /\ status' = [status EXCEPT ![r] = status'[r]] /\ status'[r] \in {"live", "final"}
      /\ mark' = [mark EXCEPT ![r] = mark'[r]] /\ mark'[r] \in 0..NoMark
      /\ status[r] \in {"none", "live"} \/ (r \in ExecutionRows /\ now <= mark[r] + CallTicks)
      /\ status[r] # "gone"
  BY Typed, PruningAssumption DEF WorldStep, LogAudit, CreateApproval, EndApproval,
     BeginExecution, SweepExecution, EndExecution, LateUnknown, Write, Completed,
     PruningTypeOK, NoMark
<1>2. PruningTypeOK'
  BY <1>1 DEF PruningTypeOK
<1>3. GoneIsArchived'
  BY <1>1 DEF GoneIsArchived, PruningTypeOK
<1>4. TakenIsFinal'
  <2>1. \A p \in Processes : r \notin cycle[p].batch
    BY <1>1, Typed DEF TakenIsFinal
  <2>2. ASSUME NEW p \in Processes, NEW q \in cycle[p].batch
        PROVE  q \in Rows /\ q # r /\ status'[q] = status[q] /\ mark'[q] = mark[q]
    BY <2>1, <1>1, Typed DEF PruningTypeOK
  <2>3. QED BY <2>2, <1>1 DEF TakenIsFinal
<1>5. CutoffHolds'
  BY <1>1 DEF CutoffHolds
<1>6. QED BY <1>2, <1>3, <1>4, <1>5

\* Going on to the next table, or to the end.
LEMMA NextTableProperties ==
  ASSUME NEW c \in Cycles
  PROVE  /\ NextTable(c) \in Cycles
         /\ NextTable(c).stage = "select" /\ NextTable(c).batch = {}
         /\ NextTable(c).table = 3 => c.table = 2 /\ NextTable(c).cutoff = c.cutoff
<1>0. Idle \in Cycles /\ Idle.stage = "select" /\ Idle.batch = {} /\ Idle.table = 1
  BY DEF Idle, Cycles, Stages
<1>1. CASE c.table = 3
  BY <1>0, <1>1 DEF NextTable
<1>2. CASE c.table # 3
  <2>1. /\ NextTable(c) = [Idle EXCEPT !.table = c.table + 1, !.cutoff = c.cutoff]
        /\ c.table \in 1..2 /\ c.cutoff \in Int
    BY <1>2 DEF NextTable, Cycles
  <2>2. NextTable(c) = [stage |-> "select", table |-> c.table + 1,
                        cutoff |-> c.cutoff, batch |-> {}]
    BY <2>1 DEF Idle
  <2>3. /\ NextTable(c).stage = "select" /\ NextTable(c).batch = {}
        /\ NextTable(c).table = c.table + 1 /\ NextTable(c).cutoff = c.cutoff
    BY <2>2
  <2>4. c.table + 1 \in 1..3 /\ (c.table + 1 = 3 => c.table = 2)
    BY <2>1
  <2>5. NextTable(c) \in Cycles
    BY <2>1, <2>2, <2>4 DEF Cycles, Stages
  <2>6. QED BY <2>3, <2>4, <2>5
<1>3. QED BY <1>1, <1>2

\* Selecting.
LEMMA SelectPreserves ==
  ASSUME PruningInv, NEW p \in Processes, Select(p)
  PROVE  PruningInv'
<1> USE DEF PruningInv
<1> DEFINE cut == Cutoff(cycle[p])
           c == [cycle[p] EXCEPT !.cutoff = cut]
           old == {r \in TableRows[c.table] : Prunable(r, c.cutoff)}
           next == IF old = {} THEN NextTable(c)
                   ELSE [c EXCEPT !.stage = "export", !.batch = old]
<1>1. /\ cycle' = [cycle EXCEPT ![p] = next]
      /\ UNCHANGED <<worldVars, archived, sound>> /\ cycle[p].stage = "select"
  BY DEF Select, At
<1>2. /\ cut \in Int /\ c.table \in 1..3 /\ c.table = cycle[p].table /\ c.cutoff = cut
      /\ c.table # 1 => cut <= now - ExecutionRetention
      /\ c \in Cycles
      /\ c.stage = "select"
  BY <1>1, Typed DEF Cutoff, CutoffHolds, PruningTypeOK, Cycles
<1>3. /\ old \subseteq Rows /\ old \subseteq TableRows[c.table]
      /\ \A r \in old : status[r] = "final" /\ mark[r] < cut
      /\ \A r \in old : r \in ExecutionRows => c.table # 1
  BY <1>2, PruningAssumption DEF TableRows, Rows, Prunable
<1>4. /\ next \in Cycles
      /\ next.stage \in {"select", "export"} /\ next.batch \subseteq old
      /\ next.batch # {} => next.table = c.table
      /\ next.table = 3 \/ (next.table = 2 /\ next.stage # "select")
           => c.table # 1 /\ next.cutoff = cut
  <2> HIDE DEF cut, c, old
  <2>1. CASE old = {}
    BY <2>1, <1>2, NextTableProperties
  <2>2. CASE old # {}
    <3>1. next = [c EXCEPT !.stage = "export", !.batch = old]
      BY <2>2
    <3>2. /\ next \in Cycles /\ next.stage = "export" /\ next.batch = old
          /\ next.table = c.table /\ next.cutoff = c.cutoff
      BY <3>1, <1>2, <1>3 DEF Cycles, Stages
    <3>3. QED BY <3>2, <1>2
  <2>3. QED BY <2>1, <2>2
<1> HIDE DEF cut, c, old, next
<1>5. PruningTypeOK' /\ GoneIsArchived'
  BY <1>1, <1>4 DEF Cycles, PruningTypeOK, GoneIsArchived, worldVars
<1>6. \A q \in Processes : cycle'[q] = IF q = p THEN next ELSE cycle[q]
  BY <1>1 DEF PruningTypeOK
<1>7. TakenIsFinal'
  <2>1. ASSUME NEW r \in next.batch
        PROVE  /\ r \in TableRows[next.table] /\ status[r] = "final"
               /\ r \in ExecutionRows => mark[r] + CallTicks < now
    <3>1. r \in old /\ r \in Rows /\ next.table = c.table
      BY <1>3, <1>4
    <3>2. r \in ExecutionRows => mark[r] < cut /\ cut <= now - ExecutionRetention
      BY <3>1, <1>2, <1>3
    <3>3. QED BY <3>1, <3>2, <1>2, <1>3, Typed
  <2>2. QED BY <2>1, <1>1, <1>4, <1>6 DEF TakenIsFinal, worldVars
<1>8. CutoffHolds'
  BY <1>1, <1>2, <1>4, <1>6 DEF CutoffHolds, worldVars
<1>9. QED BY <1>5, <1>7, <1>8

\* The append puts the selected rows into the archive.
LEMMA ExportPreserves ==
  ASSUME PruningInv, NEW p \in Processes, Export(p)
  PROVE  PruningInv'
<1> USE DEF PruningInv
<1>1. /\ archived' = archived \cup cycle[p].batch
      /\ cycle' = [cycle EXCEPT ![p].stage = "delete"]
      /\ UNCHANGED <<worldVars, sound>> /\ cycle[p].stage = "export"
  BY DEF Export, At
<1>2. /\ archived \subseteq archived' /\ archived' \subseteq Rows
      /\ \A r \in cycle[p].batch : r \in Rows /\ r \in archived'
  BY <1>1, Typed DEF PruningTypeOK
<1>3. PruningTypeOK' /\ GoneIsArchived'
  BY <1>1, <1>2 DEF Cycles, PruningTypeOK, GoneIsArchived, worldVars, Stages
<1>4. \A q \in Processes :
        /\ cycle'[q].batch = cycle[q].batch /\ cycle'[q].table = cycle[q].table
        /\ cycle'[q].cutoff = cycle[q].cutoff
        /\ q # p => cycle'[q].stage = cycle[q].stage
  BY <1>1 DEF PruningTypeOK
<1>5. TakenIsFinal'
  BY <1>1, <1>2, <1>4, Typed DEF TakenIsFinal, worldVars
<1>6. CutoffHolds'
  BY <1>1, <1>4 DEF CutoffHolds, worldVars
<1>7. QED BY <1>3, <1>5, <1>6

\* A DELETE removes archived rows only, and goes on with the rest or the next table.
LEMMA DeleteChunkPreserves ==
  ASSUME PruningInv, NEW p \in Processes, DeleteChunk(p)
  PROVE  PruningInv'
<1> USE DEF PruningInv
<1>1. PICK chunk \in SUBSET cycle[p].batch :
        /\ status' = [r \in Rows |-> IF r \in chunk THEN "gone" ELSE status[r]]
        /\ cycle' = [cycle EXCEPT ![p] = IF chunk = cycle[p].batch THEN NextTable(cycle[p])
                                         ELSE [cycle[p] EXCEPT !.batch = @ \ chunk]]
  BY DEF DeleteChunk
<1>2. UNCHANGED <<now, mark, archived, sound>> /\ cycle[p].stage = "delete"
  BY DEF DeleteChunk, At
<1> DEFINE next == IF chunk = cycle[p].batch THEN NextTable(cycle[p])
                   ELSE [cycle[p] EXCEPT !.batch = @ \ chunk]
<1>3. /\ next \in Cycles
      /\ next.batch \subseteq cycle[p].batch
      /\ next.batch # {} => next.table = cycle[p].table /\ next.stage = "delete"
      /\ next.table = 3 \/ (next.table = 2 /\ next.stage # "select")
           => cycle[p].table # 1 /\ next.cutoff = cycle[p].cutoff
  <2>0. cycle[p] \in Cycles
    BY DEF PruningTypeOK
  <2>1. CASE chunk = cycle[p].batch
    BY <2>0, <2>1, NextTableProperties
  <2>2. CASE chunk # cycle[p].batch
    BY <2>0, <2>2, <1>2 DEF Cycles
  <2>3. QED BY <2>1, <2>2
<1> HIDE DEF next
<1>4. \A q \in Processes : cycle'[q] = IF q = p THEN next ELSE cycle[q]
  BY <1>1 DEF PruningTypeOK, next
<1>5. PruningTypeOK'
  BY <1>1, <1>2, <1>3, <1>4 DEF PruningTypeOK, next
<1>6. \A r \in chunk : r \in Rows /\ r \in archived
  BY <1>1, <1>2, Typed DEF TakenIsFinal
<1>7. GoneIsArchived'
  BY <1>1, <1>2, <1>6 DEF GoneIsArchived
<1>8. TakenIsFinal'
  <2>1. \A r \in Rows : status[r] \in {"final", "gone"} => status'[r] \in {"final", "gone"}
    BY <1>1
  <2>2. QED BY <2>1, <1>2, <1>3, <1>4, Typed DEF TakenIsFinal
<1>9. CutoffHolds'
  BY <1>2, <1>3, <1>4, Typed DEF CutoffHolds
<1>10. QED BY <1>5, <1>7, <1>8, <1>9

\* Giving up a cycle, with an append cut short, loses nothing.
LEMMA AbortPreserves ==
  ASSUME PruningInv, NEW p \in Processes, Abort(p)
  PROVE  PruningInv'
<1> USE DEF PruningInv
<1>1. /\ cycle' = [cycle EXCEPT ![p] = Idle] /\ UNCHANGED <<worldVars, sound>>
  BY DEF Abort
<1>2. archived \subseteq archived' /\ archived' \subseteq Rows
  BY Typed DEF Abort, PruningTypeOK
<1>3. \A q \in Processes : cycle'[q] = IF q = p THEN Idle ELSE cycle[q]
  BY <1>1 DEF PruningTypeOK
<1>4. PruningTypeOK' /\ GoneIsArchived'
  BY <1>1, <1>2, PruningAssumption
     DEF Cycles, PruningTypeOK, GoneIsArchived, worldVars, Idle, Stages
<1>5. TakenIsFinal' /\ CutoffHolds'
  BY <1>1, <1>2, <1>3, Typed DEF TakenIsFinal, CutoffHolds, worldVars, Idle
<1>6. QED BY <1>4, <1>5

\* Time makes cutoffs and marks older only.
LEMMA TickPreserves ==
  ASSUME PruningInv, Tick PROVE PruningInv'
<1>1. now' = now + 1 /\ now' \in 0..MaxTime /\ UNCHANGED <<status, mark, archived, cycle, sound>>
  BY Typed, PruningAssumption DEF Tick, PruningInv
<1>2. PruningTypeOK' /\ GoneIsArchived'
  BY <1>1 DEF PruningInv, PruningTypeOK, GoneIsArchived
<1>3. TakenIsFinal'
  <2>1. \A r \in Rows : mark[r] + CallTicks < now => mark[r] + CallTicks < now'
    BY <1>1, Typed DEF PruningInv
  <2>2. QED BY <2>1, <1>1, Typed DEF PruningInv, TakenIsFinal
<1>4. CutoffHolds'
  <2>1. \A p \in Processes :
          cycle[p].cutoff <= now - ExecutionRetention
            => cycle[p].cutoff <= now' - ExecutionRetention
    BY <1>1, Typed DEF PruningInv
  <2>2. QED BY <2>1, <1>1 DEF PruningInv, CutoffHolds
<1>5. QED BY <1>2, <1>3, <1>4 DEF PruningInv

\* All steps together.
LEMMA PruningInductive ==
  ASSUME PruningInv, [Next]_vars PROVE PruningInv'
<1>1. CASE UNCHANGED vars
  BY <1>1 DEF vars, worldVars, PruningInv, PruningTypeOK, GoneIsArchived, TakenIsFinal,
     CutoffHolds
<1>2. CASE Next
  <2>1. CASE Mend
    BY <2>1 DEF Mend, worldVars, PruningInv, PruningTypeOK, GoneIsArchived, TakenIsFinal,
       CutoffHolds
  <2>2. QED
    BY <1>2, <2>1, WorldPreserves, TickPreserves, SelectPreserves, ExportPreserves,
       DeleteChunkPreserves, AbortPreserves DEF Next, Prune
<1>3. QED BY <1>1, <1>2

\* The invariant of the pruning cycles.
THEOREM PruningInvariant == Spec => []PruningInv
<1>1. Init => PruningInv
  BY InitPruningInv
<1>2. PruningInv /\ [Next]_vars => PruningInv'
  BY PruningInductive
<1>3. QED BY <1>1, <1>2, PTL DEF Spec

\* Whatever fails or crashes, and however many processes prune at once, a
\* deleted record is in the archive.
THEOREM NoRecordIsLost == Spec => []GoneIsArchived
<1>1. PruningInv => GoneIsArchived
  BY DEF PruningInv
<1>2. QED BY <1>1, PruningInvariant, PTL

\* No pruning cycle deletes a row that is live when it is deleted.
THEOREM LiveRowsSurvive == Spec => LiveNeverPruned
<1>1. ASSUME PruningInv, [Next]_vars, NEW r \in Rows, status[r] = "live"
      PROVE  status'[r] # "gone"
  <2>1. CASE UNCHANGED status
    BY <1>1, <2>1
  <2>2. ASSUME NEW q \in Rows, WorldStep(q) PROVE status'[r] # "gone"
    BY <1>1, <2>2 DEF WorldStep, LogAudit, CreateApproval, EndApproval, BeginExecution,
       SweepExecution, EndExecution, LateUnknown, Write, PruningInv, PruningTypeOK
  <2>3. ASSUME NEW p \in Processes, DeleteChunk(p) PROVE status'[r] # "gone"
    <3>1. r \notin cycle[p].batch
      BY <1>1 DEF PruningInv, TakenIsFinal
    <3>2. QED BY <1>1, <2>3, <3>1 DEF DeleteChunk
  <2>4. QED BY <1>1, <2>1, <2>2, <2>3
       DEF Next, Prune, Select, Export, Abort, Mend, Tick, vars, worldVars
<1>2. PruningInv /\ [Next]_vars =>
        [\A r \in Rows : status[r] = "live" => status'[r] # "gone"]_vars
  BY <1>1
<1>3. QED BY <1>2, PruningInvariant, PTL DEF Spec, LiveNeverPruned
=============================================================================

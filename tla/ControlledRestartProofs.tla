------------------------ MODULE ControlledRestartProofs ------------------------
(***************************************************************************)
(* Theorems about ControlledRestart, for every set of sessions, requests,  *)
(* replacements and work items, and any number of crashes.                 *)
(***************************************************************************)
EXTENDS ControlledRestart, FiniteSetTheorems, TLAPS

-----------------------------------------------------------------------------
(* Types *)

Others(q) == \A r \in Requests : r # q => req'[r] = req[r]

\* the call goes on and keeps its locals
Keeps(q) == /\ req'[q].eligible = req[q].eligible
            /\ req'[q].stopped = req[q].stopped
            /\ req'[q].todo = req[q].todo
            /\ req'[q].cur = req[q].cur
            /\ req'[q].refused = req[q].refused
            /\ req'[q].failed = req[q].failed

LEMMA CallType ==
  ASSUME req \in [Requests -> Call], NEW q \in Requests, NEW new \in Call,
         req' = [req EXCEPT ![q] = new]
  PROVE  req' \in [Requests -> Call] /\ req'[q] = new /\ Others(q)
BY DEF Others

LEMMA GotoType ==
  ASSUME req \in [Requests -> Call], NEW q \in Requests, NEW pc, Goto(q, pc),
         pc \in {"recorded", "draining", "checkpointed", "stopping", "launch", "launched", "cleared",
                 "thrown", "done"}
  PROVE  req' \in [Requests -> Call] /\ req'[q].pc = pc /\ Keeps(q) /\ Others(q)
<1> DEFINE new == [req[q] EXCEPT !.pc = pc]
<1>1. req[q] \in Call
  OBVIOUS
<1>2. /\ new \in Call /\ new.pc = pc /\ new.eligible = req[q].eligible /\ new.stopped = req[q].stopped
      /\ new.todo = req[q].todo /\ new.cur = req[q].cur
      /\ new.refused = req[q].refused /\ new.failed = req[q].failed
  BY <1>1 DEF Call
<1>3. req' = [req EXCEPT ![q] = new]
  BY <1>1 DEF Goto, Call
<1> HIDE DEF new
<1> QED BY <1>2, <1>3, CallType DEF Keeps

\* what the steps of one call leave to the others
Outside == <<proc, boot, crashes, torn>>

LEMMA RequestEffect ==
  ASSUME TypeOK, NEW q \in Requests, Request(q)
  PROVE  /\ TypeOK' /\ Others(q)
         /\ proc = "up" /\ req[q].pc = "new" /\ gate = None /\ ~leaving /\ gate' = q
         /\ req'[q].pc = "requested"
         /\ req'[q].eligible = Eligible /\ req'[q].todo = Live
         /\ req'[q].stopped = req[q].stopped /\ req'[q].cur = req[q].cur
         /\ req'[q].failed = req[q].failed
         /\ UNCHANGED <<Outside, sess, home, leaving, marker, op, late>>
<1> DEFINE new == [req[q] EXCEPT !.pc = "requested", !.eligible = Eligible, !.todo = Live]
<1>1. req[q] \in Call /\ req \in [Requests -> Call] /\ Eligible \in SUBSET Sessions /\ Live \in SUBSET Sessions
  BY DEF TypeOK, Eligible, Live
<1>2. /\ new \in Call /\ new.pc = "requested" /\ new.eligible = Eligible /\ new.todo = Live
      /\ new.stopped = req[q].stopped /\ new.cur = req[q].cur /\ new.failed = req[q].failed
  BY <1>1 DEF Call
<1>3. req' = [req EXCEPT ![q] = new]
  BY <1>1 DEF Request, Call
<1> HIDE DEF new
<1>4. req' \in [Requests -> Call] /\ req'[q] = new /\ Others(q)
  BY <1>1, <1>2, <1>3, CallType
<1>5. /\ proc = "up" /\ req[q].pc = "new" /\ gate = None /\ ~leaving /\ gate' = q
      /\ UNCHANGED <<Outside, sess, home, leaving, marker, op, late>>
  BY DEF Request, At, Outside
<1>6. TypeOK'
  BY <1>4, <1>5 DEF TypeOK, Outside
<1> QED BY <1>2, <1>4, <1>5, <1>6

LEMMA ThrowsEffect ==
  ASSUME TypeOK, NEW q \in Requests
  PROVE  /\ ClassificationThrows(q) =>
              /\ TypeOK' /\ Others(q) /\ Keeps(q)
              /\ proc = "up" /\ req[q].pc = "new" /\ gate = None /\ ~leaving /\ gate' = q
              /\ req'[q].pc = "thrown"
              /\ UNCHANGED <<Outside, sess, home, leaving, marker, op, late>>
         /\ PhaseThrows(q) =>
              /\ TypeOK' /\ Others(q) /\ Keeps(q)
              /\ proc = "up" /\ req[q].pc \in {"recorded", "checkpointed"}
              /\ req'[q].pc = "thrown"
              /\ UNCHANGED <<Outside, sess, home, gate, leaving, marker, op, late>>
<1>1. req \in [Requests -> Call]
  BY DEF TypeOK
<1>2. ASSUME ClassificationThrows(q) \/ PhaseThrows(q)
      PROVE  req' \in [Requests -> Call] /\ Others(q) /\ Keeps(q) /\ req'[q].pc = "thrown"
  BY <1>1, <1>2, GotoType DEF ClassificationThrows, PhaseThrows
<1>3. ASSUME ClassificationThrows(q) PROVE TypeOK'
  BY <1>2, <1>3 DEF ClassificationThrows, TypeOK
<1>4. ASSUME PhaseThrows(q) PROVE TypeOK'
  BY <1>2, <1>4 DEF PhaseThrows, TypeOK
<1> QED BY <1>2, <1>3, <1>4 DEF ClassificationThrows, PhaseThrows, At, Outside

LEMMA RecordType ==
  ASSUME TypeOK, NEW q \in Requests
  PROVE  /\ Recorded(q) \in Operation
         /\ [Recorded(q) EXCEPT !.status = "failed"] \in Operation
         /\ [Recorded(q) EXCEPT !.status = "failed"] =
              [status |-> "failed", eligible |-> req[q].eligible, failed |-> {}]
<1>1. req[q].eligible \in SUBSET Sessions
  BY DEF TypeOK, Call
<1>2. Recorded(q) \in Operation
  BY <1>1 DEF Recorded, Operation
<1> DEFINE lost == [status |-> "failed", eligible |-> req[q].eligible, failed |-> {}]
<1>3. lost \in Operation
  BY <1>1 DEF Operation
<1>4. [Recorded(q) EXCEPT !.status = "failed"] = lost
  BY DEF Recorded
<1> QED BY <1>2, <1>3, <1>4

LEMMA PersistEffect ==
  ASSUME TypeOK, NEW q \in Requests
  PROVE  /\ PersistOperation(q) =>
              /\ TypeOK' /\ Others(q) /\ Keeps(q)
              /\ proc = "up" /\ req[q].pc = "requested" /\ req'[q].pc = "recorded"
              /\ op' = Recorded(q)
              /\ UNCHANGED <<Outside, sess, home, gate, leaving, marker, late>>
         /\ PersistFails(q) =>
              /\ TypeOK' /\ Others(q) /\ Keeps(q)
              /\ proc = "up" /\ req[q].pc = "requested" /\ req'[q].pc = "done" /\ gate' = None
              /\ UNCHANGED <<Outside, sess, home, leaving, marker, op, late>>
<1>1. req \in [Requests -> Call] /\ Recorded(q) \in Operation
  BY RecordType DEF TypeOK
<1>2. ASSUME PersistOperation(q)
      PROVE  TypeOK' /\ Others(q) /\ Keeps(q) /\ req'[q].pc = "recorded"
  <2>1. req' \in [Requests -> Call] /\ Others(q) /\ Keeps(q) /\ req'[q].pc = "recorded"
    BY <1>1, <1>2, GotoType DEF PersistOperation
  <2>2. op' \in Operation
    BY <1>1, <1>2 DEF PersistOperation
  <2> QED BY <1>2, <2>1, <2>2 DEF PersistOperation, TypeOK
<1>3. ASSUME PersistFails(q)
      PROVE  TypeOK' /\ Others(q) /\ Keeps(q) /\ req'[q].pc = "done"
  <2>1. req' \in [Requests -> Call] /\ Others(q) /\ Keeps(q) /\ req'[q].pc = "done"
    BY <1>1, <1>3, GotoType DEF PersistFails
  <2> QED BY <1>3, <2>1 DEF PersistFails, TypeOK
<1> QED BY <1>2, <1>3 DEF PersistOperation, PersistFails, At, Outside

\* the phases, each recorded before it begins
LEMMA PhaseEffect ==
  ASSUME TypeOK, NEW q \in Requests, PhaseBegins(q)
  PROVE  /\ TypeOK' /\ Others(q) /\ Keeps(q)
         /\ proc = "up"
         /\ \/ req[q].pc = "recorded" /\ req'[q].pc = "draining"
            \/ req[q].pc = "checkpointed" /\ req'[q].pc = "stopping"
         /\ op' = Recorded(q)
         /\ UNCHANGED <<Outside, sess, home, gate, leaving, marker, late>>
<1>1. req \in [Requests -> Call] /\ Recorded(q) \in Operation
  BY RecordType DEF TypeOK
<1>2. /\ req' \in [Requests -> Call] /\ Others(q) /\ Keeps(q)
      /\ \/ req[q].pc = "recorded" /\ req'[q].pc = "draining"
         \/ req[q].pc = "checkpointed" /\ req'[q].pc = "stopping"
  <2>1. CASE At(q, "recorded") /\ Goto(q, "draining")
    BY <1>1, <2>1, GotoType DEF At
  <2>2. CASE At(q, "checkpointed") /\ Goto(q, "stopping")
    BY <1>1, <2>2, GotoType DEF At
  <2> QED BY <2>1, <2>2 DEF PhaseBegins
<1>3. TypeOK'
  BY <1>1, <1>2 DEF PhaseBegins, TypeOK
<1> QED BY <1>2, <1>3 DEF PhaseBegins, At, Outside

LEMMA ListType == ASSUME TypeOK, NEW q \in Requests PROVE RecoveryList(q) \in RecoveryLists
BY DEF TypeOK, Call, RecoveryList, RecoveryLists

LEMMA CheckpointEffect ==
  ASSUME TypeOK, NEW q \in Requests
  PROVE  /\ Checkpoint(q) =>
              /\ TypeOK' /\ Others(q) /\ Keeps(q)
              /\ proc = "up" /\ req[q].pc = "draining" /\ req'[q].pc = "checkpointed"
              /\ marker' = RecoveryList(q) /\ op' = Recorded(q)
              /\ UNCHANGED <<Outside, sess, home, gate, leaving, late>>
         /\ CheckpointFails(q) =>
              /\ TypeOK' /\ Others(q) /\ Keeps(q)
              /\ proc = "up" /\ req[q].pc = "draining" /\ req'[q].pc = "done" /\ gate' = None
              /\ marker' \in {marker, RecoveryList(q)}
              /\ op' \in {op, [status |-> "failed", eligible |-> req[q].eligible, failed |-> {}]}
              /\ UNCHANGED <<Outside, sess, home, leaving, late>>
<1> DEFINE lost == [status |-> "failed", eligible |-> req[q].eligible, failed |-> {}]
<1>1. /\ req \in [Requests -> Call] /\ op \in Operation /\ RecoveryList(q) \in RecoveryLists
      /\ Recorded(q) \in Operation /\ lost \in Operation
      /\ [Recorded(q) EXCEPT !.status = "failed"] = lost
  BY ListType, RecordType DEF TypeOK
<1> HIDE DEF lost
<1>2. ASSUME Checkpoint(q)
      PROVE  TypeOK' /\ Others(q) /\ Keeps(q) /\ req'[q].pc = "checkpointed"
  <2>1. req' \in [Requests -> Call] /\ Others(q) /\ Keeps(q) /\ req'[q].pc = "checkpointed"
    BY <1>1, <1>2, GotoType DEF Checkpoint
  <2> QED BY <1>1, <1>2, <2>1 DEF Checkpoint, TypeOK
<1>3. ASSUME CheckpointFails(q)
      PROVE  /\ TypeOK' /\ Others(q) /\ Keeps(q) /\ req'[q].pc = "done"
             /\ op' \in {op, lost}
  <2>1. req' \in [Requests -> Call] /\ Others(q) /\ Keeps(q) /\ req'[q].pc = "done"
    BY <1>1, <1>3, GotoType DEF CheckpointFails
  <2>2. op' \in Operation /\ op' \in {op, lost}
    BY <1>1, <1>3 DEF CheckpointFails
  <2>3. marker' \in RecoveryLists \cup {None}
    BY <1>1, <1>3 DEF CheckpointFails, TypeOK
  <2> QED BY <1>3, <2>1, <2>2, <2>3 DEF CheckpointFails, TypeOK
<1> QED BY <1>2, <1>3 DEF Checkpoint, CheckpointFails, At, Outside, lost

LEMMA StopEffect ==
  ASSUME TypeOK, NEW q \in Requests, StopSession(q)
  PROVE  /\ TypeOK' /\ Others(q)
         /\ proc = "up" /\ req[q].pc = "stopping" /\ req'[q].pc = "stopping"
         /\ req'[q].eligible = req[q].eligible /\ req'[q].cur = req[q].cur
         /\ req'[q].failed = req[q].failed
         /\ \E x \in req[q].todo :
              /\ req'[q].todo = req[q].todo \ {x}
              /\ req'[q].stopped = req[q].stopped \cup {x}
              /\ sess'[x].state = IF sess[x].state = "live" THEN "stopped" ELSE sess[x].state
              /\ sess'[x].closed = sess[x].closed /\ sess'[x].source = sess[x].source
              /\ \A y \in Sessions : y # x => sess'[y] = sess[y]
         /\ UNCHANGED <<Outside, home, gate, leaving, marker, op, late>>
<1>1. PICK x \in req[q].todo :
        /\ sess' = [sess EXCEPT ![x].state = IF @ = "live" THEN "stopped" ELSE @]
        /\ req' = [req EXCEPT ![q].todo = @ \ {x}, ![q].stopped = @ \cup {x}]
  BY DEF StopSession
<1>2. /\ req[q] \in Call /\ req \in [Requests -> Call]
      /\ sess \in [Sessions -> Session] /\ x \in Sessions
  BY DEF TypeOK, Call
<1> DEFINE new == [req[q] EXCEPT !.todo = @ \ {x}, !.stopped = @ \cup {x}]
           state == IF sess[x].state = "live" THEN "stopped" ELSE sess[x].state
           gone == [sess[x] EXCEPT !.state = state]
<1>3. /\ new \in Call /\ new.pc = req[q].pc /\ new.eligible = req[q].eligible /\ new.cur = req[q].cur
      /\ new.failed = req[q].failed /\ new.todo = req[q].todo \ {x}
      /\ new.stopped = req[q].stopped \cup {x}
  BY <1>2 DEF Call
<1>4. req' = [req EXCEPT ![q] = new]
  BY <1>1, <1>2 DEF Call
<1>5. /\ gone \in Session /\ gone.state = state /\ gone.closed = sess[x].closed
      /\ gone.source = sess[x].source
  <2>1. sess[x] \in Session /\ state \in {"none", "live", "stopped", "lost"}
    BY <1>2 DEF Session
  <2> HIDE DEF state
  <2> QED BY <2>1 DEF Session
<1>6. sess' = [sess EXCEPT ![x] = gone]
  BY <1>1, <1>2 DEF Session
<1> HIDE DEF new, gone
<1>7. req' \in [Requests -> Call] /\ req'[q] = new /\ Others(q)
  BY <1>2, <1>3, <1>4, CallType
<1>8. /\ sess' \in [Sessions -> Session] /\ sess'[x] = gone
      /\ \A y \in Sessions : y # x => sess'[y] = sess[y]
  BY <1>2, <1>5, <1>6
<1>9. /\ proc = "up" /\ req[q].pc = "stopping"
      /\ UNCHANGED <<Outside, home, gate, leaving, marker, op, late>>
  BY DEF StopSession, At, Outside
<1>10. TypeOK'
  BY <1>7, <1>8, <1>9 DEF TypeOK, Outside
<1> QED BY <1>3, <1>5, <1>7, <1>8, <1>9, <1>10

\* the steps of the stopping phase that stop nothing
LEMMA StopFailsEffect ==
  ASSUME TypeOK, NEW q \in Requests, StopFails(q)
  PROVE  /\ TypeOK' /\ Others(q)
         /\ proc = "up" /\ req[q].pc = "stopping" /\ req'[q].pc = "stopping"
         /\ req'[q].eligible = req[q].eligible /\ req'[q].cur = req[q].cur
         /\ req'[q].failed = req[q].failed /\ req'[q].stopped = req[q].stopped
         /\ req'[q].todo \subseteq req[q].todo
         /\ UNCHANGED <<Outside, sess, home, gate, leaving, marker, op, late>>
<1>1. PICK x \in req[q].todo : req' = [req EXCEPT ![q].todo = @ \ {x}, ![q].refused = TRUE]
  BY DEF StopFails
<1>2. req[q] \in Call /\ req \in [Requests -> Call]
  BY DEF TypeOK
<1> DEFINE new == [req[q] EXCEPT !.todo = @ \ {x}, !.refused = TRUE]
<1>3. /\ new \in Call /\ new.pc = req[q].pc /\ new.eligible = req[q].eligible /\ new.cur = req[q].cur
      /\ new.failed = req[q].failed /\ new.todo = req[q].todo \ {x}
      /\ new.stopped = req[q].stopped
  BY <1>2 DEF Call
<1>4. req' = [req EXCEPT ![q] = new]
  BY <1>1, <1>2 DEF Call
<1> HIDE DEF new
<1>5. req' \in [Requests -> Call] /\ req'[q] = new /\ Others(q)
  BY <1>2, <1>3, <1>4, CallType
<1>6. /\ proc = "up" /\ req[q].pc = "stopping"
      /\ UNCHANGED <<Outside, sess, home, gate, leaving, marker, op, late>>
  BY DEF StopFails, At, Outside
<1>7. TypeOK'
  BY <1>5, <1>6 DEF TypeOK, Outside
<1> QED BY <1>3, <1>5, <1>6, <1>7

LEMMA LaunchEffect ==
  ASSUME TypeOK, NEW q \in Requests
  PROVE  /\ StopsDone(q) =>
              /\ TypeOK' /\ Others(q) /\ Keeps(q)
              /\ proc = "up" /\ req[q].pc = "stopping" /\ req'[q].pc = "launch"
              /\ UNCHANGED <<Outside, sess, home, gate, leaving, marker, op, late>>
         /\ Launched(q) =>
              /\ TypeOK' /\ Others(q) /\ Keeps(q)
              /\ proc = "up" /\ req[q].pc = "launch" /\ req'[q].pc = "launched" /\ leaving' = TRUE
              /\ UNCHANGED <<Outside, sess, home, gate, marker, op, late>>
         /\ RestartRequested(q) =>
              /\ TypeOK' /\ Others(q) /\ Keeps(q)
              /\ proc = "up" /\ req[q].pc = "launched" /\ req'[q].pc = "done"
              /\ op' = Recorded(q)
              /\ UNCHANGED <<Outside, sess, home, gate, leaving, marker, late>>
<1>1. req \in [Requests -> Call] /\ Recorded(q) \in Operation
  BY RecordType DEF TypeOK
<1>2. ASSUME StopsDone(q) PROVE TypeOK' /\ Others(q) /\ Keeps(q) /\ req'[q].pc = "launch"
  <2>1. req' \in [Requests -> Call] /\ Others(q) /\ Keeps(q) /\ req'[q].pc = "launch"
    BY <1>1, <1>2, GotoType DEF StopsDone
  <2> QED BY <1>2, <2>1 DEF StopsDone, TypeOK
<1>3. ASSUME Launched(q) PROVE TypeOK' /\ Others(q) /\ Keeps(q) /\ req'[q].pc = "launched"
  <2>1. req' \in [Requests -> Call] /\ Others(q) /\ Keeps(q) /\ req'[q].pc = "launched"
    BY <1>1, <1>3, GotoType DEF Launched
  <2> QED BY <1>3, <2>1 DEF Launched, TypeOK
<1>4. ASSUME RestartRequested(q) PROVE TypeOK' /\ Others(q) /\ Keeps(q) /\ req'[q].pc = "done"
  <2>1. req' \in [Requests -> Call] /\ Others(q) /\ Keeps(q) /\ req'[q].pc = "done"
    BY <1>1, <1>4, GotoType DEF RestartRequested
  <2> QED BY <1>1, <1>4, <2>1 DEF RestartRequested, TypeOK
<1> QED BY <1>2, <1>3, <1>4 DEF StopsDone, Launched, RestartRequested, At, Outside

LEMMA RejectedEffect ==
  ASSUME TypeOK, NEW q \in Requests, Rejected(q)
  PROVE  /\ TypeOK' /\ Others(q)
         /\ proc = "up" /\ req[q].pc \in {"stopping", "launch", "launched"} /\ req'[q].pc = "rollback"
         /\ gate' = IF gate = q THEN None ELSE gate
         /\ req'[q].eligible = req[q].eligible /\ req'[q].cur = req[q].cur
         /\ req'[q].failed = req[q].failed /\ req'[q].stopped = req[q].stopped
         /\ req'[q].todo = ToRestore(q)
         /\ UNCHANGED <<Outside, sess, home, leaving, marker, op, late>>
<1> DEFINE new == [req[q] EXCEPT !.pc = "rollback", !.todo = ToRestore(q)]
<1>1. req[q] \in Call /\ req \in [Requests -> Call]
  BY DEF TypeOK
<1>2. ToRestore(q) \in SUBSET Sessions
  BY <1>1 DEF ToRestore, Call
<1>3. /\ new \in Call /\ new.pc = "rollback" /\ new.eligible = req[q].eligible
      /\ new.cur = req[q].cur /\ new.failed = req[q].failed /\ new.stopped = req[q].stopped
      /\ new.todo = ToRestore(q)
  BY <1>1, <1>2 DEF Call
<1>4. req' = [req EXCEPT ![q] = new]
  BY <1>1 DEF Rejected, Call
<1> HIDE DEF new
<1>5. req' \in [Requests -> Call] /\ req'[q] = new /\ Others(q)
  BY <1>1, <1>3, <1>4, CallType
<1>6. /\ proc = "up" /\ req[q].pc \in {"stopping", "launch", "launched"}
      /\ gate' = IF gate = q THEN None ELSE gate
      /\ UNCHANGED <<Outside, sess, home, leaving, marker, op, late>>
  BY DEF Rejected, At, Outside
<1>7. TypeOK'
  BY <1>5, <1>6 DEF TypeOK, Outside
<1> QED BY <1>3, <1>5, <1>6, <1>7

LEMMA RestoreBeginsEffect ==
  ASSUME TypeOK, NEW q \in Requests, RestoreBegins(q)
  PROVE  /\ TypeOK' /\ Others(q)
         /\ proc = "up" /\ req[q].pc = "rollback" /\ req'[q].pc = "rollback"
         /\ req'[q].eligible = req[q].eligible /\ req'[q].todo = req[q].todo
         /\ req'[q].failed = req[q].failed /\ req'[q].stopped = req[q].stopped
         /\ req'[q].cur \in req[q].todo
         /\ UNCHANGED <<Outside, sess, home, gate, leaving, marker, op, late>>
<1>1. PICK x \in req[q].todo : req' = [req EXCEPT ![q].cur = x]
  BY DEF RestoreBegins
<1>2. req[q] \in Call /\ req \in [Requests -> Call]
  BY DEF TypeOK
<1> DEFINE new == [req[q] EXCEPT !.cur = x]
<1>3. /\ new \in Call /\ new.pc = req[q].pc /\ new.eligible = req[q].eligible
      /\ new.cur = x /\ new.failed = req[q].failed /\ new.stopped = req[q].stopped
      /\ new.todo = req[q].todo
  BY <1>2 DEF Call
<1>4. req' = [req EXCEPT ![q] = new]
  BY <1>1, <1>2 DEF Call
<1> HIDE DEF new
<1>5. req' \in [Requests -> Call] /\ req'[q] = new /\ Others(q)
  BY <1>2, <1>3, <1>4, CallType
<1>6. /\ proc = "up" /\ req[q].pc = "rollback"
      /\ UNCHANGED <<Outside, sess, home, gate, leaving, marker, op, late>>
  BY DEF RestoreBegins, At, Outside
<1>7. TypeOK'
  BY <1>5, <1>6 DEF TypeOK, Outside
<1> QED BY <1>3, <1>5, <1>6, <1>7

LEMMA RestoreFailsEffect ==
  ASSUME TypeOK, NEW q \in Requests, RestoreFails(q)
  PROVE  /\ TypeOK' /\ Others(q)
         /\ proc = "up" /\ req[q].pc = "rollback" /\ req'[q].pc = "rollback"
         /\ req'[q].eligible = req[q].eligible /\ req'[q].stopped = req[q].stopped
         /\ req'[q].cur = None
         /\ \E x \in req[q].todo : /\ req'[q].todo = req[q].todo \ {x}
                                   /\ req'[q].failed = req[q].failed \cup {x}
         /\ UNCHANGED <<Outside, sess, home, gate, leaving, marker, op, late>>
<1>1. PICK x \in req[q].todo :
        req' = [req EXCEPT ![q].todo = @ \ {x}, ![q].failed = @ \cup {x}, ![q].cur = None]
  BY DEF RestoreFails
<1>2. req[q] \in Call /\ req \in [Requests -> Call]
  BY DEF TypeOK
<1> DEFINE new == [req[q] EXCEPT !.todo = @ \ {x}, !.failed = @ \cup {x}, !.cur = None]
<1>3. /\ new \in Call /\ new.pc = req[q].pc /\ new.eligible = req[q].eligible
      /\ new.cur = None /\ new.failed = req[q].failed \cup {x} /\ new.stopped = req[q].stopped
      /\ new.todo = req[q].todo \ {x}
  BY <1>2 DEF Call
<1>4. req' = [req EXCEPT ![q] = new]
  BY <1>1, <1>2 DEF Call
<1> HIDE DEF new
<1>5. req' \in [Requests -> Call] /\ req'[q] = new /\ Others(q)
  BY <1>2, <1>3, <1>4, CallType
<1>6. /\ proc = "up" /\ req[q].pc = "rollback"
      /\ UNCHANGED <<Outside, sess, home, gate, leaving, marker, op, late>>
  BY DEF RestoreFails, At, Outside
<1>7. TypeOK'
  BY <1>5, <1>6 DEF TypeOK, Outside
<1> QED BY <1>3, <1>5, <1>6, <1>7

LEMMA ClearMarkerEffect ==
  ASSUME TypeOK, NEW q \in Requests, ClearMarker(q)
  PROVE  /\ TypeOK' /\ Others(q) /\ Keeps(q)
         /\ proc = "up" /\ req[q].pc = "rollback" /\ req'[q].pc = "cleared" /\ req[q].todo = {}
         /\ \/ marker' = None /\ torn' = torn
            \/ marker' = marker /\ torn' = torn \cup Back(q)
         /\ UNCHANGED <<proc, boot, crashes, sess, home, gate, leaving, op, late>>
<1>1. /\ req \in [Requests -> Call] /\ req[q].stopped \in SUBSET Sessions
      /\ torn \in SUBSET Sessions /\ marker \in RecoveryLists \cup {None}
  BY DEF TypeOK, Call
<1>2. req' \in [Requests -> Call] /\ Others(q) /\ Keeps(q) /\ req'[q].pc = "cleared"
  BY <1>1, GotoType DEF ClearMarker
<1>3. torn' \subseteq Sessions /\ marker' \in RecoveryLists \cup {None}
  BY <1>1 DEF ClearMarker, Back, ToRestore
<1>4. TypeOK'
  BY <1>2, <1>3 DEF ClearMarker, TypeOK
<1> QED BY <1>2, <1>4 DEF ClearMarker, At

LEMMA CancelledEffect ==
  ASSUME TypeOK, NEW q \in Requests
  PROVE  /\ Cancelled(q) =>
              /\ TypeOK' /\ Others(q) /\ Keeps(q)
              /\ proc = "up" /\ req[q].pc = "cleared" /\ req'[q].pc = "done"
              /\ op' = [status |-> "failed", eligible |-> req[q].eligible, failed |-> req[q].failed]
              /\ UNCHANGED <<Outside, sess, home, gate, leaving, marker, late>>
         /\ CancelThrows(q) =>
              /\ TypeOK' /\ Others(q) /\ Keeps(q)
              /\ proc = "up" /\ req[q].pc = "cleared" /\ req'[q].pc = "done"
              /\ UNCHANGED <<Outside, sess, home, gate, leaving, marker, op, late>>
<1>1. /\ req \in [Requests -> Call] /\ req[q].eligible \in SUBSET Sessions
      /\ req[q].failed \in SUBSET Sessions
  BY DEF TypeOK, Call
<1>2. ASSUME Cancelled(q) \/ CancelThrows(q)
      PROVE  req' \in [Requests -> Call] /\ Others(q) /\ Keeps(q) /\ req'[q].pc = "done"
  BY <1>1, <1>2, GotoType DEF Cancelled, CancelThrows
<1>3. ASSUME Cancelled(q) PROVE TypeOK'
  <2>1. op' \in Operation
    BY <1>1, <1>3 DEF Cancelled, Operation
  <2> QED BY <1>2, <1>3, <2>1 DEF Cancelled, TypeOK
<1>4. ASSUME CancelThrows(q) PROVE TypeOK'
  BY <1>2, <1>4 DEF CancelThrows, TypeOK
<1> QED BY <1>2, <1>3, <1>4 DEF Cancelled, CancelThrows, At, Outside

\* x goes on in y
Replaced(x, y) ==
  /\ sess[y].state = "none"
  /\ sess'[y].state = "live" /\ ~sess'[y].closed /\ sess'[y].source = x
  /\ \A z \in Sessions : z # y => sess'[z] = sess[z]
  /\ \A w \in Work : home'[w] = IF home[w] = x THEN y ELSE home[w]

LEMMA ReplaceType ==
  ASSUME TypeOK, NEW x \in Sessions, NEW y \in Sessions, Replace(x, y)
  PROVE  /\ sess' \in [Sessions -> Session]
         /\ home' \in [Work -> Sessions \cup {None}]
         /\ Replaced(x, y)
<1>1. sess \in [Sessions -> Session] /\ home \in [Work -> Sessions \cup {None}]
  BY DEF TypeOK
<1> DEFINE new == [state |-> "live", closed |-> FALSE, auto |-> sess[x].auto, source |-> x]
<1>2. new \in Session /\ new.state = "live" /\ ~new.closed /\ new.source = x
  BY <1>1 DEF Session
<1>3. /\ sess[y].state = "none"
      /\ sess' = [sess EXCEPT ![y] = new]
      /\ home' = [w \in Work |-> IF home[w] = x THEN y ELSE home[w]]
  BY DEF Replace
<1> HIDE DEF new
<1>4. /\ sess' \in [Sessions -> Session] /\ sess'[y] = new
      /\ \A z \in Sessions : z # y => sess'[z] = sess[z]
  BY <1>1, <1>2, <1>3
<1>5. /\ home' \in [Work -> Sessions \cup {None}]
      /\ \A w \in Work : home'[w] = IF home[w] = x THEN y ELSE home[w]
  BY <1>1, <1>3
<1> QED BY <1>2, <1>3, <1>4, <1>5 DEF Replaced

LEMMA RestoredEffect ==
  ASSUME TypeOK, NEW q \in Requests, Restored(q)
  PROVE  /\ TypeOK' /\ Others(q)
         /\ proc = "up" /\ req[q].pc = "rollback" /\ req'[q].pc = "rollback"
         /\ req'[q].eligible = req[q].eligible /\ req'[q].stopped = req[q].stopped
         /\ req'[q].failed = req[q].failed
         /\ req[q].cur \in Sessions /\ req'[q].cur = None
         /\ req'[q].todo = req[q].todo \ {req[q].cur}
         /\ \E y \in Sessions : Replaced(req[q].cur, y)
         /\ UNCHANGED <<Outside, gate, leaving, marker, op, late>>
<1>1. PICK y \in Spares : Replace(req[q].cur, y)
  BY DEF Restored
<1>2. req[q] \in Call /\ req \in [Requests -> Call] /\ req[q].cur \in Sessions /\ y \in Sessions
  BY DEF TypeOK, Call, Restored, Sessions
<1> DEFINE new == [req[q] EXCEPT !.todo = @ \ {req[q].cur}, !.cur = None]
<1>3. /\ new \in Call /\ new.pc = req[q].pc /\ new.eligible = req[q].eligible
      /\ new.cur = None /\ new.failed = req[q].failed /\ new.stopped = req[q].stopped
      /\ new.todo = req[q].todo \ {req[q].cur}
  BY <1>2 DEF Call
<1>4. req' = [req EXCEPT ![q] = new]
  BY <1>2 DEF Restored, Call
<1> HIDE DEF new
<1>5. req' \in [Requests -> Call] /\ req'[q] = new /\ Others(q)
  BY <1>2, <1>3, <1>4, CallType
<1>6. /\ proc = "up" /\ req[q].pc = "rollback"
      /\ UNCHANGED <<Outside, gate, leaving, marker, op, late>>
  BY DEF Restored, At, Outside
<1>7. /\ sess' \in [Sessions -> Session]
      /\ home' \in [Work -> Sessions \cup {None}]
      /\ Replaced(req[q].cur, y)
  BY <1>1, <1>2, ReplaceType
<1>8. TypeOK'
  BY <1>5, <1>6, <1>7 DEF TypeOK, Outside
<1> QED BY <1>2, <1>3, <1>5, <1>6, <1>7, <1>8

LEMMA DownEffect ==
  ASSUME TypeOK, Exit \/ Crash
  PROVE  /\ TypeOK'
         /\ proc' = "down" /\ gate' = None /\ ~leaving' /\ boot' = NoBoot
         /\ \A x \in Sessions : /\ sess'[x].closed = sess[x].closed
                                /\ sess'[x].source = sess[x].source
                                /\ sess'[x].state = IF sess[x].state = "live" THEN "lost" ELSE sess[x].state
         /\ \A q \in Requests : \/ req[q].pc = "new" /\ req'[q] = req[q]
                                \/ /\ req[q].pc # "new" /\ req'[q].pc = "done"
                                   /\ req'[q].eligible = {} /\ req'[q].stopped = {}
                                   /\ req'[q].todo = {} /\ req'[q].failed = {}
                                   /\ req'[q].cur = None
         /\ UNCHANGED <<home, marker, op, late>>
         /\ torn' = torn \cup Unlisted
<1>1. /\ Down
      /\ torn' = torn \cup Unlisted
      /\ crashes' = crashes \/ (crashes < MaxCrashes /\ crashes' = crashes + 1)
  BY DEF Exit, Crash
<1>2. /\ sess \in [Sessions -> Session] /\ req \in [Requests -> Call]
      /\ crashes \in 0 .. MaxCrashes /\ torn \subseteq Sessions
  BY DEF TypeOK
<1>3. torn' \subseteq Sessions
  BY <1>1, <1>2 DEF Unlisted
<1>4. crashes' \in 0 .. MaxCrashes
  BY <1>1, <1>2, RestartAssumption
<1>5. ASSUME NEW x \in Sessions
      PROVE  /\ sess'[x] \in Session
             /\ sess'[x].closed = sess[x].closed
             /\ sess'[x].source = sess[x].source
             /\ sess'[x].state = IF sess[x].state = "live" THEN "lost" ELSE sess[x].state
  <2>1. sess'[x] = IF sess[x].state = "live" THEN [sess[x] EXCEPT !.state = "lost"] ELSE sess[x]
    BY <1>1 DEF Down, Live
  <2>2. sess[x] \in Session
    BY <1>2
  <2> QED BY <2>1, <2>2 DEF Session
<1>6. sess' \in [Sessions -> Session]
  <2>1. sess' = [x \in Sessions |-> sess'[x]]
    BY <1>1 DEF Down
  <2> QED BY <1>5, <2>1
<1> DEFINE over == [NewRequest EXCEPT !.pc = "done"]
<1>7. /\ over \in Call /\ over.pc = "done" /\ over.eligible = {} /\ over.stopped = {}
      /\ over.todo = {} /\ over.failed = {} /\ over.cur = None
  BY DEF NewRequest, Call
<1>8. \A q \in Requests : req'[q] = IF req[q].pc = "new" THEN req[q] ELSE over
  BY <1>1 DEF Down
<1>9. req' \in [Requests -> Call]
  <2>1. req' = [q \in Requests |-> req'[q]]
    BY <1>1 DEF Down
  <2> HIDE DEF over
  <2>2. \A q \in Requests : req'[q] \in Call
    BY <1>2, <1>7, <1>8
  <2> QED BY <2>1, <2>2
<1>10. /\ proc' = "down" /\ gate' = None /\ leaving' = FALSE /\ boot' = NoBoot
       /\ UNCHANGED <<home, marker, op, late>>
  BY <1>1 DEF Down
<1>11. NoBoot \in Startup
  BY DEF NoBoot, Startup
<1>12. TypeOK'
  BY <1>3, <1>4, <1>6, <1>9, <1>10, <1>11 DEF TypeOK
<1> HIDE DEF over
<1> QED BY <1>1, <1>3, <1>5, <1>7, <1>8, <1>10, <1>12

LEMMA StartEffect ==
  ASSUME TypeOK, Start
  PROVE  /\ TypeOK'
         /\ proc = "down" /\ proc' = "boot"
         /\ boot'.todo = Pending /\ boot'.failed = {} /\ boot'.moved = None
         /\ UNCHANGED <<sess, home, gate, req, leaving, marker, op, crashes, torn, late>>
<1>1. Pending \in SUBSET Sessions
  BY DEF TypeOK, Pending, RecoveryLists
<1>2. boot' \in Startup /\ boot'.todo = Pending /\ boot'.failed = {} /\ boot'.moved = None
  BY <1>1 DEF Start, NoBoot, Startup
<1> QED BY <1>2 DEF TypeOK, Start

\* A process that is not starting has no startup under way; one that is works
\* from a recovery list.
StartupOK ==
  /\ proc # "boot" => boot = NoBoot
  /\ boot.todo # {} \/ boot.moved # None => marker # None

LEMMA BootSkipsEffect ==
  ASSUME TypeOK, StartupOK, BootSkipsClosed
  PROVE  /\ TypeOK' /\ proc = "boot" /\ boot.moved = None
         /\ marker # None /\ marker' # None
         /\ \E x \in boot.todo :
              /\ sess[x].closed
              /\ boot'.todo = boot.todo \ {x} /\ boot'.failed = boot.failed /\ boot'.moved = None
              /\ marker'.ids = marker.ids /\ marker'.recovered = marker.recovered
              /\ marker'.closed = marker.closed \cup {x}
         /\ UNCHANGED <<proc, sess, home, gate, req, leaving, op, crashes, torn, late>>
<1>1. PICK x \in boot.todo : /\ sess[x].closed
                             /\ marker' = [marker EXCEPT !.closed = @ \cup {x}]
                             /\ boot' = [boot EXCEPT !.todo = @ \ {x}]
  BY DEF BootSkipsClosed
<1>2. /\ proc = "boot" /\ boot.moved = None
      /\ UNCHANGED <<proc, sess, home, gate, req, leaving, op, crashes, torn, late>>
  BY DEF BootSkipsClosed, Booting
<1>3. marker \in RecoveryLists /\ marker # None /\ boot \in Startup /\ x \in Sessions
  BY DEF TypeOK, StartupOK, Startup
<1>4. /\ marker' \in RecoveryLists /\ marker'.ids = marker.ids
      /\ marker'.recovered = marker.recovered /\ marker'.closed = marker.closed \cup {x}
  BY <1>1, <1>3 DEF RecoveryLists
<1>5. /\ boot' \in Startup /\ boot'.todo = boot.todo \ {x} /\ boot'.failed = boot.failed
      /\ boot'.moved = boot.moved
  BY <1>1, <1>3 DEF Startup
<1>6. marker' # None
  BY <1>4, ListAssumption DEF RecoveryLists
<1>7. TypeOK'
  BY <1>2, <1>4, <1>5 DEF TypeOK
<1> QED BY <1>1, <1>2, <1>3, <1>4, <1>5, <1>6, <1>7

LEMMA BootCheckpointsEffect ==
  ASSUME TypeOK, StartupOK, BootCheckpoints
  PROVE  /\ TypeOK' /\ proc = "boot" /\ boot.moved # None
         /\ marker # None /\ marker' # None
         /\ boot'.todo = boot.todo /\ boot'.failed = boot.failed /\ boot'.moved = None
         /\ marker'.ids = marker.ids /\ marker'.closed = marker.closed
         /\ marker'.recovered = marker.recovered \cup {boot.moved}
         /\ UNCHANGED <<proc, sess, home, gate, req, leaving, op, crashes, torn, late>>
<1>1. /\ proc = "boot" /\ boot.moved # None
      /\ marker' = [marker EXCEPT !.recovered = @ \cup {boot.moved}]
      /\ boot' = [boot EXCEPT !.moved = None]
      /\ UNCHANGED <<proc, sess, home, gate, req, leaving, op, crashes, torn, late>>
  BY DEF BootCheckpoints
<1>2. marker \in RecoveryLists /\ marker # None /\ boot \in Startup /\ boot.moved \in Sessions
  BY <1>1 DEF TypeOK, StartupOK, Startup
<1>3. /\ marker' \in RecoveryLists /\ marker'.ids = marker.ids
      /\ marker'.recovered = marker.recovered \cup {boot.moved} /\ marker'.closed = marker.closed
  BY <1>1, <1>2 DEF RecoveryLists
<1>4. /\ boot' \in Startup /\ boot'.todo = boot.todo /\ boot'.failed = boot.failed
      /\ boot'.moved = None
  BY <1>1, <1>2 DEF Startup
<1>5. marker' # None
  BY <1>3, ListAssumption DEF RecoveryLists
<1>6. TypeOK'
  BY <1>1, <1>3, <1>4 DEF TypeOK
<1> QED BY <1>1, <1>2, <1>3, <1>4, <1>5, <1>6

LEMMA BootRestoresEffect ==
  ASSUME TypeOK, BootRestores
  PROVE  /\ TypeOK' /\ proc = "boot" /\ boot.moved = None
         /\ \E x \in boot.todo, y \in Sessions :
              /\ x \in Sessions /\ Replaced(x, y)
              /\ boot'.todo = boot.todo \ {x} /\ boot'.failed = boot.failed /\ boot'.moved = x
         /\ UNCHANGED <<proc, gate, req, leaving, marker, op, crashes, torn, late>>
<1>1. PICK x \in boot.todo, y \in Spares : /\ Replace(x, y)
                                           /\ boot' = [boot EXCEPT !.todo = @ \ {x}, !.moved = x]
  BY DEF BootRestores
<1>2. /\ proc = "boot" /\ boot.moved = None
      /\ UNCHANGED <<proc, gate, req, leaving, marker, op, crashes, torn, late>>
  BY DEF BootRestores, Booting
<1>3. boot \in Startup /\ x \in Sessions /\ y \in Sessions
  BY DEF TypeOK, Startup, Sessions
<1>4. /\ boot' \in Startup /\ boot'.todo = boot.todo \ {x} /\ boot'.failed = boot.failed
      /\ boot'.moved = x
  BY <1>1, <1>3 DEF Startup
<1>5. /\ sess' \in [Sessions -> Session]
      /\ home' \in [Work -> Sessions \cup {None}]
      /\ Replaced(x, y)
  BY <1>1, <1>3, ReplaceType
<1>6. TypeOK'
  BY <1>2, <1>4, <1>5 DEF TypeOK
<1> QED BY <1>2, <1>3, <1>4, <1>5, <1>6

LEMMA BootFailsEffect ==
  ASSUME TypeOK, BootFails
  PROVE  /\ TypeOK' /\ proc = "boot" /\ boot.moved = None
         /\ \E x \in boot.todo :
              /\ boot'.todo = boot.todo \ {x} /\ boot'.failed = boot.failed \cup {x}
              /\ boot'.moved = None
         /\ UNCHANGED <<proc, sess, home, gate, req, leaving, marker, op, crashes, torn, late>>
<1>1. PICK x \in boot.todo : boot' = [boot EXCEPT !.todo = @ \ {x}, !.failed = @ \cup {x}]
  BY DEF BootFails
<1>2. /\ proc = "boot" /\ boot.moved = None
      /\ UNCHANGED <<proc, sess, home, gate, req, leaving, marker, op, crashes, torn, late>>
  BY DEF BootFails, Booting
<1>3. boot \in Startup /\ x \in Sessions
  BY DEF TypeOK, Startup
<1>4. /\ boot' \in Startup /\ boot'.todo = boot.todo \ {x} /\ boot'.failed = boot.failed \cup {x}
      /\ boot'.moved = boot.moved
  BY <1>1, <1>3 DEF Startup
<1>5. TypeOK'
  BY <1>2, <1>4 DEF TypeOK
<1> QED BY <1>2, <1>4, <1>5

LEMMA BootDoneEffect ==
  ASSUME TypeOK, BootDone
  PROVE  /\ TypeOK' /\ proc = "boot" /\ proc' = "up"
         /\ boot.todo = {} /\ boot.moved = None /\ boot' = NoBoot
         /\ op'.eligible = op.eligible
         /\ \/ op' = op
            \/ /\ op.status \notin {"none", "complete", "partial"}
               /\ op'.failed = Failures \cap op.eligible
               /\ op'.status = "complete" => op'.failed = {}
         /\ UNCHANGED <<sess, home, gate, req, leaving, marker, crashes, torn, late>>
<1>1. /\ proc = "boot" /\ proc' = "up" /\ boot.todo = {} /\ boot.moved = None /\ boot' = NoBoot
      /\ UNCHANGED <<sess, home, gate, req, leaving, marker, crashes, torn, late>>
  BY DEF BootDone, Booting
<1>2. op \in Operation /\ NoBoot \in Startup
  BY DEF TypeOK, NoBoot, Startup
<1> DEFINE failed == Failures \cap op.eligible
           status == IF failed = {} THEN "complete" ELSE "partial"
<1>3. op' = IF op.status \in {"none", "complete", "partial"} THEN op
            ELSE [op EXCEPT !.failed = failed, !.status = status]
  BY DEF BootDone
<1>4. /\ op' \in Operation /\ op'.eligible = op.eligible
      /\ \/ op' = op
         \/ /\ op.status \notin {"none", "complete", "partial"}
            /\ op'.failed = failed /\ op'.status = status
  <2>1. failed \in SUBSET Sessions /\ status \in {"complete", "partial"}
    BY <1>2 DEF Operation
  <2> HIDE DEF failed, status
  <2> QED BY <1>2, <1>3, <2>1 DEF Operation
<1>5. TypeOK'
  BY <1>1, <1>2, <1>4 DEF TypeOK
<1> QED BY <1>1, <1>4, <1>5

LEMMA WorkArrivesEffect ==
  ASSUME TypeOK, WorkArrives
  PROVE  /\ TypeOK' /\ proc = "up"
         /\ \E w \in Work, x \in Live :
              /\ home[w] = None /\ home'[w] = x
              /\ \A v \in Work : v # w => home'[v] = home[v]
              /\ late' = late \cup {w} \/ late' = late
              /\ w \notin late' => \A q \in Requests : gate = q => x \in req[q].eligible
         /\ UNCHANGED <<proc, sess, gate, req, leaving, marker, op, boot, crashes, torn>>
<1>1. PICK w \in Work, x \in Live :
        /\ home[w] = None
        /\ home' = [home EXCEPT ![w] = x]
        /\ late' = IF \E q \in Requests : gate = q /\ x \notin req[q].eligible THEN late \cup {w} ELSE late
  BY DEF WorkArrives
<1>2. /\ proc = "up"
      /\ UNCHANGED <<proc, sess, gate, req, leaving, marker, op, boot, crashes, torn>>
  BY DEF WorkArrives
<1>3. home \in [Work -> Sessions \cup {None}] /\ late \subseteq Work /\ x \in Sessions
  BY DEF TypeOK, Live
<1>4. TypeOK'
  BY <1>1, <1>2, <1>3 DEF TypeOK
<1>5. home'[w] = x /\ \A v \in Work : v # w => home'[v] = home[v]
  BY <1>1, <1>3
<1> QED BY <1>1, <1>2, <1>4, <1>5

LEMMA CloseEffect ==
  ASSUME TypeOK, Close
  PROVE  /\ TypeOK' /\ proc = "up"
         /\ \E x \in Sessions :
              /\ sess[x].state \in {"live", "stopped"}
              /\ sess'[x].closed /\ sess'[x].state = "stopped" /\ sess'[x].source = sess[x].source
              /\ \A y \in Sessions : y # x => sess'[y] = sess[y]
         /\ UNCHANGED <<proc, home, gate, req, leaving, marker, op, boot, crashes, torn, late>>
<1>1. PICK x \in Sessions : /\ sess[x].state \in {"live", "stopped"}
                            /\ sess' = [sess EXCEPT ![x].closed = TRUE, ![x].state = "stopped"]
  BY DEF Close
<1>2. /\ proc = "up"
      /\ UNCHANGED <<proc, home, gate, req, leaving, marker, op, boot, crashes, torn, late>>
  BY DEF Close
<1>3. sess \in [Sessions -> Session] /\ sess[x] \in Session
  BY DEF TypeOK
<1> DEFINE new == [sess[x] EXCEPT !.closed = TRUE, !.state = "stopped"]
<1>4. new \in Session /\ new.closed /\ new.state = "stopped" /\ new.source = sess[x].source
  BY <1>3 DEF Session
<1>5. sess' = [sess EXCEPT ![x] = new]
  BY <1>1, <1>3 DEF Session
<1> HIDE DEF new
<1>6. /\ sess' \in [Sessions -> Session] /\ sess'[x] = new
      /\ \A y \in Sessions : y # x => sess'[y] = sess[y]
  BY <1>3, <1>4, <1>5
<1>7. TypeOK'
  BY <1>2, <1>6 DEF TypeOK
<1> QED BY <1>1, <1>2, <1>4, <1>6, <1>7

LEMMA InitType == Init => TypeOK /\ StartupOK
<1> SUFFICES ASSUME Init PROVE TypeOK /\ StartupOK
  OBVIOUS
<1> DEFINE first(x) == [state |-> IF x \in Initial THEN "live" ELSE "none", closed |-> FALSE,
                        auto |-> x \in Automatic, source |-> None]
<1>1. \A x \in Sessions : first(x) \in Session
  BY DEF Session
<1>2. sess \in [Sessions -> Session]
  <2>1. sess = [x \in Sessions |-> sess[x]]
    BY DEF Init
  <2>2. ASSUME NEW x \in Sessions PROVE sess[x] = first(x)
    BY DEF Init
  <2> HIDE DEF first
  <2> QED BY <1>1, <2>1, <2>2
<1>3. NewRequest \in Call
  BY DEF NewRequest, Call
<1>4. req \in [Requests -> Call] /\ home \in [Work -> Sessions \cup {None}]
  BY <1>3 DEF Init
<1>5. op \in Operation /\ boot \in Startup
  BY DEF Init, Operation, NoBoot, Startup
<1>6. crashes \in 0 .. MaxCrashes
  BY RestartAssumption DEF Init
<1> QED BY <1>2, <1>4, <1>5, <1>6 DEF Init, TypeOK, StartupOK, NoBoot

LEMMA StepType == TypeOK /\ StartupOK /\ [Next]_vars => TypeOK' /\ StartupOK'
<1> SUFFICES ASSUME TypeOK, StartupOK, [Next]_vars PROVE TypeOK' /\ StartupOK'
  OBVIOUS
<1>1. CASE UNCHANGED vars
  BY <1>1 DEF vars, TypeOK, StartupOK
<1>2. ASSUME NEW q \in Requests, Request(q) \/ ClassificationThrows(q) \/ RequestStep(q)
      PROVE  TypeOK' /\ StartupOK'
  <2>1. TypeOK' /\ proc = "up" /\ UNCHANGED <<proc, boot>>
    <3>1. CASE Request(q)
      BY <3>1, RequestEffect DEF Outside
    <3>2. CASE PersistOperation(q) \/ PersistFails(q)
      BY <3>2, PersistEffect DEF Outside
    <3>3. CASE ClassificationThrows(q) \/ PhaseThrows(q)
      BY <3>3, ThrowsEffect DEF Outside
    <3>4. CASE PhaseBegins(q)
      BY <3>4, PhaseEffect DEF Outside
    <3>5. CASE Checkpoint(q) \/ CheckpointFails(q)
      BY <3>5, CheckpointEffect DEF Outside
    <3>6. CASE StopSession(q)
      BY <3>6, StopEffect DEF Outside
    <3>7. CASE StopFails(q)
      BY <3>7, StopFailsEffect DEF Outside
    <3>8. CASE StopsDone(q) \/ Launched(q) \/ RestartRequested(q)
      BY <3>8, LaunchEffect DEF Outside
    <3>9. CASE Rejected(q)
      BY <3>9, RejectedEffect DEF Outside
    <3>10. CASE RestoreBegins(q)
      BY <3>10, RestoreBeginsEffect DEF Outside
    <3>11. CASE Restored(q)
      BY <3>11, RestoredEffect DEF Outside
    <3>12. CASE RestoreFails(q)
      BY <3>12, RestoreFailsEffect DEF Outside
    <3>13. CASE ClearMarker(q)
      BY <3>13, ClearMarkerEffect
    <3>14. CASE Cancelled(q) \/ CancelThrows(q)
      BY <3>14, CancelledEffect DEF Outside
    <3> QED BY <1>2, <3>1, <3>2, <3>3, <3>4, <3>5, <3>6, <3>7, <3>8, <3>9, <3>10, <3>11, <3>12, <3>13,
               <3>14 DEF RequestStep
  <2>2. boot = NoBoot /\ boot' = NoBoot
    BY <2>1 DEF StartupOK
  <2> QED BY <2>1, <2>2 DEF StartupOK, NoBoot
<1>3. CASE Start
  BY <1>3, StartEffect DEF StartupOK, Pending
<1>4. CASE BootSkipsClosed
  BY <1>4, BootSkipsEffect DEF StartupOK
<1>5. CASE BootRestores
  <2>1. boot.todo # {} /\ TypeOK' /\ proc = "boot" /\ UNCHANGED <<proc, marker>>
    BY <1>5, BootRestoresEffect
  <2> QED BY <2>1 DEF StartupOK
<1>6. CASE BootCheckpoints
  BY <1>6, BootCheckpointsEffect DEF StartupOK
<1>7. CASE BootFails
  <2>1. boot.todo # {} /\ TypeOK' /\ proc = "boot" /\ UNCHANGED <<proc, marker>>
    BY <1>7, BootFailsEffect
  <2> QED BY <2>1 DEF StartupOK
<1>8. CASE BootDone
  BY <1>8, BootDoneEffect DEF StartupOK, NoBoot
<1>9. CASE Exit \/ Crash
  BY <1>9, DownEffect DEF StartupOK, NoBoot
<1>10. CASE WorkArrives
  BY <1>10, WorkArrivesEffect DEF StartupOK
<1>11. CASE Close
  BY <1>11, CloseEffect DEF StartupOK
<1> QED BY <1>1, <1>2, <1>3, <1>4, <1>5, <1>6, <1>7, <1>8, <1>9, <1>10, <1>11 DEF Next, BootStep

\* Every record of a session, a call, the disk and the startup is one the code
\* can have written (requestControlledRestart, restoreRestartedSessions).
THEOREM TypeCorrect == Spec => []TypeOK
<1> QED BY InitType, StepType, PTL DEF Spec

-----------------------------------------------------------------------------
(* One replacement for a session *)

Holding == {"requested", "recorded", "draining", "checkpointed", "stopping", "launch", "launched",
            "thrown"}
NoCopy(x) == \A y \in Sessions : sess[y].source # x
Past(x) == sess[x].state \in {"stopped", "lost"}

\* One call holds the drain gate: from its request to its end or its rollback, for
\* good after an exception, or until the process exits for it.
GateOK ==
  /\ \A q \in Requests : /\ req[q].pc \in Holding => gate = q
                         /\ req[q].pc = "launched" => leaving
  /\ gate # None /\ ~leaving => req[gate].pc \in Holding
  /\ gate # None /\ leaving => req[gate].pc \in {"launched", "done"}
  /\ proc # "up" => gate = None /\ ~leaving /\ \A q \in Requests : req[q].pc \in {"new", "done"}

\* What a call lists are sessions that exist.  Those it holds the gate for, and
\* those its rollback still has to recreate, have no replacement.
RequestOK(q) ==
  /\ \A x \in req[q].eligible \cup req[q].todo : sess[x].state # "none"
  /\ \A x \in req[q].stopped : Past(x)
  /\ req[q].failed \subseteq req[q].eligible
  /\ req[q].pc \in Holding \cup {"new"} => req[q].failed = {} /\ req[q].cur = None
  /\ req[q].pc = "new" => req[q].stopped = {} /\ req[q].eligible = {}
  /\ req[q].pc = "rollback" => /\ req[q].todo \subseteq ToRestore(q)
                               /\ req[q].todo \cap req[q].failed = {}
                               /\ req[q].cur \in req[q].todo \cup {None}
                               /\ \A x \in req[q].todo : NoCopy(x)
  /\ gate = q => \A x \in req[q].eligible : NoCopy(x)

\* Rollbacks outlast the gate, and never meet in a session.
Disjoint ==
  \A q, r \in Requests : q # r /\ req[q].pc = "rollback" =>
    /\ req[r].pc = "rollback" => req[q].todo \cap req[r].todo = {}
    /\ gate = r => req[q].todo \cap req[r].eligible = {}

\* What the recovery list still asks for has no replacement, or the step that
\* takes it off the list is to come.
ListOK ==
  /\ marker # None => \A x \in marker.ids : sess[x].state # "none"
  /\ \A x \in Pending \ torn : NoCopy(x) \/ x \in Unlisted

BootOK ==
  /\ proc = "down" => Live = {}
  /\ boot.todo \subseteq Pending
  /\ \A x \in boot.todo : Past(x)
  /\ boot.moved \notin boot.todo

SessOK ==
  /\ \A x \in Sessions : sess[x].state = "none" => sess[x].source = None
  /\ \A x \in Sessions : NoCopy(x) \/ Past(x)
  /\ \A x \in Sessions \ torn, y, z \in Sessions :
       sess[y].source = x /\ sess[z].source = x => y = z

ReplaceInv ==
  /\ TypeOK /\ StartupOK
  /\ GateOK /\ (\A q \in Requests : RequestOK(q)) /\ Disjoint /\ ListOK /\ BootOK /\ SessOK

LEMMA InitReplace == Init => ReplaceInv
<1> SUFFICES ASSUME Init PROVE ReplaceInv
  OBVIOUS
<1>1. \A x \in Sessions : sess[x].source = None /\ sess[x].state \in {"none", "live"} /\ x # None
  BY RestartAssumption DEF Init, Sessions
<1>2. \A q \in Requests : req[q] = NewRequest
  BY DEF Init
<1>3. GateOK /\ Disjoint /\ \A q \in Requests : RequestOK(q)
  BY <1>2 DEF Init, GateOK, Disjoint, RequestOK, Holding, NewRequest
<1>4. ListOK /\ BootOK
  BY <1>2, RestartAssumption DEF Init, ListOK, BootOK, Pending, NoBoot, NewRequest
<1>5. SessOK
  BY <1>1 DEF SessOK, NoCopy
<1> QED BY InitType, <1>3, <1>4, <1>5 DEF ReplaceInv

LEMMA OtherCalls ==
  ASSUME NEW q \in Requests, Others(q), sess' = sess, gate' \in {gate, None, q},
         \A r \in Requests : RequestOK(r)
  PROVE  \A r \in Requests \ {q} : RequestOK(r)'
BY RestartAssumption DEF Others, RequestOK, ToRestore, NoCopy, Past

LEMMA SessStays ==
  ASSUME sess' = sess, torn \subseteq torn', SessOK
  PROVE  SessOK'
BY DEF SessOK, NoCopy, Past

LEMMA BootStays ==
  ASSUME sess' = sess, UNCHANGED <<proc, boot>>, proc = "up", StartupOK
  PROVE  BootOK'
BY DEF BootOK, StartupOK, NoBoot

\* A call that touches neither the list nor a session leaves every listed session
\* unreplaced or between its recreation and the write of the list.
LEMMA ListUntouched ==
  ASSUME ReplaceInv, NEW q \in Requests, Others(q), req[q].pc # "rollback",
         UNCHANGED <<Outside, sess, marker>>
  PROVE  ListOK'
<1>1. ListOK
  BY DEF ReplaceInv
<1>2. Pending' = Pending /\ torn' = torn /\ \A x \in Sessions : NoCopy(x) => NoCopy(x)'
  BY DEF Pending, Outside, NoCopy
<1>3. Unlisted \subseteq Unlisted'
  BY DEF Unlisted, At, Back, ToRestore, Others, Outside
<1>4. Pending \subseteq Sessions
  BY DEF ReplaceInv, TypeOK, Pending, RecoveryLists
<1> QED BY <1>1, <1>2, <1>3, <1>4 DEF ListOK

LEMMA ReplaceRequest ==
  ASSUME ReplaceInv, NEW q \in Requests, Request(q)
  PROVE  ReplaceInv'
<1>1. /\ TypeOK' /\ Others(q)
      /\ proc = "up" /\ req[q].pc = "new" /\ gate = None /\ ~leaving /\ gate' = q
      /\ req'[q].pc = "requested"
      /\ req'[q].eligible = Eligible /\ req'[q].todo = Live
      /\ req'[q].stopped = req[q].stopped /\ req'[q].cur = req[q].cur
      /\ req'[q].failed = req[q].failed
      /\ UNCHANGED <<Outside, sess, home, leaving, marker, op, late>>
  BY RequestEffect DEF ReplaceInv
<1>2. /\ RequestOK(q) /\ GateOK /\ Disjoint /\ ListOK /\ SessOK /\ StartupOK
      /\ \A r \in Requests : RequestOK(r)
      /\ gate \in Requests \cup {None} /\ None \notin Requests
  BY RestartAssumption DEF ReplaceInv, TypeOK
<1>3. GateOK'
  <2>1. gate' # None /\ gate' = q /\ \A r \in Requests : req[r].pc \notin Holding
    BY <1>1, <1>2 DEF GateOK
  <2> QED BY <1>1, <1>2, <2>1 DEF GateOK, Others, Holding, Outside
<1>4. RequestOK(q)'
  BY <1>1, <1>2 DEF RequestOK, SessOK, Eligible, Live, NoCopy, Past, Holding
<1>5. \A r \in Requests \ {q} : RequestOK(r)'
  BY <1>1, <1>2, OtherCalls
<1>6. Disjoint'
  BY <1>1, <1>2 DEF Disjoint, Others, RequestOK, ToRestore, Eligible, Live, Past, GateOK, Holding
<1>7. ListOK'
  BY <1>1, <1>2 DEF ListOK, Others, Keeps, Pending, Unlisted, At, Back, ToRestore, NoCopy, Outside, RequestOK, GateOK, Holding
<1>8. BootOK' /\ SessOK'
  BY <1>1, <1>2, BootStays, SessStays DEF Outside
<1>9. StartupOK'
  BY StepType DEF ReplaceInv, Next, RequestStep
<1> QED BY <1>1, <1>3, <1>4, <1>5, <1>6, <1>7, <1>8, <1>9 DEF ReplaceInv

\* A step that only moves one call on, with the gate or leaving it.
LEMMA ReplaceQuiet ==
  ASSUME ReplaceInv, NEW q \in Requests, TypeOK', StartupOK', GateOK', Others(q), Keeps(q),
         proc = "up", req[q].pc # "rollback", req'[q].pc \notin {"new", "rollback"},
         req'[q].pc \in Holding => req[q].pc \in Holding \cup {"new"},
         gate' \in {gate, None} \/ (gate' = q /\ req[q].pc = "new"),
         UNCHANGED <<Outside, sess, marker>>
  PROVE  ReplaceInv'
<1>1. /\ RequestOK(q) /\ Disjoint /\ SessOK /\ StartupOK
      /\ \A r \in Requests : RequestOK(r)
      /\ gate \in Requests \cup {None} /\ None \notin Requests
  BY RestartAssumption DEF ReplaceInv, TypeOK
<1>2. RequestOK(q)'
  BY <1>1 DEF RequestOK, NoCopy, Past, Keeps
<1>3. \A r \in Requests \ {q} : RequestOK(r)'
  BY <1>1, OtherCalls
<1>4. Disjoint'
  BY <1>1 DEF Disjoint, RequestOK, Others, Keeps
<1>5. BootOK' /\ SessOK'
  BY <1>1, BootStays, SessStays DEF Outside
<1> QED BY <1>2, <1>3, <1>4, <1>5, ListUntouched DEF ReplaceInv

Advances(q) ==
  \/ ClassificationThrows(q) \/ PersistOperation(q) \/ PersistFails(q) \/ PhaseBegins(q)
  \/ PhaseThrows(q) \/ StopsDone(q) \/ Launched(q) \/ RestartRequested(q) \/ Cancelled(q)
  \/ CancelThrows(q)

LEMMA ReplaceAdvances ==
  ASSUME ReplaceInv, NEW q \in Requests, Advances(q)
  PROVE  ReplaceInv'
<1>1. /\ TypeOK /\ GateOK /\ StartupOK'
      /\ gate \in Requests \cup {None} /\ None \notin Requests
  BY RestartAssumption, StepType DEF ReplaceInv, TypeOK, Advances, Next, RequestStep
<1>2. CASE ClassificationThrows(q)
  <2>1. /\ TypeOK' /\ Others(q) /\ Keeps(q)
        /\ proc = "up" /\ req[q].pc = "new" /\ gate = None /\ ~leaving /\ gate' = q
        /\ req'[q].pc = "thrown" /\ UNCHANGED <<Outside, sess, leaving, marker>>
    BY <1>1, <1>2, ThrowsEffect
  <2>2. GateOK'
    <3>1. \A r \in Requests : req[r].pc \notin Holding
      BY <1>1, <2>1 DEF GateOK
    <3> QED BY <1>1, <2>1, <3>1 DEF GateOK, Others, Holding, Outside
  <2> QED BY <1>1, <2>1, <2>2, ReplaceQuiet
<1>3. CASE PersistOperation(q) \/ PhaseBegins(q) \/ PhaseThrows(q) \/ StopsDone(q)
  <2>1. /\ TypeOK' /\ Others(q) /\ Keeps(q) /\ proc = "up"
        /\ req[q].pc \in Holding \ {"launched"} /\ req'[q].pc \in Holding \ {"launched"}
        /\ UNCHANGED <<Outside, sess, gate, leaving, marker>>
    BY <1>1, <1>3, PersistEffect, PhaseEffect, ThrowsEffect, LaunchEffect DEF Holding
  <2>2. GateOK'
    BY <1>1, <2>1 DEF GateOK, Others, Holding, Outside
  <2> QED BY <1>1, <2>1, <2>2, ReplaceQuiet DEF Holding
<1>4. CASE PersistFails(q)
  <2>1. /\ TypeOK' /\ Others(q) /\ Keeps(q)
        /\ proc = "up" /\ req[q].pc = "requested" /\ req'[q].pc = "done" /\ gate' = None
        /\ UNCHANGED <<Outside, sess, leaving, marker>>
    BY <1>1, <1>4, PersistEffect
  <2>2. GateOK'
    BY <1>1, <2>1 DEF GateOK, Others, Holding, Outside
  <2> QED BY <1>1, <2>1, <2>2, ReplaceQuiet DEF Holding
<1>5. CASE Launched(q)
  <2>1. /\ TypeOK' /\ Others(q) /\ Keeps(q)
        /\ proc = "up" /\ req[q].pc = "launch" /\ req'[q].pc = "launched" /\ leaving' = TRUE
        /\ UNCHANGED <<Outside, sess, gate, marker>>
    BY <1>1, <1>5, LaunchEffect
  <2>2. GateOK'
    BY <1>1, <2>1 DEF GateOK, Others, Holding, Outside
  <2> QED BY <1>1, <2>1, <2>2, ReplaceQuiet DEF Holding
<1>6. CASE RestartRequested(q)
  <2>1. /\ TypeOK' /\ Others(q) /\ Keeps(q)
        /\ proc = "up" /\ req[q].pc = "launched" /\ req'[q].pc = "done"
        /\ UNCHANGED <<Outside, sess, gate, leaving, marker>>
    BY <1>1, <1>6, LaunchEffect
  <2>2. GateOK'
    BY <1>1, <2>1 DEF GateOK, Others, Holding, Outside
  <2> QED BY <1>1, <2>1, <2>2, ReplaceQuiet DEF Holding
<1>7. CASE Cancelled(q) \/ CancelThrows(q)
  <2>1. /\ TypeOK' /\ Others(q) /\ Keeps(q)
        /\ proc = "up" /\ req[q].pc = "cleared" /\ req'[q].pc = "done"
        /\ UNCHANGED <<Outside, sess, gate, leaving, marker>>
    BY <1>1, <1>7, CancelledEffect
  <2>2. GateOK'
    BY <1>1, <2>1 DEF GateOK, Others, Holding, Outside
  <2> QED BY <1>1, <2>1, <2>2, ReplaceQuiet DEF Holding
<1> QED BY <1>2, <1>3, <1>4, <1>5, <1>6, <1>7 DEF Advances

LEMMA ReplaceCheckpoint ==
  ASSUME ReplaceInv, NEW q \in Requests, Checkpoint(q)
  PROVE  ReplaceInv'
<1>1. /\ TypeOK' /\ Others(q) /\ Keeps(q)
      /\ proc = "up" /\ req[q].pc = "draining" /\ req'[q].pc = "checkpointed"
      /\ marker' = RecoveryList(q)
      /\ UNCHANGED <<Outside, sess, home, gate, leaving, late>>
  BY CheckpointEffect DEF ReplaceInv
<1>2. /\ RequestOK(q) /\ GateOK /\ Disjoint /\ ListOK /\ SessOK /\ StartupOK
      /\ \A r \in Requests : RequestOK(r)
      /\ gate \in Requests \cup {None} /\ None \notin Requests
  BY RestartAssumption DEF ReplaceInv, TypeOK
<1>3. GateOK'
  BY <1>1, <1>2 DEF GateOK, Others, Holding, Outside
<1>4. RequestOK(q)'
  BY <1>1, <1>2 DEF RequestOK, ToRestore, NoCopy, Past, Keeps, Holding
<1>5. \A r \in Requests \ {q} : RequestOK(r)'
  BY <1>1, <1>2, OtherCalls
<1>6. Disjoint'
  BY <1>1, <1>2 DEF Disjoint, Others, Keeps, GateOK, Holding
<1>7. ListOK'
  <2>1. Pending' \subseteq req[q].eligible /\ marker'.ids = req[q].eligible
    BY <1>1 DEF Pending, RecoveryList
  <2>2. \A x \in req[q].eligible : sess'[x].state # "none" /\ NoCopy(x)'
    BY <1>1, <1>2 DEF RequestOK, NoCopy, GateOK, Holding
  <2> QED BY <2>1, <2>2 DEF ListOK
<1>8. BootOK' /\ SessOK'
  BY <1>1, <1>2, BootStays, SessStays DEF Outside
<1>9. StartupOK'
  BY StepType DEF ReplaceInv, Next, RequestStep
<1> QED BY <1>1, <1>3, <1>4, <1>5, <1>6, <1>7, <1>8, <1>9 DEF ReplaceInv

LEMMA ReplaceCheckpointFails ==
  ASSUME ReplaceInv, NEW q \in Requests, CheckpointFails(q)
  PROVE  ReplaceInv'
<1>1. /\ TypeOK' /\ Others(q) /\ Keeps(q)
      /\ proc = "up" /\ req[q].pc = "draining" /\ req'[q].pc = "done" /\ gate' = None
      /\ marker' \in {marker, RecoveryList(q)}
      /\ UNCHANGED <<Outside, sess, home, leaving, late>>
  BY CheckpointEffect DEF ReplaceInv
<1>2. /\ RequestOK(q) /\ GateOK /\ Disjoint /\ ListOK /\ SessOK /\ StartupOK
      /\ \A r \in Requests : RequestOK(r)
      /\ gate \in Requests \cup {None} /\ None \notin Requests
  BY RestartAssumption DEF ReplaceInv, TypeOK
<1>3. GateOK'
  BY <1>1, <1>2 DEF GateOK, Others, Holding, Outside
<1>4. RequestOK(q)'
  BY <1>1, <1>2 DEF RequestOK, ToRestore, NoCopy, Past, Keeps, Holding
<1>5. \A r \in Requests \ {q} : RequestOK(r)'
  BY <1>1, <1>2, OtherCalls
<1>6. Disjoint'
  BY <1>1, <1>2 DEF Disjoint, Others, Keeps, GateOK, Holding
<1>7. ListOK'
  <2>1. gate = q
    BY <1>1, <1>2 DEF GateOK, Holding
  <2>2. \A x \in req[q].eligible : sess'[x].state # "none" /\ NoCopy(x)'
    BY <1>1, <1>2, <2>1 DEF RequestOK, NoCopy
  <2>3. \A x \in Sessions : NoCopy(x) => NoCopy(x)'
    BY <1>1 DEF NoCopy
  <2>4. Unlisted \subseteq Unlisted'
    BY <1>1 DEF Unlisted, At, Back, ToRestore, Others, Outside
  <2>5. Pending' \subseteq Pending \/ Pending' \subseteq req[q].eligible
    BY <1>1 DEF Pending, RecoveryList
  <2>6. marker' # None => \A x \in marker'.ids : sess'[x].state # "none"
    BY <1>1, <1>2, <2>2 DEF ListOK, RecoveryList
  <2>7. Pending \subseteq Sessions /\ torn' = torn
    BY <1>1 DEF ReplaceInv, TypeOK, Pending, RecoveryLists, Outside
  <2>8. \A x \in Pending' \ torn' : NoCopy(x)' \/ x \in Unlisted'
    BY <1>2, <2>2, <2>3, <2>4, <2>5, <2>7 DEF ListOK
  <2> QED BY <2>6, <2>8 DEF ListOK
<1>8. BootOK' /\ SessOK'
  BY <1>1, <1>2, BootStays, SessStays DEF Outside
<1>9. StartupOK'
  BY StepType DEF ReplaceInv, Next, RequestStep
<1> QED BY <1>1, <1>3, <1>4, <1>5, <1>6, <1>7, <1>8, <1>9 DEF ReplaceInv

LEMMA ReplaceStopFails ==
  ASSUME ReplaceInv, NEW q \in Requests, StopFails(q)
  PROVE  ReplaceInv'
<1>1. /\ TypeOK' /\ Others(q)
      /\ proc = "up" /\ req[q].pc = "stopping" /\ req'[q].pc = "stopping"
      /\ req'[q].eligible = req[q].eligible /\ req'[q].cur = req[q].cur
      /\ req'[q].failed = req[q].failed /\ req'[q].stopped = req[q].stopped
      /\ req'[q].todo \subseteq req[q].todo
      /\ UNCHANGED <<Outside, sess, home, gate, leaving, marker, op, late>>
  BY StopFailsEffect DEF ReplaceInv
<1>2. /\ RequestOK(q) /\ GateOK /\ Disjoint /\ ListOK /\ SessOK /\ StartupOK
      /\ \A r \in Requests : RequestOK(r)
      /\ gate \in Requests \cup {None} /\ None \notin Requests
  BY RestartAssumption DEF ReplaceInv, TypeOK
<1>3. GateOK'
  BY <1>1, <1>2 DEF GateOK, Others, Holding, Outside
<1>4. RequestOK(q)'
  BY <1>1, <1>2 DEF RequestOK, ToRestore, NoCopy, Past, Keeps, Holding
<1>5. \A r \in Requests \ {q} : RequestOK(r)'
  BY <1>1, <1>2, OtherCalls
<1>6. Disjoint'
  BY <1>1, <1>2 DEF Disjoint, Others, Keeps, GateOK, Holding
<1>7. ListOK'
  BY <1>1, <1>2 DEF ListOK, Others, Keeps, Pending, Unlisted, At, Back, ToRestore, NoCopy, Outside, RequestOK, GateOK, Holding
<1>8. BootOK' /\ SessOK'
  BY <1>1, <1>2, BootStays, SessStays DEF Outside
<1>9. StartupOK'
  BY StepType DEF ReplaceInv, Next, RequestStep
<1> QED BY <1>1, <1>3, <1>4, <1>5, <1>6, <1>7, <1>8, <1>9 DEF ReplaceInv

LEMMA ReplaceRejected ==
  ASSUME ReplaceInv, NEW q \in Requests, Rejected(q)
  PROVE  ReplaceInv'
<1>1. /\ TypeOK' /\ Others(q)
      /\ proc = "up" /\ req[q].pc \in {"stopping", "launch", "launched"} /\ req'[q].pc = "rollback"
      /\ gate' = IF gate = q THEN None ELSE gate
      /\ req'[q].eligible = req[q].eligible /\ req'[q].cur = req[q].cur
      /\ req'[q].failed = req[q].failed /\ req'[q].stopped = req[q].stopped
      /\ req'[q].todo = ToRestore(q)
      /\ UNCHANGED <<Outside, sess, home, leaving, marker, op, late>>
  BY RejectedEffect DEF ReplaceInv
<1>2. /\ RequestOK(q) /\ GateOK /\ Disjoint /\ ListOK /\ SessOK /\ StartupOK
      /\ \A r \in Requests : RequestOK(r)
      /\ gate \in Requests \cup {None} /\ None \notin Requests
  BY RestartAssumption DEF ReplaceInv, TypeOK
<1>3. GateOK'
  BY <1>1, <1>2 DEF GateOK, Others, Holding, Outside
<1>4. RequestOK(q)'
  BY <1>1, <1>2 DEF RequestOK, ToRestore, NoCopy, Past, GateOK, Holding
<1>5. \A r \in Requests \ {q} : RequestOK(r)'
  BY <1>1, <1>2, OtherCalls
<1>6. Disjoint'
  <2>1. gate = q /\ gate' = None
    BY <1>1, <1>2 DEF GateOK, Holding
  <2>2. req'[q].todo \subseteq req[q].eligible
    BY <1>1 DEF ToRestore
  <2>3. \A r \in Requests \ {q} : /\ req'[r] = req[r]
                                  /\ req[r].pc = "rollback" => req[r].todo \cap req[q].eligible = {}
    BY <1>1, <1>2, <2>1 DEF Disjoint, Others
  <2> QED BY <1>1, <1>2, <2>1, <2>2, <2>3 DEF Disjoint
<1>7. ListOK'
  BY <1>1, <1>2 DEF ListOK, Others, Keeps, Pending, Unlisted, At, Back, ToRestore, NoCopy, Outside, RequestOK, GateOK, Holding
<1>8. BootOK' /\ SessOK'
  BY <1>1, <1>2, BootStays, SessStays DEF Outside
<1>9. StartupOK'
  BY StepType DEF ReplaceInv, Next, RequestStep
<1> QED BY <1>1, <1>3, <1>4, <1>5, <1>6, <1>7, <1>8, <1>9 DEF ReplaceInv

LEMMA ReplaceRestoreBegins ==
  ASSUME ReplaceInv, NEW q \in Requests, RestoreBegins(q)
  PROVE  ReplaceInv'
<1>1. /\ TypeOK' /\ Others(q)
      /\ proc = "up" /\ req[q].pc = "rollback" /\ req'[q].pc = "rollback"
      /\ req'[q].eligible = req[q].eligible /\ req'[q].todo = req[q].todo
      /\ req'[q].failed = req[q].failed /\ req'[q].stopped = req[q].stopped
      /\ req'[q].cur \in req[q].todo
      /\ UNCHANGED <<Outside, sess, home, gate, leaving, marker, op, late>>
  BY RestoreBeginsEffect DEF ReplaceInv
<1>2. /\ RequestOK(q) /\ GateOK /\ Disjoint /\ ListOK /\ SessOK /\ StartupOK
      /\ \A r \in Requests : RequestOK(r)
      /\ gate \in Requests \cup {None} /\ None \notin Requests
  BY RestartAssumption DEF ReplaceInv, TypeOK
<1>3. GateOK'
  BY <1>1, <1>2 DEF GateOK, Others, Holding, Outside
<1>4. RequestOK(q)'
  BY <1>1, <1>2 DEF RequestOK, ToRestore, NoCopy, Past, Keeps, Holding
<1>5. \A r \in Requests \ {q} : RequestOK(r)'
  BY <1>1, <1>2, OtherCalls
<1>6. Disjoint'
  BY <1>1, <1>2 DEF Disjoint, Others, Keeps, GateOK, Holding
<1>7. ListOK'
  BY <1>1, <1>2 DEF ListOK, Others, Keeps, Pending, Unlisted, At, Back, ToRestore, NoCopy, Outside, RequestOK, GateOK, Holding
<1>8. BootOK' /\ SessOK'
  BY <1>1, <1>2, BootStays, SessStays DEF Outside
<1>9. StartupOK'
  BY StepType DEF ReplaceInv, Next, RequestStep
<1> QED BY <1>1, <1>3, <1>4, <1>5, <1>6, <1>7, <1>8, <1>9 DEF ReplaceInv

LEMMA ReplaceRestoreFails ==
  ASSUME ReplaceInv, NEW q \in Requests, RestoreFails(q)
  PROVE  ReplaceInv'
<1>1. /\ TypeOK' /\ Others(q)
      /\ proc = "up" /\ req[q].pc = "rollback" /\ req'[q].pc = "rollback"
      /\ req'[q].eligible = req[q].eligible /\ req'[q].stopped = req[q].stopped
      /\ req'[q].cur = None
      /\ \E x \in req[q].todo : /\ req'[q].todo = req[q].todo \ {x}
                                /\ req'[q].failed = req[q].failed \cup {x}
      /\ UNCHANGED <<Outside, sess, home, gate, leaving, marker, op, late>>
  BY RestoreFailsEffect DEF ReplaceInv
<1>2. /\ RequestOK(q) /\ GateOK /\ Disjoint /\ ListOK /\ SessOK /\ StartupOK
      /\ \A r \in Requests : RequestOK(r)
      /\ gate \in Requests \cup {None} /\ None \notin Requests
  BY RestartAssumption DEF ReplaceInv, TypeOK
<1>3. GateOK'
  BY <1>1, <1>2 DEF GateOK, Others, Holding, Outside
<1>4. RequestOK(q)'
  BY <1>1, <1>2 DEF RequestOK, ToRestore, NoCopy, Past, Keeps, Holding
<1>5. \A r \in Requests \ {q} : RequestOK(r)'
  BY <1>1, <1>2, OtherCalls
<1>6. Disjoint'
  BY <1>1, <1>2 DEF Disjoint, Others, Keeps, GateOK, Holding
<1>7. ListOK'
  BY <1>1, <1>2 DEF ListOK, Others, Keeps, Pending, Unlisted, At, Back, ToRestore, NoCopy, Outside, RequestOK, GateOK, Holding
<1>8. BootOK' /\ SessOK'
  BY <1>1, <1>2, BootStays, SessStays DEF Outside
<1>9. StartupOK'
  BY StepType DEF ReplaceInv, Next, RequestStep
<1> QED BY <1>1, <1>3, <1>4, <1>5, <1>6, <1>7, <1>8, <1>9 DEF ReplaceInv

LEMMA ReplaceClearMarker ==
  ASSUME ReplaceInv, NEW q \in Requests, ClearMarker(q)
  PROVE  ReplaceInv'
<1>1. /\ TypeOK' /\ Others(q) /\ Keeps(q)
      /\ proc = "up" /\ req[q].pc = "rollback" /\ req'[q].pc = "cleared" /\ req[q].todo = {}
      /\ \/ marker' = None /\ torn' = torn
         \/ marker' = marker /\ torn' = torn \cup Back(q)
      /\ UNCHANGED <<proc, boot, sess, gate, leaving>>
  BY ClearMarkerEffect DEF ReplaceInv
<1>2. /\ RequestOK(q) /\ GateOK /\ Disjoint /\ ListOK /\ SessOK /\ StartupOK
      /\ \A r \in Requests : RequestOK(r)
      /\ gate \in Requests \cup {None} /\ None \notin Requests
  BY RestartAssumption DEF ReplaceInv, TypeOK
<1>3. GateOK'
  BY <1>1, <1>2 DEF GateOK, Others, Holding
<1>4. RequestOK(q)'
  BY <1>1, <1>2 DEF RequestOK, NoCopy, Past, Keeps, Holding
<1>5. \A r \in Requests \ {q} : RequestOK(r)'
  BY <1>1, <1>2, OtherCalls
<1>6. Disjoint'
  BY <1>1, <1>2 DEF Disjoint, Others, Keeps
<1>7. ListOK'
  <2>1. CASE marker' = None
    BY <2>1 DEF ListOK, Pending
  <2>2. CASE marker' = marker /\ torn' = torn \cup Back(q)
    <3>1. Pending' = Pending /\ Pending \subseteq Sessions
      BY <2>2 DEF ReplaceInv, TypeOK, Pending, RecoveryLists
    <3>2. ASSUME NEW x \in Unlisted, x \notin Back(q) PROVE x \in Unlisted'
      BY <1>1, <3>2 DEF Unlisted, At, Back, ToRestore, Others
    <3>3. \A x \in Pending' \ torn' : NoCopy(x)' \/ x \in Unlisted'
      BY <1>1, <1>2, <2>2, <3>1, <3>2 DEF ListOK, NoCopy
    <3> QED BY <1>1, <1>2, <2>2, <3>3 DEF ListOK
  <2> QED BY <1>1, <2>1, <2>2
<1>8. BootOK' /\ SessOK'
  BY <1>1, <1>2, BootStays, SessStays
<1>9. StartupOK'
  BY StepType DEF ReplaceInv, Next, RequestStep
<1> QED BY <1>1, <1>3, <1>4, <1>5, <1>6, <1>7, <1>8, <1>9 DEF ReplaceInv

\* Sessions end, and get replacements, once they have ended.
LEMMA StopsAreKept ==
  ASSUME SessOK, torn \subseteq torn',
         \A x \in Sessions : /\ sess'[x].source = sess[x].source
                             /\ \/ sess'[x].state = sess[x].state
                                \/ sess[x].state \in {"live", "stopped"} /\ Past(x)'
  PROVE  /\ SessOK'
         /\ \A x \in Sessions : /\ NoCopy(x) => NoCopy(x)'
                                /\ Past(x) => Past(x)'
                                /\ sess[x].state # "none" => sess'[x].state # "none"
<1>1. \A x \in Sessions : NoCopy(x)' <=> NoCopy(x)
  BY DEF NoCopy
<1>2. \A x \in Sessions : /\ Past(x) => Past(x)'
                          /\ sess[x].state = "none" <=> sess'[x].state = "none"
  BY DEF Past
<1>3. SessOK'
  BY <1>1, <1>2 DEF SessOK
<1> QED BY <1>1, <1>2, <1>3

LEMMA ReplacedKeeps ==
  ASSUME SessOK, NEW x \in Sessions, NEW y \in Sessions, Replaced(x, y), torn' = torn,
         Past(x), NoCopy(x) \/ x \in torn
  PROVE  /\ SessOK'
         /\ \A z \in Sessions : /\ NoCopy(z) /\ z # x => NoCopy(z)'
                                /\ Past(z) => Past(z)'
                                /\ sess[z].state # "none" => sess'[z] = sess[z]
                                /\ sess[z].state # "none" => sess'[z].state # "none"
         /\ ~NoCopy(x)'
<1>1. \A z \in Sessions : NoCopy(z) /\ z # x => NoCopy(z)'
  BY DEF NoCopy, Replaced
<1>2. \A z \in Sessions : sess[z].state # "none" => z # y /\ sess'[z] = sess[z]
  BY DEF Replaced
<1>3. \A z \in Sessions : Past(z) => Past(z)'
  BY <1>2 DEF Past
<1>4. x # y /\ NoCopy(y)'
  <2>1. x # y
    BY <1>2 DEF Past, Replaced
  <2>2. NoCopy(y)
    BY DEF SessOK, Past, Replaced
  <2> QED BY <1>1, <2>1, <2>2
<1>5. \A z \in Sessions : NoCopy(z)' \/ Past(z)'
  BY <1>1, <1>3, <1>4 DEF SessOK
<1>6. ASSUME NEW z \in Sessions \ torn', NEW u \in Sessions, NEW v \in Sessions,
             sess'[u].source = z, sess'[v].source = z
      PROVE  u = v
  <2>1. CASE z = x
    BY <1>6, <2>1 DEF NoCopy, Replaced
  <2>2. CASE z # x
    BY <1>6, <2>2 DEF SessOK, Replaced
  <2> QED BY <2>1, <2>2
<1>7. \A z \in Sessions : sess'[z].state = "none" => sess'[z].source = None
  BY DEF SessOK, Replaced
<1> QED BY <1>1, <1>2, <1>3, <1>5, <1>6, <1>7 DEF SessOK, NoCopy, Replaced

\* Where only sessions change, what the calls and the disk say of them stays true.
LEMMA ListsStay ==
  ASSUME ReplaceInv, UNCHANGED <<proc, gate, req, leaving, marker, boot, torn>>,
         \A x \in Sessions : /\ NoCopy(x) => NoCopy(x)'
                             /\ Past(x) => Past(x)'
                             /\ sess[x].state # "none" => sess'[x].state # "none",
         proc = "down" => sess' = sess
  PROVE  GateOK' /\ (\A q \in Requests : RequestOK(q)') /\ Disjoint' /\ ListOK' /\ BootOK'
<1>1. /\ GateOK /\ (\A q \in Requests : RequestOK(q)) /\ Disjoint /\ ListOK /\ BootOK /\ TypeOK
  BY DEF ReplaceInv
<1>2. GateOK' /\ Disjoint'
  BY <1>1 DEF GateOK, Disjoint
<1>3. ASSUME NEW q \in Requests PROVE RequestOK(q)'
  <2>1. RequestOK(q) /\ req[q] \in Call
    BY <1>1 DEF TypeOK
  <2>2. /\ req[q].eligible \subseteq Sessions /\ req[q].todo \subseteq Sessions
        /\ req[q].stopped \subseteq Sessions
    BY <2>1 DEF Call
  <2> QED BY <2>1, <2>2 DEF RequestOK, ToRestore
<1>4. Pending \subseteq Sessions /\ (marker # None => marker.ids \subseteq Sessions)
  BY <1>1 DEF TypeOK, Pending, RecoveryLists
<1>5. Pending' = Pending /\ Unlisted' = Unlisted
  BY DEF Pending, Unlisted, At, Back, ToRestore
<1>6. ListOK'
  BY <1>1, <1>4, <1>5 DEF ListOK
<1>7. BootOK'
  <2>1. boot.todo \subseteq Sessions
    BY <1>1 DEF TypeOK, Startup
  <2>2. proc = "down" => Live' = {}
    BY <1>1 DEF BootOK, Live
  <2> QED BY <1>1, <1>5, <2>1, <2>2 DEF BootOK
<1> QED BY <1>2, <1>3, <1>6, <1>7

LEMMA ReplaceStopSession ==
  ASSUME ReplaceInv, NEW q \in Requests, StopSession(q)
  PROVE  ReplaceInv'
<1>1. PICK x \in req[q].todo :
        /\ req'[q].todo = req[q].todo \ {x}
        /\ req'[q].stopped = req[q].stopped \cup {x}
        /\ sess'[x].state = IF sess[x].state = "live" THEN "stopped" ELSE sess[x].state
        /\ sess'[x].source = sess[x].source
        /\ \A y \in Sessions : y # x => sess'[y] = sess[y]
  BY StopEffect DEF ReplaceInv
<1>2. /\ TypeOK' /\ Others(q)
      /\ proc = "up" /\ req[q].pc = "stopping" /\ req'[q].pc = "stopping"
      /\ req'[q].eligible = req[q].eligible /\ req'[q].cur = req[q].cur
      /\ req'[q].failed = req[q].failed
      /\ UNCHANGED <<Outside, home, gate, leaving, marker, op, late>>
  BY StopEffect DEF ReplaceInv
<1>3. /\ RequestOK(q) /\ GateOK /\ Disjoint /\ ListOK /\ SessOK /\ StartupOK /\ TypeOK
      /\ \A r \in Requests : RequestOK(r)
      /\ gate \in Requests \cup {None} /\ None \notin Requests
  BY RestartAssumption DEF ReplaceInv, TypeOK
<1>4. x \in Sessions /\ sess[x].state \in {"live", "stopped", "lost"}
  <2>1. x \in Sessions
    BY <1>3 DEF TypeOK, Call
  <2>2. sess[x].state \in {"none", "live", "stopped", "lost"}
    BY <1>3, <2>1 DEF TypeOK, Session
  <2> QED BY <1>3, <2>1, <2>2 DEF RequestOK
<1>5. Past(x)'
  BY <1>1, <1>4 DEF Past
<1>6. /\ SessOK'
      /\ \A y \in Sessions : /\ NoCopy(y) => NoCopy(y)'
                             /\ Past(y) => Past(y)'
                             /\ sess[y].state # "none" => sess'[y].state # "none"
  <2>1. \A y \in Sessions : /\ sess'[y].source = sess[y].source
                            /\ \/ sess'[y].state = sess[y].state
                               \/ sess[y].state \in {"live", "stopped"} /\ Past(y)'
    BY <1>1, <1>4, <1>5
  <2> QED BY <1>2, <1>3, <2>1, StopsAreKept DEF Outside
<1>7. ASSUME NEW r \in Requests
      PROVE  /\ req[r].eligible \subseteq Sessions /\ req[r].todo \subseteq Sessions
             /\ req[r].stopped \subseteq Sessions
  BY <1>3 DEF TypeOK, Call
<1>8. GateOK'
  BY <1>2, <1>3 DEF GateOK, Others, Holding, Outside
<1>9. RequestOK(q)'
  BY <1>1, <1>2, <1>3, <1>4, <1>5, <1>6, <1>7 DEF RequestOK
<1>10. ASSUME NEW r \in Requests, r # q PROVE RequestOK(r)'
  <2>1. RequestOK(r) /\ req'[r] = req[r] /\ gate' = gate
    BY <1>2, <1>3, <1>10 DEF Others
  <2> QED BY <1>6, <1>7, <2>1 DEF RequestOK, ToRestore
<1>11. Disjoint'
  BY <1>2, <1>3 DEF Disjoint, Others
<1>12. ListOK'
  <2>1. Pending' = Pending /\ Unlisted \subseteq Unlisted'
    BY <1>2 DEF Pending, Unlisted, At, Back, ToRestore, Others, Outside
  <2>2. Pending \subseteq Sessions /\ (marker # None => marker.ids \subseteq Sessions)
    BY <1>3 DEF TypeOK, Pending, RecoveryLists
  <2> QED BY <1>2, <1>3, <1>6, <2>1, <2>2 DEF ListOK, Outside
<1>13. BootOK'
  BY <1>2, <1>3 DEF BootOK, StartupOK, NoBoot, Outside
<1>14. StartupOK'
  BY StepType DEF ReplaceInv, Next, RequestStep
<1> QED BY <1>2, <1>6, <1>8, <1>9, <1>10, <1>11, <1>12, <1>13, <1>14 DEF ReplaceInv

LEMMA ReplaceRestored ==
  ASSUME ReplaceInv, NEW q \in Requests, Restored(q)
  PROVE  ReplaceInv'
<1> DEFINE x == req[q].cur
<1>1. /\ TypeOK' /\ Others(q)
      /\ proc = "up" /\ req[q].pc = "rollback" /\ req'[q].pc = "rollback"
      /\ req'[q].eligible = req[q].eligible /\ req'[q].stopped = req[q].stopped
      /\ req'[q].failed = req[q].failed
      /\ x \in Sessions /\ req'[q].cur = None
      /\ req'[q].todo = req[q].todo \ {x}
      /\ UNCHANGED <<Outside, gate, leaving, marker, op, late>>
  BY RestoredEffect DEF ReplaceInv
<1>2. PICK y \in Sessions : Replaced(x, y)
  BY RestoredEffect DEF ReplaceInv
<1>3. /\ RequestOK(q) /\ GateOK /\ Disjoint /\ ListOK /\ SessOK /\ StartupOK /\ TypeOK
      /\ \A r \in Requests : RequestOK(r)
      /\ gate \in Requests \cup {None} /\ None \notin Requests /\ None \notin Sessions
  BY RestartAssumption DEF ReplaceInv, TypeOK, Sessions
<1>4. /\ x \in req[q].todo /\ x \in ToRestore(q) /\ x \notin req[q].failed
      /\ Past(x) /\ NoCopy(x)
  BY <1>1, <1>3 DEF RequestOK, ToRestore
<1>5. /\ SessOK'
      /\ \A z \in Sessions : /\ NoCopy(z) /\ z # x => NoCopy(z)'
                             /\ Past(z) => Past(z)'
                             /\ sess[z].state # "none" => sess'[z].state # "none"
  BY <1>1, <1>2, <1>3, <1>4, ReplacedKeeps DEF Outside
<1>6. ASSUME NEW r \in Requests
      PROVE  /\ req[r].eligible \subseteq Sessions /\ req[r].todo \subseteq Sessions
             /\ req[r].stopped \subseteq Sessions
  BY <1>3 DEF TypeOK, Call
<1>7. gate # q
  BY <1>1, <1>3 DEF GateOK, Holding
<1> HIDE DEF x
<1>8. GateOK'
  BY <1>1, <1>3 DEF GateOK, Others, Holding, Outside
<1>9. RequestOK(q)'
  <2>1. ToRestore(q)' = ToRestore(q)
    BY <1>1 DEF ToRestore
  <2> QED BY <1>1, <1>3, <1>5, <1>6, <1>7, <2>1 DEF RequestOK, Holding
<1>10. ASSUME NEW r \in Requests, r # q PROVE RequestOK(r)'
  <2>1. RequestOK(r) /\ req'[r] = req[r] /\ gate' = gate
    BY <1>1, <1>3, <1>10 DEF Others
  <2>2. /\ req[r].pc = "rollback" => x \notin req[r].todo
        /\ gate = r => x \notin req[r].eligible
    BY <1>1, <1>3, <1>4, <1>10 DEF Disjoint
  <2> QED BY <1>5, <1>6, <2>1, <2>2 DEF RequestOK, ToRestore
<1>11. Disjoint'
  BY <1>1, <1>3 DEF Disjoint, Others
<1>12. ListOK'
  <2>1. Pending' = Pending
    BY <1>1 DEF Pending
  <2>2. x \in Unlisted' /\ Unlisted \subseteq Unlisted'
    BY <1>1, <1>4 DEF Unlisted, At, Back, ToRestore, Others, Outside
  <2>3. Pending \subseteq Sessions /\ (marker # None => marker.ids \subseteq Sessions)
    BY <1>3 DEF TypeOK, Pending, RecoveryLists
  <2> QED BY <1>1, <1>3, <1>5, <2>1, <2>2, <2>3 DEF ListOK, Outside
<1>13. BootOK'
  BY <1>1, <1>3 DEF BootOK, StartupOK, NoBoot, Outside
<1>14. StartupOK'
  BY StepType DEF ReplaceInv, Next, RequestStep
<1> QED BY <1>1, <1>5, <1>8, <1>9, <1>10, <1>11, <1>12, <1>13, <1>14 DEF ReplaceInv

\* While the process starts there are no calls, and what was taken off the list of
\* this startup is only the session just replaced.
LEMMA StartingFacts ==
  ASSUME ReplaceInv, proc # "up"
  PROVE  /\ gate = None /\ ~leaving
         /\ \A q \in Requests : req[q].pc \in {"new", "done"}
         /\ Unlisted = {x \in Sessions : boot.moved = x}
         /\ GateOK /\ Disjoint /\ ListOK /\ BootOK /\ SessOK /\ StartupOK /\ TypeOK
         /\ \A q \in Requests : RequestOK(q)
         /\ Pending \subseteq Sessions /\ None \notin Sessions /\ None \notin Requests
<1>1. /\ GateOK /\ Disjoint /\ ListOK /\ BootOK /\ SessOK /\ StartupOK /\ TypeOK
      /\ \A q \in Requests : RequestOK(q)
  BY DEF ReplaceInv
<1>2. gate = None /\ ~leaving /\ \A q \in Requests : req[q].pc \in {"new", "done"}
  BY <1>1 DEF GateOK, TypeOK
<1>3. Pending \subseteq Sessions
  BY <1>1 DEF TypeOK, Pending, RecoveryLists
<1> QED BY <1>1, <1>2, <1>3, RestartAssumption DEF Unlisted, At, Sessions

\* ... so only the recovery list and the startup can go wrong.
LEMMA StartingStep ==
  ASSUME ReplaceInv, proc # "up", proc' # "down", sess' = sess, UNCHANGED <<gate, req, leaving, torn>>,
         TypeOK', StartupOK',
         marker' # None => marker # None /\ marker'.ids = marker.ids,
         Pending' \subseteq Pending,
         \A x \in Pending' \ torn : NoCopy(x),
         boot'.todo \subseteq Pending', \A x \in boot'.todo : Past(x),
         boot'.moved = None
  PROVE  ReplaceInv'
<1>1. /\ gate = None /\ ~leaving
      /\ \A q \in Requests : req[q].pc \in {"new", "done"}
      /\ GateOK /\ Disjoint /\ ListOK /\ SessOK /\ None \notin Sessions /\ None \notin Requests
      /\ \A q \in Requests : RequestOK(q)
  BY StartingFacts
<1>2. GateOK' /\ Disjoint' /\ \A q \in Requests : RequestOK(q)'
  BY <1>1 DEF GateOK, Disjoint, RequestOK, ToRestore, NoCopy, Past, Holding
<1>3. ListOK'
  BY <1>1 DEF ListOK, NoCopy
<1>4. BootOK'
  <2>1. boot'.todo \subseteq Sessions
    BY DEF TypeOK, Startup
  <2> QED BY <1>1, <2>1 DEF BootOK, Past
<1>5. SessOK'
  BY <1>1, SessStays
<1> QED BY <1>2, <1>3, <1>4, <1>5 DEF ReplaceInv

LEMMA ReplaceStart ==
  ASSUME ReplaceInv, Start
  PROVE  ReplaceInv'
<1>1. /\ TypeOK'
      /\ proc = "down" /\ proc' = "boot"
      /\ boot'.todo = Pending /\ boot'.failed = {} /\ boot'.moved = None
      /\ UNCHANGED <<sess, home, gate, req, leaving, marker, op, crashes, torn, late>>
  BY StartEffect DEF ReplaceInv
<1>2. /\ Unlisted = {x \in Sessions : boot.moved = x}
      /\ ListOK /\ BootOK /\ StartupOK /\ TypeOK
      /\ Pending \subseteq Sessions /\ None \notin Sessions
  BY <1>1, StartingFacts
<1>3. Pending' = Pending
  BY <1>1 DEF Pending
<1>4. \A x \in Pending \ torn : NoCopy(x)
  <2>1. Unlisted = {}
    BY <1>1, <1>2 DEF StartupOK, NoBoot
  <2> QED BY <1>2, <2>1 DEF ListOK
<1>5. \A x \in Pending : Past(x)
  <2>1. \A x \in Pending : sess[x].state # "none"
    BY <1>2 DEF ListOK, Pending
  <2>2. \A x \in Sessions : sess[x].state \in {"none", "stopped", "lost"}
    BY <1>1, <1>2 DEF BootOK, Live, TypeOK, Session
  <2> QED BY <1>2, <2>1, <2>2 DEF Past
<1>6. StartupOK'
  BY StepType DEF ReplaceInv, Next, BootStep
<1> QED BY <1>1, <1>3, <1>4, <1>5, <1>6, StartingStep

LEMMA ReplaceBootStep ==
  ASSUME ReplaceInv, BootSkipsClosed \/ BootCheckpoints \/ BootFails \/ BootDone
  PROVE  ReplaceInv'
<1>1. StartupOK' /\ TypeOK /\ StartupOK
  BY StepType DEF ReplaceInv, Next, BootStep
<1>2. /\ TypeOK' /\ proc = "boot" /\ proc' # "down"
      /\ boot'.todo \subseteq boot.todo /\ boot'.moved = None
      /\ UNCHANGED <<sess, gate, req, leaving, torn>>
  <2>1. CASE BootSkipsClosed
    BY <1>1, <2>1, BootSkipsEffect
  <2>2. CASE BootCheckpoints
    BY <1>1, <2>2, BootCheckpointsEffect
  <2>3. CASE BootFails
    BY <1>1, <2>3, BootFailsEffect
  <2>4. CASE BootDone
    BY <1>1, <2>4, BootDoneEffect DEF NoBoot
  <2> QED BY <2>1, <2>2, <2>3, <2>4
<1>3. /\ Unlisted = {x \in Sessions : boot.moved = x}
      /\ ListOK /\ BootOK
      /\ Pending \subseteq Sessions /\ None \notin Sessions
  BY <1>2, StartingFacts
<1>4. /\ marker' # None => marker # None /\ marker'.ids = marker.ids
      /\ Pending' \subseteq Pending
      /\ boot.moved \notin Pending'
      /\ boot'.todo \subseteq Pending'
  <2>1. CASE BootSkipsClosed
    <3>1. PICK x \in boot.todo :
            /\ boot'.todo = boot.todo \ {x}
            /\ marker # None /\ marker' # None
            /\ marker'.ids = marker.ids /\ marker'.recovered = marker.recovered
            /\ marker'.closed = marker.closed \cup {x}
            /\ boot.moved = None
      BY <1>1, <2>1, BootSkipsEffect
    <3>2. Pending' = Pending \ {x}
      BY <3>1 DEF Pending
    <3> QED BY <1>3, <3>1, <3>2 DEF BootOK
  <2>2. CASE BootCheckpoints
    <3>1. /\ boot'.todo = boot.todo /\ boot.moved \notin boot.todo
          /\ marker # None /\ marker' # None
          /\ marker'.ids = marker.ids /\ marker'.closed = marker.closed
          /\ marker'.recovered = marker.recovered \cup {boot.moved}
      BY <1>1, <1>3, <2>2, BootCheckpointsEffect DEF BootOK
    <3>2. Pending' = Pending \ {boot.moved}
      BY <3>1 DEF Pending
    <3> QED BY <1>3, <3>1, <3>2 DEF BootOK
  <2>3. CASE BootFails \/ BootDone
    <3>1. marker' = marker /\ boot.moved = None
      BY <1>1, <2>3, BootFailsEffect, BootDoneEffect
    <3>2. Pending' = Pending
      BY <3>1 DEF Pending
    <3> QED BY <1>2, <1>3, <3>1, <3>2 DEF BootOK
  <2> QED BY <2>1, <2>2, <2>3
<1>5. \A x \in Pending' \ torn : NoCopy(x)
  BY <1>3, <1>4 DEF ListOK
<1>6. \A x \in boot'.todo : Past(x)
  BY <1>2, <1>3 DEF BootOK
<1> QED BY <1>1, <1>2, <1>4, <1>5, <1>6, StartingStep

LEMMA ReplaceBootRestores ==
  ASSUME ReplaceInv, BootRestores
  PROVE  ReplaceInv'
<1>1. PICK x \in boot.todo, y \in Sessions :
        /\ x \in Sessions /\ Replaced(x, y)
        /\ boot'.todo = boot.todo \ {x} /\ boot'.moved = x
  BY BootRestoresEffect DEF ReplaceInv
<1>2. /\ TypeOK' /\ proc = "boot" /\ boot.moved = None
      /\ UNCHANGED <<proc, gate, req, leaving, marker, op, crashes, torn, late>>
  BY BootRestoresEffect DEF ReplaceInv
<1>3. /\ gate = None /\ ~leaving
      /\ \A q \in Requests : req[q].pc \in {"new", "done"}
      /\ Unlisted = {z \in Sessions : boot.moved = z}
      /\ GateOK /\ Disjoint /\ ListOK /\ BootOK /\ SessOK /\ TypeOK
      /\ \A q \in Requests : RequestOK(q)
      /\ Pending \subseteq Sessions /\ None \notin Sessions /\ None \notin Requests
  BY <1>2, StartingFacts
<1>4. Past(x) /\ (NoCopy(x) \/ x \in torn)
  BY <1>1, <1>2, <1>3 DEF BootOK, ListOK
<1>5. /\ SessOK'
      /\ \A z \in Sessions : /\ NoCopy(z) /\ z # x => NoCopy(z)'
                             /\ Past(z) => Past(z)'
                             /\ sess[z].state # "none" => sess'[z].state # "none"
  BY <1>1, <1>2, <1>3, <1>4, ReplacedKeeps
<1>6. GateOK' /\ Disjoint'
  BY <1>2, <1>3 DEF GateOK, Disjoint
<1>7. ASSUME NEW q \in Requests PROVE RequestOK(q)'
  <2>1. RequestOK(q) /\ req[q].pc \in {"new", "done"} /\ gate # q
    BY <1>3
  <2>2. /\ req[q].eligible \subseteq Sessions /\ req[q].todo \subseteq Sessions
        /\ req[q].stopped \subseteq Sessions
    BY <1>3 DEF TypeOK, Call
  <2> QED BY <1>2, <1>5, <2>1, <2>2 DEF RequestOK
<1>8. ListOK'
  <2>1. Pending' = Pending /\ x \in Unlisted'
    BY <1>1, <1>2 DEF Pending, Unlisted
  <2>2. \A z \in Pending \ torn : NoCopy(z)
    BY <1>2, <1>3 DEF ListOK
  <2>3. marker # None => marker.ids \subseteq Sessions
    BY <1>3 DEF TypeOK, RecoveryLists
  <2> QED BY <1>2, <1>3, <1>5, <2>1, <2>2, <2>3 DEF ListOK
<1>9. BootOK'
  <2>1. Pending' = Pending /\ boot.todo \subseteq Sessions
    BY <1>2, <1>3 DEF Pending, TypeOK, Startup
  <2> QED BY <1>1, <1>2, <1>3, <1>5, <2>1 DEF BootOK
<1>10. StartupOK'
  BY StepType DEF ReplaceInv, Next, BootStep
<1> QED BY <1>2, <1>5, <1>6, <1>7, <1>8, <1>9, <1>10 DEF ReplaceInv

\* When the process goes, the recovery list asks for no session that was already
\* replaced, save for those that are torn from it.
LEMMA ReplaceDown ==
  ASSUME ReplaceInv, Exit \/ Crash
  PROVE  ReplaceInv'
<1>1. /\ TypeOK'
      /\ proc' = "down" /\ gate' = None /\ ~leaving' /\ boot' = NoBoot
      /\ UNCHANGED <<home, marker, op, late>>
      /\ torn' = torn \cup Unlisted
  BY DownEffect DEF ReplaceInv
<1>2. \A x \in Sessions :
        /\ sess'[x].source = sess[x].source
        /\ sess'[x].state = IF sess[x].state = "live" THEN "lost" ELSE sess[x].state
  BY DownEffect DEF ReplaceInv
<1>3. \A q \in Requests : \/ req[q].pc = "new" /\ req'[q] = req[q]
                          \/ /\ req'[q].pc = "done"
                             /\ req'[q].eligible = {} /\ req'[q].stopped = {}
                             /\ req'[q].todo = {} /\ req'[q].failed = {}
  BY DownEffect DEF ReplaceInv
<1>4. /\ GateOK /\ Disjoint /\ ListOK /\ BootOK /\ SessOK /\ TypeOK
      /\ \A q \in Requests : RequestOK(q)
      /\ None \notin Sessions /\ None \notin Requests
  BY RestartAssumption DEF ReplaceInv, Sessions
<1>5. /\ SessOK'
      /\ \A x \in Sessions : /\ NoCopy(x) => NoCopy(x)'
                             /\ Past(x) => Past(x)'
                             /\ sess[x].state # "none" => sess'[x].state # "none"
  <2>1. \A x \in Sessions : /\ sess'[x].source = sess[x].source
                            /\ \/ sess'[x].state = sess[x].state
                               \/ sess[x].state \in {"live", "stopped"} /\ Past(x)'
    BY <1>2 DEF Past
  <2> QED BY <1>1, <1>4, <2>1, StopsAreKept
<1>6. GateOK'
  BY <1>1, <1>3, <1>4 DEF GateOK, Holding
<1>7. ASSUME NEW q \in Requests PROVE RequestOK(q)'
  <2>1. RequestOK(q) /\ req[q].eligible \subseteq Sessions /\ req[q].todo \subseteq Sessions
    BY <1>4 DEF TypeOK, Call
  <2>2. CASE req[q].pc = "new" /\ req'[q] = req[q]
    BY <1>1, <1>4, <1>5, <2>1, <2>2 DEF RequestOK, Holding
  <2>3. CASE req'[q].pc = "done" /\ req'[q].eligible = {} /\ req'[q].stopped = {}
             /\ req'[q].todo = {} /\ req'[q].failed = {}
    BY <1>1, <1>4, <2>3 DEF RequestOK, Holding
  <2> QED BY <1>3, <2>2, <2>3
<1>8. Disjoint'
  BY <1>3 DEF Disjoint
<1>9. ListOK'
  <2>1. Pending' = Pending /\ Pending \subseteq Sessions /\ (marker # None => marker.ids \subseteq Sessions)
    BY <1>1, <1>4 DEF TypeOK, Pending, RecoveryLists
  <2>2. \A x \in Pending \ torn' : NoCopy(x)
    BY <1>1, <1>4 DEF ListOK
  <2> QED BY <1>1, <1>4, <1>5, <2>1, <2>2 DEF ListOK
<1>10. BootOK'
  <2>1. Live' = {}
    BY <1>2 DEF Live
  <2>2. None \notin boot'.todo /\ boot'.todo = {}
    BY <1>1 DEF NoBoot
  <2> QED BY <1>1, <2>1, <2>2 DEF BootOK, NoBoot
<1>11. StartupOK'
  BY StepType DEF ReplaceInv, Next
<1> QED BY <1>1, <1>5, <1>6, <1>7, <1>8, <1>9, <1>10, <1>11 DEF ReplaceInv

LEMMA ReplaceAround ==
  ASSUME ReplaceInv, WorkArrives \/ Close
  PROVE  ReplaceInv'
<1>1. StartupOK' /\ TypeOK'
  BY StepType DEF ReplaceInv, Next
<1>2. CASE WorkArrives
  <2>1. UNCHANGED <<proc, sess, gate, req, leaving, marker, boot, torn>>
    BY <1>2 DEF WorkArrives
  <2>2. SessOK'
    BY <2>1, SessStays DEF ReplaceInv
  <2> QED BY <1>1, <2>1, <2>2, ListsStay DEF ReplaceInv, NoCopy, Past
<1>3. CASE Close
  <2>1. PICK x \in Sessions :
          /\ sess[x].state \in {"live", "stopped"}
          /\ sess'[x].state = "stopped" /\ sess'[x].source = sess[x].source
          /\ \A y \in Sessions : y # x => sess'[y] = sess[y]
    BY <1>3, CloseEffect DEF ReplaceInv
  <2>2. UNCHANGED <<proc, gate, req, leaving, marker, boot, torn>> /\ proc = "up"
    BY <1>3 DEF Close
  <2>3. \A y \in Sessions : /\ sess'[y].source = sess[y].source
                            /\ \/ sess'[y].state = sess[y].state
                               \/ sess[y].state \in {"live", "stopped"} /\ Past(y)'
    BY <2>1 DEF Past
  <2>4. /\ SessOK'
        /\ \A y \in Sessions : /\ NoCopy(y) => NoCopy(y)'
                               /\ Past(y) => Past(y)'
                               /\ sess[y].state # "none" => sess'[y].state # "none"
    BY <2>2, <2>3, StopsAreKept DEF ReplaceInv
  <2> QED BY <1>1, <2>2, <2>4, ListsStay DEF ReplaceInv
<1> QED BY <1>2, <1>3

LEMMA StepReplace == ReplaceInv /\ [Next]_vars => ReplaceInv'
<1> SUFFICES ASSUME ReplaceInv, [Next]_vars PROVE ReplaceInv'
  OBVIOUS
<1>1. CASE UNCHANGED vars
  <2>1. UNCHANGED <<proc, sess, gate, req, leaving, marker, boot, torn>>
    BY <1>1 DEF vars
  <2>2. TypeOK' /\ StartupOK'
    BY StepType DEF ReplaceInv
  <2>3. SessOK'
    BY <2>1, SessStays DEF ReplaceInv
  <2> QED BY <2>1, <2>2, <2>3, ListsStay DEF ReplaceInv, NoCopy, Past
<1>2. ASSUME NEW q \in Requests, Request(q) \/ ClassificationThrows(q) \/ RequestStep(q)
      PROVE  ReplaceInv'
  BY <1>2, ReplaceRequest, ReplaceAdvances, ReplaceCheckpoint, ReplaceCheckpointFails,
     ReplaceStopSession, ReplaceStopFails, ReplaceRejected, ReplaceRestoreBegins, ReplaceRestored,
     ReplaceRestoreFails, ReplaceClearMarker DEF RequestStep, Advances
<1>3. CASE BootStep
  BY <1>3, ReplaceStart, ReplaceBootStep, ReplaceBootRestores DEF BootStep
<1>4. CASE Exit \/ Crash
  BY <1>4, ReplaceDown
<1>5. CASE WorkArrives \/ Close
  BY <1>5, ReplaceAround
<1> QED BY <1>1, <1>2, <1>3, <1>4, <1>5 DEF Next

LEMMA AtMostOne ==
  ASSUME NEW S, \A x, y \in S : x = y
  PROVE  Cardinality(S) <= 1
<1>1. CASE S = {}
  BY <1>1, FS_EmptySet
<1>2. CASE S # {}
  <2>1. PICK x \in S : TRUE
    BY <1>2
  <2>2. S = {x}
    BY <2>1
  <2> QED BY <2>2, FS_Singleton
<1> QED BY <1>1, <1>2

\* No conversation is recreated twice, over any number of restart requests, roll-
\* backs and startups, but for what a process that ends, by a crash or by a shut-
\* down amid a rollback, leaves between a rebinding and the rewriting or removal
\* of the recovery list, or a removal that fails (stoppedIds, recoveredSessions).
THEOREM Replaces == Spec => []ReplacedOnce
<1>1. ReplaceInv => ReplacedOnce
  <2> SUFFICES ASSUME ReplaceInv, NEW x \in Sessions
               PROVE  LET copies == {y \in Sessions : sess[y].source = x}
                      IN /\ x \notin torn => Cardinality(copies) <= 1
                         /\ copies # {} => sess[x].state # "live"
    BY DEF ReplacedOnce
  <2> DEFINE copies == {y \in Sessions : sess[y].source = x}
  <2>1. SessOK
    BY DEF ReplaceInv
  <2>2. ASSUME x \notin torn PROVE Cardinality(copies) <= 1
    <3>1. \A y, z \in copies : y = z
      BY <2>1, <2>2 DEF SessOK
    <3> HIDE DEF copies
    <3> QED BY <3>1, AtMostOne
  <2>3. ASSUME copies # {} PROVE sess[x].state # "live"
    BY <2>1, <2>3 DEF SessOK, NoCopy, Past
  <2> QED BY <2>2, <2>3
<1> QED BY InitReplace, StepReplace, <1>1, PTL DEF Spec

-----------------------------------------------------------------------------
(* What restarts keep *)

Owed(x) == \E w \in Work \ late : home[w] = x
Left(x) == sess[x].state = "stopped" /\ ~sess[x].closed

Working == (Holding \ {"thrown"}) \cup {"rollback", "cleared"}

\* Restarts one after the other: a request finds no rollback under way and no
\* stopped session that still owns work.
Afresh ==
  \A q \in Requests : Request(q) => /\ \A r \in Requests : req[r].pc \notin {"rollback", "cleared"}
                                    /\ \A x \in Sessions : ~(Owed(x) /\ Left(x))

Alone ==
  \A q, r \in Requests : q # r /\ req[q].pc \in Working => req[r].pc \in {"new", "thrown", "done"}

\* The record is the call's and unfinished from its first write to its end, the
\* recovery list from the checkpoint to the end of the rollback.
RecordKnown ==
  \A q \in Requests : req[q].pc \in Working \ {"requested"} => op = Recorded(q)

ListKnown ==
  \A q \in Requests : req[q].pc \in {"checkpointed", "stopping", "launch", "launched", "rollback"} =>
    marker = RecoveryList(q)

\* What a startup has in its hands owns nothing any more.
MovedOK == boot.moved # None => \A w \in Work : home[w] # boot.moved

\* Only the call stops sessions that nobody closed, after it found that they own
\* no work or listed them.
StopsOK == \A q \in Requests :
  /\ req[q].pc \in {"requested", "recorded", "draining", "checkpointed"} =>
       \A x \in Sessions : ~(Owed(x) /\ Left(x))
  /\ req[q].pc \in {"stopping", "launch", "launched", "rollback"} =>
       \A x \in Sessions : Owed(x) /\ Left(x) => x \in req[q].stopped
  /\ req[q].pc \in Holding \ {"thrown"} => \A x \in Live : Owed(x) => x \in req[q].eligible

\* A startup without a recovery list reports them.
ToReport == op.failed \cup (IF op.status = "open" THEN op.eligible ELSE {})

\* What it stopped is listed, and after its rollback recreated or reported.
KeptOK ==
  /\ op.failed \subseteq op.eligible
  /\ \A x \in Sessions : Owed(x) /\ Left(x) => x \in Pending \/ (marker = None /\ x \in ToReport)
  /\ \A q \in Requests : req[q].pc = "rollback" =>
       \A x \in Sessions : Owed(x) /\ Left(x) => x \in req[q].todo \cup req[q].failed
  /\ \A q \in Requests : req[q].pc = "cleared" =>
       \A x \in Sessions : Owed(x) /\ Left(x) => x \in req[q].failed

KeptInv == Alone /\ RecordKnown /\ ListKnown /\ MovedOK /\ StopsOK /\ KeptOK

LEMMA InitKept == Init => KeptInv
<1> SUFFICES ASSUME Init PROVE KeptInv
  OBVIOUS
<1>1. \A q \in Requests : req[q].pc = "new"
  BY DEF Init, NewRequest
<1>2. \A x \in Sessions : ~Left(x)
  BY DEF Init, Left
<1>3. Alone /\ RecordKnown /\ ListKnown /\ StopsOK
  BY <1>1 DEF Alone, RecordKnown, ListKnown, StopsOK, Working, Holding
<1>4. MovedOK /\ KeptOK
  BY <1>1, <1>2 DEF Init, MovedOK, KeptOK, NoBoot
<1> QED BY <1>3, <1>4 DEF KeptInv

LEMMA KeptFacts ==
  ASSUME ReplaceInv, KeptInv
  PROVE  /\ TypeOK /\ GateOK /\ SessOK /\ BootOK /\ StartupOK
         /\ Alone /\ RecordKnown /\ ListKnown /\ MovedOK /\ StopsOK /\ KeptOK
         /\ \A q \in Requests : RequestOK(q)
         /\ None \notin Sessions /\ Pending \subseteq Sessions
         /\ late \subseteq Work
BY RestartAssumption DEF ReplaceInv, KeptInv, Sessions, TypeOK, Pending, RecoveryLists

LEMMA ListedIsPending ==
  ASSUME TypeOK, NEW q \in Requests, marker = RecoveryList(q)
  PROVE  marker # None /\ Pending = req[q].eligible
<1>1. req[q].eligible \in SUBSET Sessions
  BY DEF TypeOK, Call
<1>2. RecoveryList(q) \in [ids : SUBSET Sessions, recovered : SUBSET Sessions, closed : SUBSET Sessions]
  BY <1>1 DEF RecoveryList
<1>3. RecoveryList(q) # None
  BY <1>2, ListAssumption
<1> QED BY <1>3 DEF Pending, RecoveryList

LEMMA LeftStays ==
  ASSUME UNCHANGED <<sess, home, late>>
  PROVE  \A z \in Sessions : (Left(z)' <=> Left(z)) /\ (Owed(z)' <=> Owed(z))
BY DEF Left, Owed

\* While one call works, the others have not begun or are over.
LEMMA OthersIdle ==
  ASSUME KeptInv, NEW q \in Requests, req[q].pc \in Working, Others(q)
  PROVE  \A r \in Requests : r # q => req[r].pc \in {"new", "thrown", "done"} /\ req'[r] = req[r]
BY DEF KeptInv, Alone, Others

LEMMA AloneStays ==
  ASSUME Alone, NEW q \in Requests, req[q].pc \in Working, Others(q)
  PROVE  Alone'
<1>1. \A r \in Requests : r # q => req[r].pc \in {"new", "thrown", "done"} /\ req'[r] = req[r]
  BY DEF Alone, Others
<1>2. \A r \in Requests : r # q => req'[r].pc \notin Working
  BY <1>1 DEF Working, Holding
<1> QED BY <1>1, <1>2 DEF Alone

LEMMA MovedStays ==
  ASSUME StartupOK, proc = "up", UNCHANGED <<proc, boot>>
  PROVE  MovedOK'
BY DEF StartupOK, MovedOK, NoBoot

\* The phases of a call that neither stop nor recreate a session nor touch the list.
LEMMA KeptQuiet ==
  ASSUME ReplaceInv, KeptInv, NEW q \in Requests, Others(q), proc = "up",
         UNCHANGED <<Outside, sess, home, marker, late>>,
         req[q].pc \in Working,
         req'[q].eligible = req[q].eligible, req'[q].stopped = req[q].stopped,
         \/ req'[q].pc \in {"thrown", "done"}
         \/ req'[q].pc = "recorded" /\ req[q].pc = "requested" /\ op' = Recorded(q)
         \/ req'[q].pc = "draining" /\ req[q].pc = "recorded"
         \/ req'[q].pc = "stopping" /\ req[q].pc = "checkpointed"
         \/ req'[q].pc \in {"stopping", "launch"} /\ req[q].pc = "stopping"
         \/ req'[q].pc = "launched" /\ req[q].pc = "launch"
         \/ /\ req'[q].pc = "rollback" /\ req[q].pc = "rollback"
            /\ req[q].todo \cup req[q].failed \subseteq req'[q].todo \cup req'[q].failed,
         \/ op' = op
         \/ op' = Recorded(q)
  PROVE  KeptInv'
<1>1. /\ TypeOK /\ GateOK /\ StartupOK /\ Alone /\ RecordKnown /\ ListKnown /\ StopsOK /\ KeptOK
      /\ \A r \in Requests : r # q => req[r].pc \in {"new", "thrown", "done"} /\ req'[r] = req[r]
  BY KeptFacts, OthersIdle
<1>2. Alone' /\ MovedOK'
  BY <1>1, AloneStays, MovedStays DEF Outside
<1>3. ListKnown'
  BY <1>1 DEF ListKnown, RecoveryList
<1>4. /\ \A z \in Sessions : (Left(z)' <=> Left(z)) /\ (Owed(z)' <=> Owed(z))
      /\ Live' = Live /\ Live \subseteq Sessions /\ Pending' = Pending
  BY LeftStays DEF Live, Pending
<1>5. StopsOK'
  BY <1>1, <1>4 DEF StopsOK, Holding
<1>6. op' = op \/ (req[q].pc = "requested" /\ op' = Recorded(q))
  BY <1>1 DEF RecordKnown
<1>7. RecordKnown'
  <2>1. Recorded(q)' = Recorded(q)
    BY DEF Recorded
  <2>2. \A r \in Requests \ {q} : req'[r].pc \notin Working
    BY <1>1 DEF Working, Holding
  <2>3. req'[q].pc \in Working \ {"requested"} => op' = Recorded(q)
    BY <1>1, <1>6 DEF RecordKnown, Working, Holding
  <2> QED BY <2>1, <2>2, <2>3 DEF RecordKnown
<1>8. KeptOK'
  <2>1. op'.failed \subseteq op'.eligible
    BY <1>1, <1>6 DEF KeptOK, Recorded
  <2>2. ASSUME NEW x \in Sessions, Owed(x), Left(x)
        PROVE  x \in Pending \/ (marker = None /\ x \in ToReport')
    <3>1. CASE op' = op
      BY <1>1, <2>2, <3>1 DEF KeptOK, ToReport
    <3>2. CASE req[q].pc = "requested"
      BY <1>1, <2>2, <3>2 DEF StopsOK
    <3> QED BY <1>6, <3>1, <3>2
  <2>3. ASSUME NEW r \in Requests, req'[r].pc = "rollback", NEW x \in Sessions, Owed(x), Left(x)
        PROVE  x \in req'[r].todo \cup req'[r].failed
    <3>1. r = q /\ req[q].pc = "rollback"
      BY <1>1, <2>3
    <3> QED BY <1>1, <2>3, <3>1 DEF KeptOK
  <2>4. \A r \in Requests : req'[r].pc # "cleared"
    BY <1>1
  <2> QED BY <1>4, <2>1, <2>2, <2>3, <2>4 DEF KeptOK
<1> QED BY <1>2, <1>3, <1>5, <1>7, <1>8 DEF KeptInv

LEMMA KeptQuietSteps ==
  ASSUME ReplaceInv, KeptInv, NEW q \in Requests,
         \/ PersistOperation(q) \/ PersistFails(q) \/ PhaseBegins(q) \/ PhaseThrows(q)
         \/ StopFails(q) \/ StopsDone(q) \/ Launched(q) \/ RestartRequested(q)
         \/ RestoreBegins(q) \/ RestoreFails(q) \/ CancelThrows(q)
  PROVE  KeptInv'
<1>1. TypeOK
  BY DEF ReplaceInv
<1>2. CASE PersistOperation(q)
  BY <1>1, <1>2, PersistEffect, KeptQuiet DEF Keeps, Working, Holding
<1>3. CASE PersistFails(q)
  BY <1>1, <1>3, PersistEffect, KeptQuiet DEF Keeps, Working, Holding
<1>4. CASE PhaseBegins(q)
  BY <1>1, <1>4, PhaseEffect, KeptQuiet DEF Keeps, Working, Holding
<1>5. CASE PhaseThrows(q)
  BY <1>1, <1>5, ThrowsEffect, KeptQuiet DEF Keeps, Working, Holding
<1>6. CASE StopFails(q)
  BY <1>1, <1>6, StopFailsEffect, KeptQuiet DEF Working, Holding
<1>7. CASE StopsDone(q)
  BY <1>1, <1>7, LaunchEffect, KeptQuiet DEF Keeps, Working, Holding
<1>8. CASE Launched(q)
  BY <1>1, <1>8, LaunchEffect, KeptQuiet DEF Keeps, Working, Holding
<1>9. CASE RestartRequested(q)
  BY <1>1, <1>9, LaunchEffect, KeptQuiet DEF Keeps, Working, Holding
<1>10. CASE RestoreBegins(q)
  BY <1>1, <1>10, RestoreBeginsEffect, KeptQuiet DEF Working
<1>11. CASE RestoreFails(q)
  BY <1>1, <1>11, RestoreFailsEffect, KeptQuiet DEF Working
<1>12. CASE CancelThrows(q)
  BY <1>1, <1>12, CancelledEffect, KeptQuiet DEF Keeps, Working
<1> QED BY <1>2, <1>3, <1>4, <1>5, <1>6, <1>7, <1>8, <1>9, <1>10, <1>11, <1>12

\* An exception before the call is under way changes nothing that is kept.
LEMMA KeptThrows ==
  ASSUME ReplaceInv, KeptInv, NEW q \in Requests, ClassificationThrows(q)
  PROVE  KeptInv'
<1>1. /\ Others(q) /\ Keeps(q) /\ proc = "up" /\ req'[q].pc = "thrown"
      /\ UNCHANGED <<Outside, sess, home, leaving, marker, op, late>>
  BY ThrowsEffect DEF ReplaceInv
<1>2. /\ StartupOK /\ Alone /\ RecordKnown /\ ListKnown /\ StopsOK /\ KeptOK
  BY KeptFacts
<1>3. \A r \in Requests : req'[r].pc = "thrown" \/ req'[r] = req[r]
  BY <1>1 DEF Others
<1>4. /\ \A z \in Sessions : (Left(z)' <=> Left(z)) /\ (Owed(z)' <=> Owed(z))
      /\ Live' = Live /\ Live \subseteq Sessions /\ Pending' = Pending /\ ToReport' = ToReport
  BY <1>1, LeftStays DEF Live, Pending, ToReport
<1>5. Alone' /\ RecordKnown' /\ ListKnown'
  BY <1>1, <1>2, <1>3 DEF Alone, RecordKnown, ListKnown, Recorded, RecoveryList, Working, Holding
<1>6. MovedOK'
  BY <1>1, <1>2, MovedStays DEF Outside
<1>7. StopsOK'
  BY <1>2, <1>3, <1>4 DEF StopsOK
<1>8. KeptOK'
  BY <1>1, <1>2, <1>3, <1>4 DEF KeptOK
<1> QED BY <1>5, <1>6, <1>7, <1>8 DEF KeptInv

LEMMA KeptRequest ==
  ASSUME ReplaceInv, KeptInv, Afresh, NEW q \in Requests, Request(q)
  PROVE  KeptInv'
<1>1. /\ Others(q) /\ proc = "up" /\ gate = None /\ req'[q].pc = "requested"
      /\ req'[q].eligible = Eligible
      /\ UNCHANGED <<Outside, sess, home, leaving, marker, op, late>>
  BY RequestEffect DEF ReplaceInv
<1>2. /\ GateOK /\ StartupOK /\ KeptOK /\ None \notin Requests
  BY KeptFacts, RestartAssumption
<1>3. /\ \A r \in Requests : req[r].pc \in {"new", "done"}
      /\ \A x \in Sessions : ~(Owed(x) /\ Left(x))
  <2>1. \A r \in Requests : req[r].pc \notin {"rollback", "cleared"} /\ req[r].pc \notin Holding
    BY <1>1, <1>2 DEF Afresh, GateOK
  <2>2. \A r \in Requests : req[r] \in Call
    BY DEF ReplaceInv, TypeOK
  <2> QED BY <2>1, <2>2 DEF Afresh, Call, Holding
<1>4. \A r \in Requests : r # q => req'[r].pc \in {"new", "done"}
  BY <1>1, <1>3 DEF Others
<1>5. Alone' /\ RecordKnown' /\ ListKnown'
  BY <1>1, <1>4 DEF Alone, RecordKnown, ListKnown, Working, Holding
<1>6. MovedOK'
  BY <1>1, <1>2, MovedStays DEF Outside
<1>7. /\ \A z \in Sessions : (Left(z)' <=> Left(z)) /\ (Owed(z)' <=> Owed(z))
      /\ Live' = Live /\ Live \subseteq Sessions
  BY <1>1, LeftStays DEF Live
<1>8. StopsOK'
  <2>1. \A x \in Live : Owed(x) => x \in Eligible
    BY DEF Owed, Eligible, HasWork
  <2> QED BY <1>1, <1>3, <1>4, <1>7, <2>1 DEF StopsOK, Holding
<1>9. KeptOK'
  BY <1>1, <1>2, <1>3, <1>4, <1>7 DEF KeptOK
<1> QED BY <1>5, <1>6, <1>8, <1>9 DEF KeptInv

LEMMA KeptCheckpoint ==
  ASSUME ReplaceInv, KeptInv, NEW q \in Requests, Checkpoint(q) \/ CheckpointFails(q)
  PROVE  KeptInv'
<1>1. /\ Others(q) /\ Keeps(q) /\ proc = "up" /\ req[q].pc = "draining"
      /\ req'[q].pc \in {"checkpointed", "done"}
      /\ req'[q].pc = "checkpointed" => marker' = RecoveryList(q) /\ op' = Recorded(q)
      /\ op' = op \/ op'.failed = {}
      /\ UNCHANGED <<Outside, sess, home, late>>
  BY CheckpointEffect DEF ReplaceInv, Recorded
<1>2. req[q].pc \in Working
  BY <1>1 DEF Working, Holding
<1>3. /\ StartupOK /\ Alone /\ StopsOK /\ KeptOK
      /\ \A r \in Requests : r # q => req[r].pc \in {"new", "thrown", "done"} /\ req'[r] = req[r]
  BY <1>1, <1>2, KeptFacts, OthersIdle
<1>4. Alone' /\ MovedOK'
  BY <1>1, <1>2, <1>3, AloneStays, MovedStays DEF Outside
<1>5. RecordKnown' /\ ListKnown'
  BY <1>1, <1>3 DEF RecordKnown, ListKnown, RecoveryList, Recorded, Keeps, Working, Holding
<1>6. /\ \A z \in Sessions : (Left(z)' <=> Left(z)) /\ (Owed(z)' <=> Owed(z))
      /\ Live' = Live /\ Live \subseteq Sessions
      /\ \A x \in Sessions : ~(Owed(x) /\ Left(x))
  BY <1>1, <1>3, LeftStays DEF Live, StopsOK
<1>7. StopsOK'
  BY <1>1, <1>3, <1>6 DEF StopsOK, Holding, Keeps
<1>8. KeptOK'
  BY <1>1, <1>3, <1>6 DEF KeptOK
<1> QED BY <1>4, <1>5, <1>7, <1>8 DEF KeptInv

LEMMA KeptRejected ==
  ASSUME ReplaceInv, KeptInv, NEW q \in Requests, Rejected(q)
  PROVE  KeptInv'
<1>1. /\ Others(q) /\ proc = "up" /\ req[q].pc \in {"stopping", "launch", "launched"} /\ req'[q].pc = "rollback"
      /\ req'[q].eligible = req[q].eligible /\ req'[q].stopped = req[q].stopped
      /\ req'[q].todo = ToRestore(q)
      /\ UNCHANGED <<Outside, sess, home, marker, op, late>>
  BY RejectedEffect DEF ReplaceInv
<1>2. req[q].pc \in Working
  BY <1>1 DEF Working, Holding
<1>3. /\ TypeOK /\ StartupOK /\ Alone /\ RecordKnown /\ ListKnown /\ StopsOK /\ KeptOK
      /\ \A r \in Requests : r # q => req[r].pc \in {"new", "thrown", "done"} /\ req'[r] = req[r]
  BY <1>1, <1>2, KeptFacts, OthersIdle
<1>4. Alone' /\ MovedOK'
  BY <1>1, <1>2, <1>3, AloneStays, MovedStays DEF Outside
<1>5. RecordKnown' /\ ListKnown'
  BY <1>1, <1>3 DEF RecordKnown, ListKnown, RecoveryList, Recorded, Working, Holding
<1>6. /\ \A z \in Sessions : (Left(z)' <=> Left(z)) /\ (Owed(z)' <=> Owed(z))
      /\ Pending' = Pending /\ ToReport' = ToReport
  BY <1>1, LeftStays DEF Pending, ToReport
<1>7. StopsOK'
  BY <1>1, <1>3, <1>6 DEF StopsOK, Holding
<1>8. KeptOK'
  <2>1. marker # None /\ Pending = req[q].eligible
    BY <1>1, <1>3, ListedIsPending DEF ListKnown
  <2>2. \A x \in Sessions : Owed(x) /\ Left(x) => x \in ToRestore(q)
    BY <1>1, <1>3, <2>1 DEF StopsOK, KeptOK, ToRestore
  <2> QED BY <1>1, <1>3, <1>6, <2>2 DEF KeptOK
<1> QED BY <1>4, <1>5, <1>7, <1>8 DEF KeptInv

\* Without its list the call's unfinished record answers for what was not recreated.
LEMMA KeptClearMarker ==
  ASSUME ReplaceInv, KeptInv, NEW q \in Requests, ClearMarker(q)
  PROVE  KeptInv'
<1>1. /\ Others(q) /\ Keeps(q) /\ proc = "up" /\ req[q].pc = "rollback" /\ req'[q].pc = "cleared"
      /\ req[q].todo = {} /\ marker' \in {marker, None}
      /\ UNCHANGED <<proc, boot, sess, home, op, late>>
  BY ClearMarkerEffect DEF ReplaceInv
<1>2. req[q].pc \in Working
  BY <1>1 DEF Working
<1>3. /\ RequestOK(q) /\ StartupOK /\ Alone /\ RecordKnown /\ KeptOK
      /\ \A r \in Requests : r # q => req[r].pc \in {"new", "thrown", "done"} /\ req'[r] = req[r]
  BY <1>1, <1>2, KeptFacts, OthersIdle
<1>4. Alone' /\ MovedOK'
  BY <1>1, <1>2, <1>3, AloneStays, MovedStays
<1>5. ListKnown' /\ StopsOK'
  BY <1>1, <1>3 DEF ListKnown, StopsOK, Holding
<1>6. /\ \A z \in Sessions : (Left(z)' <=> Left(z)) /\ (Owed(z)' <=> Owed(z))
      /\ ToReport' = ToReport
  BY <1>1, LeftStays DEF ToReport
<1>7. op = Recorded(q) /\ RecordKnown'
  BY <1>1, <1>2, <1>3 DEF RecordKnown, Recorded, Keeps, Working, Holding
<1>8. KeptOK'
  <2>1. \A x \in Sessions : Owed(x) /\ Left(x) => x \in req[q].failed
    BY <1>1, <1>3 DEF KeptOK
  <2>2. req[q].failed \subseteq ToReport
    BY <1>3, <1>7 DEF RequestOK, Recorded, ToReport
  <2>3. marker' = marker => Pending' = Pending
    BY DEF Pending
  <2> QED BY <1>1, <1>3, <1>6, <2>1, <2>2, <2>3 DEF KeptOK, Keeps
<1> QED BY <1>4, <1>5, <1>7, <1>8 DEF KeptInv

LEMMA KeptCancelled ==
  ASSUME ReplaceInv, KeptInv, NEW q \in Requests, Cancelled(q)
  PROVE  KeptInv'
<1>1. /\ Others(q) /\ proc = "up" /\ req[q].pc = "cleared" /\ req'[q].pc = "done"
      /\ op'.eligible = req[q].eligible /\ op'.failed = req[q].failed
      /\ UNCHANGED <<Outside, sess, home, marker, late>>
  BY CancelledEffect DEF ReplaceInv
<1>2. req[q].pc \in Working
  BY <1>1 DEF Working
<1>3. /\ RequestOK(q) /\ StartupOK /\ Alone /\ KeptOK
      /\ \A r \in Requests : r # q => req[r].pc \in {"new", "thrown", "done"} /\ req'[r] = req[r]
  BY <1>1, <1>2, KeptFacts, OthersIdle
<1>4. Alone' /\ MovedOK'
  BY <1>1, <1>2, <1>3, AloneStays, MovedStays DEF Outside
<1>5. RecordKnown' /\ ListKnown' /\ StopsOK'
  BY <1>1, <1>3 DEF RecordKnown, ListKnown, StopsOK, Working, Holding
<1>6. /\ \A z \in Sessions : (Left(z)' <=> Left(z)) /\ (Owed(z)' <=> Owed(z))
      /\ Pending' = Pending
  BY <1>1, LeftStays DEF Pending
<1>7. KeptOK'
  <2>1. \A x \in Sessions : Owed(x) /\ Left(x) => x \in Pending \/ marker = None
    BY <1>3 DEF KeptOK
  <2>2. \A x \in Sessions : Owed(x) /\ Left(x) => x \in ToReport'
    BY <1>1, <1>3 DEF KeptOK, ToReport
  <2> QED BY <1>1, <1>3, <1>6, <2>1, <2>2 DEF KeptOK, RequestOK
<1> QED BY <1>4, <1>5, <1>7 DEF KeptInv

LEMMA KeptStopSession ==
  ASSUME ReplaceInv, KeptInv, NEW q \in Requests, StopSession(q)
  PROVE  KeptInv'
<1>1. PICK x \in req[q].todo :
        /\ req'[q].stopped = req[q].stopped \cup {x}
        /\ sess'[x].state = IF sess[x].state = "live" THEN "stopped" ELSE sess[x].state
        /\ sess'[x].closed = sess[x].closed /\ sess'[x].source = sess[x].source
        /\ \A y \in Sessions : y # x => sess'[y] = sess[y]
  BY StopEffect DEF ReplaceInv
<1>2. /\ proc = "up" /\ req[q].pc = "stopping" /\ req'[q].pc = "stopping" /\ Others(q)
      /\ req'[q].eligible = req[q].eligible
      /\ UNCHANGED <<Outside, home, gate, leaving, marker, op, late>>
  BY StopEffect DEF ReplaceInv
<1>3. req[q].pc \in Working
  BY <1>2 DEF Working, Holding
<1>4. /\ TypeOK /\ StartupOK /\ Alone /\ RecordKnown /\ ListKnown /\ StopsOK /\ KeptOK
      /\ \A r \in Requests : r # q => req[r].pc \in {"new", "thrown", "done"} /\ req'[r] = req[r]
  BY <1>2, <1>3, KeptFacts, OthersIdle
<1>5. x \in Sessions
  BY <1>4 DEF TypeOK, Call
<1>6. Alone' /\ MovedOK'
  BY <1>2, <1>3, <1>4, AloneStays, MovedStays DEF Outside
<1>7. RecordKnown' /\ ListKnown'
  BY <1>2, <1>4 DEF RecordKnown, ListKnown, RecoveryList, Recorded, Working, Holding
<1>8. \A z \in Sessions : (z # x => (Left(z)' <=> Left(z))) /\ (Owed(z)' <=> Owed(z))
  BY <1>1, <1>2 DEF Left, Owed
<1>9. StopsOK'
  <2>1. Live' \subseteq Live /\ Live \subseteq Sessions
    BY <1>1, <1>5 DEF Live
  <2> QED BY <1>1, <1>2, <1>4, <1>8, <2>1 DEF StopsOK, Holding
<1>10. KeptOK'
  <2>1. Pending' = Pending /\ (Owed(x) /\ x \in Live => x \in Pending)
    <3>1. marker = RecoveryList(q) /\ (Owed(x) /\ x \in Live => x \in req[q].eligible)
      BY <1>2, <1>4 DEF ListKnown, StopsOK, Holding
    <3>2. Pending = req[q].eligible
      BY <1>4, <3>1, ListedIsPending
    <3> QED BY <1>2, <3>1, <3>2 DEF Pending
  <2>2. ASSUME Owed(x), Left(x)' PROVE x \in Pending \/ (marker = None /\ x \in ToReport)
    <3>1. CASE sess[x].state = "live"
      BY <1>5, <2>1, <2>2, <3>1 DEF Live
    <3>2. CASE sess[x].state # "live"
      BY <1>1, <1>4, <1>5, <2>2, <3>2 DEF KeptOK, Left
    <3> QED BY <3>1, <3>2
  <2>3. /\ \A r \in Requests : req'[r].pc \notin {"rollback", "cleared"}
        /\ ToReport' = ToReport
    BY <1>2, <1>4 DEF ToReport
  <2> QED BY <1>2, <1>4, <1>5, <1>8, <2>1, <2>2, <2>3 DEF KeptOK
<1> QED BY <1>6, <1>7, <1>9, <1>10 DEF KeptInv

\* A replacement takes the work of its session with it and leaves the others theirs.
LEMMA ReplacedMoves ==
  ASSUME NEW x \in Sessions, NEW y \in Sessions, Replaced(x, y), Past(x), late' = late,
         late \subseteq Work
  PROVE  \A z \in Sessions : /\ Left(z)' => Left(z) /\ z # y
                             /\ Left(z)' /\ Owed(z)' => Owed(z) /\ z # x
<1>1. x # y
  BY DEF Replaced, Past
<1> SUFFICES ASSUME NEW z \in Sessions, Left(z)'
             PROVE  Left(z) /\ z # y /\ (Owed(z)' => Owed(z) /\ z # x)
  OBVIOUS
<1>2. z # y /\ Left(z)
  BY DEF Replaced, Left
<1>3. ASSUME NEW w \in Work \ late, home'[w] = z PROVE home[w] = z /\ z # x
  BY <1>1, <1>2, <1>3 DEF Replaced
<1> QED BY <1>2, <1>3 DEF Owed

LEMMA KeptRestored ==
  ASSUME ReplaceInv, KeptInv, NEW q \in Requests, Restored(q)
  PROVE  KeptInv'
<1> DEFINE x == req[q].cur
<1>1. /\ proc = "up" /\ req[q].pc = "rollback" /\ req'[q].pc = "rollback" /\ Others(q)
      /\ req'[q].eligible = req[q].eligible /\ req'[q].stopped = req[q].stopped
      /\ req'[q].failed = req[q].failed
      /\ x \in Sessions
      /\ req'[q].todo = req[q].todo \ {x}
      /\ UNCHANGED <<Outside, gate, leaving, marker, op, late>>
  BY RestoredEffect DEF ReplaceInv
<1>2. PICK y \in Sessions : Replaced(x, y)
  BY RestoredEffect DEF ReplaceInv
<1>3. req[q].pc \in Working
  BY <1>1 DEF Working
<1>4. /\ TypeOK /\ StartupOK /\ RequestOK(q) /\ Alone /\ RecordKnown /\ ListKnown /\ StopsOK /\ KeptOK
      /\ \A r \in Requests : r # q => req[r].pc \in {"new", "thrown", "done"} /\ req'[r] = req[r]
      /\ None \notin Sessions /\ late \subseteq Work
  BY <1>1, <1>3, KeptFacts, OthersIdle
<1>5. Past(x)
  BY <1>1, <1>4 DEF RequestOK, ToRestore
<1> HIDE DEF x
<1>6. Alone' /\ MovedOK'
  BY <1>1, <1>3, <1>4, AloneStays, MovedStays DEF Outside
<1>7. RecordKnown' /\ ListKnown'
  BY <1>1, <1>4 DEF RecordKnown, ListKnown, RecoveryList, Recorded, Working, Holding
<1>8. \A z \in Sessions : /\ Left(z)' => Left(z) /\ z # y
                          /\ Left(z)' /\ Owed(z)' => Owed(z) /\ z # x
  BY <1>1, <1>2, <1>4, <1>5, ReplacedMoves
<1>9. StopsOK'
  BY <1>1, <1>4, <1>8 DEF StopsOK, Holding
<1>10. KeptOK'
  <2>1. Pending' = Pending /\ ToReport' = ToReport
    BY <1>1 DEF Pending, ToReport
  <2> QED BY <1>1, <1>4, <1>8, <2>1 DEF KeptOK
<1> QED BY <1>6, <1>7, <1>9, <1>10 DEF KeptInv

\* A startup finds every call over, or never made.
LEMMA KeptStarting ==
  ASSUME ReplaceInv, KeptInv, proc # "up", req' = req
  PROVE  /\ Alone' /\ RecordKnown' /\ ListKnown' /\ StopsOK'
         /\ \A q \in Requests : req'[q].pc \notin {"rollback", "cleared"}
<1>1. \A q \in Requests : req[q].pc \in {"new", "done"}
  BY StartingFacts
<1>2. \A q \in Requests : req'[q].pc \in {"new", "done"}
  BY <1>1
<1> QED BY <1>2 DEF Alone, RecordKnown, ListKnown, StopsOK, Working, Holding

LEMMA KeptStart ==
  ASSUME ReplaceInv, KeptInv, Start \/ BootFails
  PROVE  KeptInv'
<1>1. /\ proc # "up" /\ boot'.moved = None
      /\ UNCHANGED <<sess, home, gate, req, leaving, marker, op, crashes, torn, late>>
  BY StartEffect, BootFailsEffect DEF ReplaceInv
<1>2. /\ KeptOK /\ Alone' /\ RecordKnown' /\ ListKnown' /\ StopsOK' /\ \A q \in Requests : req'[q].pc \notin {"rollback", "cleared"}
  BY <1>1, KeptFacts, KeptStarting
<1>3. /\ Pending' = Pending /\ ToReport' = ToReport
      /\ \A z \in Sessions : (Left(z)' <=> Left(z)) /\ (Owed(z)' <=> Owed(z))
  BY <1>1, LeftStays DEF Pending, ToReport
<1>4. MovedOK'
  BY <1>1 DEF MovedOK
<1>5. KeptOK'
  BY <1>1, <1>2, <1>3 DEF KeptOK
<1> QED BY <1>2, <1>4, <1>5 DEF KeptInv

LEMMA KeptBootSkipsClosed ==
  ASSUME ReplaceInv, KeptInv, BootSkipsClosed
  PROVE  KeptInv'
<1>1. PICK x \in boot.todo :
        /\ sess[x].closed
        /\ boot'.moved = None
        /\ marker'.ids = marker.ids /\ marker'.recovered = marker.recovered
        /\ marker'.closed = marker.closed \cup {x}
  BY BootSkipsEffect DEF ReplaceInv
<1>2. /\ proc = "boot"
      /\ marker # None /\ marker' # None
      /\ UNCHANGED <<proc, sess, home, gate, req, leaving, op, crashes, torn, late>>
  BY BootSkipsEffect DEF ReplaceInv
<1>3. /\ KeptOK /\ Alone' /\ RecordKnown' /\ ListKnown' /\ StopsOK' /\ \A q \in Requests : req'[q].pc \notin {"rollback", "cleared"}
  BY <1>2, KeptFacts, KeptStarting
<1>4. Pending' = Pending \ {x}
  BY <1>1, <1>2 DEF Pending
<1>5. \A z \in Sessions : (Left(z)' <=> Left(z)) /\ (Owed(z)' <=> Owed(z))
  BY <1>2, LeftStays
<1>6. MovedOK'
  BY <1>1 DEF MovedOK
<1>7. KeptOK'
  BY <1>1, <1>2, <1>3, <1>4, <1>5 DEF KeptOK, Left
<1> QED BY <1>3, <1>6, <1>7 DEF KeptInv

LEMMA KeptBootCheckpoints ==
  ASSUME ReplaceInv, KeptInv, BootCheckpoints
  PROVE  KeptInv'
<1> DEFINE x == boot.moved
<1>1. /\ proc = "boot" /\ x # None
      /\ marker # None /\ marker' # None
      /\ boot'.moved = None
      /\ marker'.ids = marker.ids /\ marker'.closed = marker.closed
      /\ marker'.recovered = marker.recovered \cup {x}
      /\ UNCHANGED <<proc, sess, home, gate, req, leaving, op, crashes, torn, late>>
  BY BootCheckpointsEffect DEF ReplaceInv
<1>2. /\ MovedOK /\ KeptOK /\ Alone' /\ RecordKnown' /\ ListKnown' /\ StopsOK'
      /\ \A q \in Requests : req'[q].pc \notin {"rollback", "cleared"}
  BY <1>1, KeptFacts, KeptStarting
<1>3. Pending' = Pending \ {x}
  BY <1>1 DEF Pending
<1>4. ~Owed(x)
  BY <1>1, <1>2 DEF MovedOK, Owed
<1> HIDE DEF x
<1>5. \A z \in Sessions : (Left(z)' <=> Left(z)) /\ (Owed(z)' <=> Owed(z))
  BY <1>1, LeftStays
<1>6. MovedOK'
  BY <1>1 DEF MovedOK
<1>7. KeptOK'
  BY <1>1, <1>2, <1>3, <1>4, <1>5 DEF KeptOK
<1> QED BY <1>2, <1>6, <1>7 DEF KeptInv

LEMMA KeptBootRestores ==
  ASSUME ReplaceInv, KeptInv, BootRestores
  PROVE  KeptInv'
<1>1. PICK x \in boot.todo, y \in Sessions :
        /\ x \in Sessions /\ Replaced(x, y)
        /\ boot'.moved = x
  BY BootRestoresEffect DEF ReplaceInv
<1>2. /\ proc = "boot"
      /\ UNCHANGED <<proc, gate, req, leaving, marker, op, crashes, torn, late>>
  BY BootRestoresEffect DEF ReplaceInv
<1>3. /\ BootOK /\ KeptOK /\ late \subseteq Work
      /\ Alone' /\ RecordKnown' /\ ListKnown' /\ StopsOK' /\ \A q \in Requests : req'[q].pc \notin {"rollback", "cleared"}
  BY <1>2, KeptFacts, KeptStarting
<1>4. Past(x)
  BY <1>1, <1>3 DEF BootOK
<1>5. \A z \in Sessions : /\ Left(z)' => Left(z) /\ z # y
                          /\ Left(z)' /\ Owed(z)' => Owed(z) /\ z # x
  BY <1>1, <1>2, <1>3, <1>4, ReplacedMoves
<1>6. Pending' = Pending /\ ToReport' = ToReport
  BY <1>2 DEF Pending, ToReport
<1>7. MovedOK'
  <2>1. x # y
    BY <1>1, <1>4 DEF Replaced, Past
  <2>2. \A w \in Work : home'[w] # x
    BY <1>1, <2>1 DEF Replaced
  <2> QED BY <1>1, <2>2 DEF MovedOK
<1>8. KeptOK'
  BY <1>2, <1>3, <1>5, <1>6 DEF KeptOK
<1> QED BY <1>3, <1>7, <1>8 DEF KeptInv

\* What was reported as failed stays reported.
LEMMA KeptBootDone ==
  ASSUME ReplaceInv, KeptInv, BootDone
  PROVE  KeptInv'
<1>1. /\ proc = "boot" /\ boot' = NoBoot
      /\ op'.eligible = op.eligible
      /\ op' = op \/ op'.failed = Failures \cap op.eligible
      /\ UNCHANGED <<sess, home, gate, req, leaving, marker, crashes, torn, late>>
  BY BootDoneEffect DEF ReplaceInv
<1>2. /\ KeptOK /\ Alone' /\ RecordKnown' /\ ListKnown' /\ StopsOK' /\ \A q \in Requests : req'[q].pc \notin {"rollback", "cleared"}
  BY <1>1, KeptFacts, KeptStarting
<1>3. op'.failed \subseteq op'.eligible /\ (marker = None => ToReport \subseteq ToReport')
  BY <1>1, <1>2 DEF KeptOK, Failures, ToReport
<1>4. Pending' = Pending /\ \A z \in Sessions : (Left(z)' <=> Left(z)) /\ (Owed(z)' <=> Owed(z))
  BY <1>1, LeftStays DEF Pending
<1>5. MovedOK'
  BY <1>1 DEF MovedOK, NoBoot
<1>6. KeptOK'
  BY <1>1, <1>2, <1>3, <1>4 DEF KeptOK
<1> QED BY <1>2, <1>5, <1>6 DEF KeptInv

\* Whatever ends a process loses the sessions that were alive: they are not stopped.
LEMMA KeptDown ==
  ASSUME ReplaceInv, KeptInv, Exit \/ Crash
  PROVE  KeptInv'
<1>1. /\ boot' = NoBoot
      /\ UNCHANGED <<home, marker, op, late>>
  BY DownEffect DEF ReplaceInv
<1>2. \A x \in Sessions :
        /\ sess'[x].closed = sess[x].closed
        /\ sess'[x].state = IF sess[x].state = "live" THEN "lost" ELSE sess[x].state
  BY DownEffect DEF ReplaceInv
<1>3. \A q \in Requests : req'[q].pc \in {"new", "done"}
  BY DownEffect DEF ReplaceInv
<1>4. KeptOK
  BY KeptFacts
<1>5. Alone' /\ RecordKnown' /\ ListKnown' /\ StopsOK'
  BY <1>3 DEF Alone, RecordKnown, ListKnown, StopsOK, Working, Holding
<1>6. MovedOK'
  BY <1>1 DEF MovedOK, NoBoot
<1>7. \A z \in Sessions : (Left(z)' <=> Left(z)) /\ (Owed(z)' <=> Owed(z))
  BY <1>1, <1>2 DEF Left, Owed
<1>8. KeptOK'
  <2>1. Pending' = Pending /\ ToReport' = ToReport
    BY <1>1 DEF Pending, ToReport
  <2> QED BY <1>1, <1>3, <1>4, <1>7, <2>1 DEF KeptOK
<1> QED BY <1>5, <1>6, <1>8 DEF KeptInv

LEMMA KeptWorkArrives ==
  ASSUME ReplaceInv, KeptInv, WorkArrives
  PROVE  KeptInv'
<1>1. PICK w \in Work, x \in Live :
        /\ home'[w] = x
        /\ \A v \in Work : v # w => home'[v] = home[v]
        /\ late' = late \cup {w} \/ late' = late
        /\ w \notin late' => \A q \in Requests : gate = q => x \in req[q].eligible
  BY WorkArrivesEffect DEF ReplaceInv
<1>2. proc = "up" /\ UNCHANGED <<proc, sess, gate, req, leaving, marker, op, boot, crashes, torn>>
  BY WorkArrivesEffect DEF ReplaceInv
<1>3. GateOK /\ StartupOK /\ Alone /\ RecordKnown /\ ListKnown /\ StopsOK /\ KeptOK
  BY KeptFacts
<1>4. Alone' /\ RecordKnown' /\ ListKnown'
  BY <1>2, <1>3 DEF Alone, RecordKnown, ListKnown, RecoveryList, Recorded
<1>5. MovedOK'
  BY <1>2, <1>3, MovedStays DEF Outside
<1>6. \A z \in Sessions : /\ Left(z)' <=> Left(z)
                          /\ Owed(z)' => Owed(z) \/ (z = x /\ w \notin late')
  BY <1>1, <1>2 DEF Left, Owed
<1>7. Live' = Live /\ x \in Live /\ Live \subseteq Sessions /\ ~Left(x)
  BY <1>1, <1>2 DEF Live, Left
<1>8. StopsOK'
  <2>1. \A q \in Requests : req[q].pc \in Holding => gate = q
    BY <1>3 DEF GateOK
  <2> QED BY <1>1, <1>2, <1>3, <1>6, <1>7, <2>1 DEF StopsOK
<1>9. KeptOK'
  <2>1. Pending' = Pending /\ ToReport' = ToReport
    BY <1>2 DEF Pending, ToReport
  <2> QED BY <1>2, <1>3, <1>6, <1>7, <2>1 DEF KeptOK
<1> QED BY <1>4, <1>5, <1>8, <1>9 DEF KeptInv

LEMMA KeptClose ==
  ASSUME ReplaceInv, KeptInv, Close
  PROVE  KeptInv'
<1>1. PICK x \in Sessions :
        /\ sess'[x].closed /\ sess'[x].state = "stopped"
        /\ \A y \in Sessions : y # x => sess'[y] = sess[y]
  BY CloseEffect DEF ReplaceInv
<1>2. proc = "up" /\ UNCHANGED <<proc, home, gate, req, leaving, marker, op, boot, crashes, torn, late>>
  BY CloseEffect DEF ReplaceInv
<1>3. StartupOK /\ Alone /\ RecordKnown /\ ListKnown /\ StopsOK /\ KeptOK
  BY KeptFacts
<1>4. Alone' /\ RecordKnown' /\ ListKnown'
  BY <1>2, <1>3 DEF Alone, RecordKnown, ListKnown, RecoveryList, Recorded
<1>5. MovedOK'
  BY <1>2, <1>3, MovedStays DEF Outside
<1>6. \A z \in Sessions : (Left(z)' => Left(z)) /\ (Owed(z)' <=> Owed(z))
  BY <1>1, <1>2 DEF Left, Owed
<1>7. StopsOK'
  <2>1. Live' \subseteq Live /\ Live \subseteq Sessions
    BY <1>1 DEF Live
  <2> QED BY <1>2, <1>3, <1>6, <2>1 DEF StopsOK
<1>8. KeptOK'
  <2>1. Pending' = Pending /\ ToReport' = ToReport
    BY <1>2 DEF Pending, ToReport
  <2> QED BY <1>2, <1>3, <1>6, <2>1 DEF KeptOK
<1> QED BY <1>4, <1>5, <1>7, <1>8 DEF KeptInv

LEMMA StepKept ==
  ASSUME ReplaceInv, KeptInv, [Next]_vars, [Afresh]_vars
  PROVE  KeptInv'
<1>1. CASE UNCHANGED vars
  BY <1>1 DEF vars, KeptInv, Alone, RecordKnown, ListKnown, Recorded, RecoveryList, MovedOK,
              StopsOK, KeptOK, Left, Owed, Pending, Live, ToReport
<1>2. ASSUME Afresh, NEW q \in Requests, Request(q) \/ ClassificationThrows(q) \/ RequestStep(q)
      PROVE  KeptInv'
  BY <1>2, KeptRequest, KeptThrows, KeptQuietSteps, KeptCheckpoint, KeptStopSession, KeptRejected,
     KeptRestored, KeptClearMarker, KeptCancelled DEF RequestStep
<1>3. CASE BootStep
  BY <1>3, KeptStart, KeptBootSkipsClosed, KeptBootRestores, KeptBootCheckpoints, KeptBootDone
     DEF BootStep
<1>4. CASE Exit \/ Crash
  BY <1>4, KeptDown
<1>5. CASE WorkArrives \/ Close
  BY <1>5, KeptWorkArrives, KeptClose
<1>6. CASE Next /\ Afresh
  BY <1>2, <1>3, <1>4, <1>5, <1>6 DEF Next
<1> QED BY <1>1, <1>6

\* The durable work of a session that a restart stopped is pending, in the hands of
\* the rollback, recorded as failed or in a record that the next startup reports (Checkpoint, restoreAfterRejectedRestart and
\* restoreRestartedSessions), over any number of restarts that begin afresh.
THEOREM KeepsWork == Spec /\ [][Afresh]_vars => []WorkIsKept
<1>1. ReplaceInv /\ KeptInv /\ [Next]_vars /\ [Afresh]_vars => (ReplaceInv /\ KeptInv)'
  BY StepReplace, StepKept
<1>2. ReplaceInv /\ KeptInv => WorkIsKept
  <2> SUFFICES ASSUME ReplaceInv, KeptInv, NEW w \in Work \ late, home[w] # None,
                      sess[home[w]].state = "stopped", ~sess[home[w]].closed
               PROVE  \/ home[w] \in Pending
                      \/ home[w] \in op.failed
                      \/ marker = None /\ op.status = "open" /\ home[w] \in op.eligible
    BY DEF WorkIsKept
  <2>1. home[w] \in Sessions
    BY DEF ReplaceInv, TypeOK
  <2>2. Owed(home[w]) /\ Left(home[w])
    BY DEF Owed, Left
  <2> QED BY <2>1, <2>2 DEF KeptInv, KeptOK, ToReport
<1> QED BY InitReplace, InitKept, <1>1, <1>2, PTL DEF Spec

-----------------------------------------------------------------------------
(* What a startup reports *)

\* A process does not go down with the record of one operation beside the recovery
\* list of another.
OwnList ==
  Exit \/ Crash => (marker # None /\ op.status \in {"open", "failed"} => marker.ids = op.eligible)

\* What the recovery list says of its sessions is true, and once a process is down
\* it is about the sessions of the operation record.
RecordOK ==
  /\ \A x \in op.eligible : sess[x].state # "none"
  /\ marker # None => /\ \A x \in marker.recovered : ~NoCopy(x)
                      /\ \A x \in marker.closed : x \in marker.ids /\ sess[x].closed
  /\ proc # "up" /\ marker # None /\ op.status \in {"open", "failed"} => marker.ids = op.eligible

\* A startup has every session that is still pending in hand.
StartupKnows ==
  /\ proc = "boot" => Pending \subseteq boot.todo \cup boot.failed \cup {boot.moved}
  /\ boot.moved # None => ~NoCopy(boot.moved)

ReportInv == RecordOK /\ StartupKnows /\ CompleteIsComplete

LEMMA InitReport == Init => ReportInv
<1> SUFFICES ASSUME Init PROVE ReportInv
  OBVIOUS
<1> QED BY DEF Init, ReportInv, RecordOK, StartupKnows, CompleteIsComplete, NoBoot

\* Sessions that exist keep what the record and the list say of them.
SessGrow == \A x \in Sessions : sess[x].state # "none" =>
  /\ sess'[x].state # "none"
  /\ sess[x].closed => sess'[x].closed
  /\ ~NoCopy(x) => ~NoCopy(x)'

LEMMA ReportFacts ==
  ASSUME ReplaceInv, ReportInv
  PROVE  /\ TypeOK /\ SessOK /\ BootOK /\ StartupOK /\ ListOK
         /\ RecordOK /\ StartupKnows /\ CompleteIsComplete
         /\ op.eligible \subseteq Sessions
         /\ marker # None => /\ marker.ids \subseteq Sessions /\ marker.recovered \subseteq Sessions
                             /\ marker.closed \subseteq Sessions
         /\ None \notin Sessions
BY RestartAssumption DEF ReplaceInv, ReportInv, Sessions, TypeOK, RecoveryLists, Operation

LEMMA CompleteStays ==
  ASSUME ReplaceInv, ReportInv, SessGrow, op' = op
  PROVE  CompleteIsComplete' /\ \A x \in op'.eligible : sess'[x].state # "none"
<1>1. RecordOK /\ CompleteIsComplete /\ op.eligible \subseteq Sessions
  BY ReportFacts
<1>2. ASSUME op.status = "complete", NEW x \in op.eligible
      PROVE  sess'[x].closed \/ ~NoCopy(x)'
  <2>1. sess[x].state # "none" /\ x \in Sessions /\ (sess[x].closed \/ ~NoCopy(x))
    BY <1>1, <1>2 DEF CompleteIsComplete, RecordOK, NoCopy
  <2> QED BY <2>1 DEF SessGrow
<1> QED BY <1>1, <1>2 DEF CompleteIsComplete, NoCopy, RecordOK, SessGrow

LEMMA ListStays ==
  ASSUME ReplaceInv, ReportInv, SessGrow, marker # None
  PROVE  /\ \A x \in marker.recovered : ~NoCopy(x)'
         /\ \A x \in marker.closed : x \in marker.ids /\ sess'[x].closed
<1>1. /\ \A x \in marker.recovered : x \in Sessions /\ sess[x].state # "none" /\ ~NoCopy(x)
      /\ \A x \in marker.closed : x \in Sessions /\ x \in marker.ids /\ sess[x].state # "none"
                                  /\ sess[x].closed
  BY ReportFacts DEF RecordOK, SessOK, Past, ListOK
<1> QED BY <1>1 DEF SessGrow

\* The steps of a process that is up: of a call, of a user, of new work.
LEMMA ReportUp ==
  ASSUME ReplaceInv, ReportInv, SessGrow, proc = "up", UNCHANGED <<proc, boot>>,
         \/ op' = op
         \/ op'.status # "complete" /\ \A x \in op'.eligible : sess'[x].state # "none",
         \/ marker' \in {marker, None}
         \/ marker'.recovered = {} /\ marker'.closed = {}
  PROVE  ReportInv'
<1>1. StartupOK /\ StartupKnows
  BY ReportFacts
<1>2. StartupKnows'
  BY <1>1 DEF StartupKnows, StartupOK, NoBoot
<1>3. CompleteIsComplete' /\ \A x \in op'.eligible : sess'[x].state # "none"
  BY CompleteStays DEF CompleteIsComplete
<1>4. marker' # None => /\ \A x \in marker'.recovered : ~NoCopy(x)'
                        /\ \A x \in marker'.closed : x \in marker'.ids /\ sess'[x].closed
  BY ListStays
<1>5. RecordOK'
  BY <1>3, <1>4 DEF RecordOK, NoCopy
<1> QED BY <1>2, <1>3, <1>5 DEF ReportInv

LEMMA SameSessions == ASSUME sess' = sess PROVE SessGrow
BY DEF SessGrow, NoCopy

\* The steps of a call that write the record, or write or remove the list.
Writes(q) ==
  \/ PersistOperation(q) \/ PhaseBegins(q) \/ Checkpoint(q) \/ CheckpointFails(q)
  \/ RestartRequested(q) \/ ClearMarker(q) \/ Cancelled(q)

LEMMA ReportRequest ==
  ASSUME ReplaceInv, ReportInv, NEW q \in Requests,
         Request(q) \/ ClassificationThrows(q) \/ RequestStep(q),
         ~StopSession(q), ~Restored(q)
  PROVE  ReportInv'
<1>1. TypeOK /\ \A x \in req[q].eligible : sess[x].state # "none"
  BY DEF ReplaceInv, RequestOK
<1>2. proc = "up" /\ UNCHANGED <<proc, boot, sess>>
  BY DEF Request, ClassificationThrows, RequestStep, PersistOperation, PersistFails, PhaseBegins,
         PhaseThrows, Checkpoint, CheckpointFails, StopFails, StopsDone, Rejected, Launched,
         RestartRequested, RestoreBegins, RestoreFails, ClearMarker, Cancelled, CancelThrows, At
<1>3. SessGrow
  BY <1>2, SameSessions
<1>4. CASE Writes(q)
  <2>1. \/ op' = op
        \/ op'.status # "complete" /\ op'.eligible = req[q].eligible
    <3>1. Recorded(q).status # "complete" /\ Recorded(q).eligible = req[q].eligible
      BY DEF Recorded
    <3>2. CASE PersistOperation(q) \/ PhaseBegins(q) \/ Checkpoint(q) \/ RestartRequested(q)
      BY <1>1, <3>1, <3>2, PersistEffect, PhaseEffect, CheckpointEffect, LaunchEffect
    <3>3. CASE CheckpointFails(q) \/ ClearMarker(q) \/ Cancelled(q)
      BY <1>1, <3>3, CheckpointEffect, ClearMarkerEffect, CancelledEffect
    <3> QED BY <1>4, <3>2, <3>3 DEF Writes
  <2>2. marker' \in {marker, None, RecoveryList(q)}
    BY <1>1, <1>4, PersistEffect, PhaseEffect, CheckpointEffect, LaunchEffect, ClearMarkerEffect,
       CancelledEffect DEF Writes
  <2>3. RecoveryList(q).recovered = {} /\ RecoveryList(q).closed = {}
    BY DEF RecoveryList
  <2> QED BY <1>1, <1>2, <1>3, <2>1, <2>2, <2>3, ReportUp
<1>5. CASE UNCHANGED <<op, marker>>
  BY <1>2, <1>3, <1>5, ReportUp
<1>6. UNCHANGED <<op, marker>> \/ Writes(q)
  BY DEF Request, ClassificationThrows, RequestStep, PersistFails, PhaseThrows, StopFails, StopsDone,
         Rejected, Launched, RestoreBegins, RestoreFails, CancelThrows, Writes
<1> QED BY <1>4, <1>5, <1>6

LEMMA ReportStopSession ==
  ASSUME ReplaceInv, ReportInv, NEW q \in Requests, StopSession(q)
  PROVE  ReportInv'
<1>1. PICK x \in req[q].todo :
        /\ sess'[x].state = IF sess[x].state = "live" THEN "stopped" ELSE sess[x].state
        /\ sess'[x].closed = sess[x].closed /\ sess'[x].source = sess[x].source
        /\ \A y \in Sessions : y # x => sess'[y] = sess[y]
  BY StopEffect DEF ReplaceInv
<1>2. proc = "up" /\ UNCHANGED <<proc, boot, marker, op>>
  BY DEF StopSession, At
<1>3. SessGrow
  BY <1>1 DEF SessGrow, NoCopy
<1> QED BY <1>2, <1>3, ReportUp

LEMMA ReplacedGrows ==
  ASSUME SessOK, NEW x \in Sessions, NEW y \in Sessions, Replaced(x, y), torn' = torn,
         Past(x), NoCopy(x) \/ x \in torn
  PROVE  SessGrow /\ ~NoCopy(x)'
<1>1. /\ \A z \in Sessions : /\ sess[z].state # "none" => sess'[z] = sess[z]
                             /\ sess[z].state # "none" => sess'[z].state # "none"
      /\ ~NoCopy(x)'
  BY ReplacedKeeps
<1>2. ASSUME NEW z \in Sessions, ~NoCopy(z), sess[z].state # "none" PROVE ~NoCopy(z)'
  <2>1. PICK u \in Sessions : sess[u].source = z
    BY <1>2 DEF NoCopy
  <2>2. CASE u # y
    BY <2>1, <2>2 DEF NoCopy, Replaced
  <2>3. CASE u = y
    BY <2>1, <2>3, RestartAssumption DEF SessOK, Replaced, Sessions
  <2> QED BY <2>2, <2>3
<1> QED BY <1>1, <1>2 DEF SessGrow

LEMMA ReportRestored ==
  ASSUME ReplaceInv, ReportInv, NEW q \in Requests, Restored(q)
  PROVE  ReportInv'
<1> DEFINE x == req[q].cur
<1>1. req[q].pc = "rollback" /\ x \in Sessions
  BY RestoredEffect DEF ReplaceInv
<1>2. PICK y \in Sessions : Replaced(x, y)
  BY RestoredEffect DEF ReplaceInv
<1>3. SessOK /\ RequestOK(q) /\ None \notin Sessions
  BY ReportFacts DEF ReplaceInv
<1>4. Past(x) /\ NoCopy(x)
  BY <1>1, <1>3 DEF RequestOK, ToRestore
<1> HIDE DEF x
<1>5. proc = "up" /\ UNCHANGED <<proc, boot, marker, op, torn>>
  BY DEF Restored, At
<1>6. SessGrow
  BY <1>1, <1>2, <1>3, <1>4, <1>5, ReplacedGrows
<1> QED BY <1>5, <1>6, ReportUp

LEMMA ReportAround ==
  ASSUME ReplaceInv, ReportInv, WorkArrives \/ Close
  PROVE  ReportInv'
<1>1. proc = "up" /\ UNCHANGED <<proc, boot, marker, op>>
  BY DEF WorkArrives, Close
<1>2. CASE WorkArrives
  BY <1>1, <1>2, SameSessions, ReportUp DEF WorkArrives
<1>3. CASE Close
  <2>1. PICK x \in Sessions :
          /\ sess'[x].closed /\ sess'[x].state = "stopped" /\ sess'[x].source = sess[x].source
          /\ \A y \in Sessions : y # x => sess'[y] = sess[y]
    BY <1>3, CloseEffect DEF ReplaceInv
  <2>2. SessGrow
    BY <2>1 DEF SessGrow, NoCopy
  <2> QED BY <1>1, <2>2, ReportUp
<1> QED BY <1>2, <1>3

LEMMA ReportDown ==
  ASSUME ReplaceInv, ReportInv, OwnList, Exit \/ Crash
  PROVE  ReportInv'
<1>1. proc' = "down" /\ boot' = NoBoot /\ UNCHANGED <<marker, op>>
  BY DownEffect DEF ReplaceInv
<1>2. \A x \in Sessions :
        /\ sess'[x].closed = sess[x].closed
        /\ sess'[x].source = sess[x].source
        /\ sess'[x].state = IF sess[x].state = "live" THEN "lost" ELSE sess[x].state
  BY DownEffect DEF ReplaceInv
<1>3. SessGrow
  BY <1>2 DEF SessGrow, NoCopy
<1>4. CompleteIsComplete' /\ \A x \in op'.eligible : sess'[x].state # "none"
  BY <1>1, <1>3, CompleteStays
<1>5. marker' # None => /\ \A x \in marker'.recovered : ~NoCopy(x)'
                        /\ \A x \in marker'.closed : x \in marker'.ids /\ sess'[x].closed
  BY <1>1, <1>3, ListStays
<1>6. RecordOK'
  BY <1>1, <1>4, <1>5 DEF RecordOK, NoCopy, OwnList
<1>7. StartupKnows'
  BY <1>1 DEF StartupKnows, NoBoot
<1> QED BY <1>4, <1>6, <1>7 DEF ReportInv

LEMMA ReportStart ==
  ASSUME ReplaceInv, ReportInv, Start \/ BootFails
  PROVE  ReportInv'
<1>1. /\ proc # "up" /\ boot'.moved = None
      /\ UNCHANGED <<sess, marker, op>>
  BY StartEffect, BootFailsEffect DEF ReplaceInv
<1>2. RecordOK /\ StartupKnows /\ CompleteIsComplete /\ TypeOK
  BY ReportFacts
<1>3. RecordOK' /\ CompleteIsComplete'
  BY <1>1, <1>2 DEF RecordOK, CompleteIsComplete, NoCopy
<1>4. Pending' \subseteq boot'.todo \cup boot'.failed
  <2>1. Pending' = Pending
    BY <1>1 DEF Pending
  <2>2. CASE Start
    BY <1>2, <2>1, <2>2, StartEffect
  <2>3. CASE BootFails
    <3>1. PICK x \in boot.todo :
            boot'.todo = boot.todo \ {x} /\ boot'.failed = boot.failed \cup {x}
      BY <1>2, <2>3, BootFailsEffect
    <3>2. proc = "boot" /\ boot.moved = None
      BY <1>2, <2>3, BootFailsEffect
    <3>3. None \notin Pending
      BY <1>2, RestartAssumption DEF TypeOK, Pending, RecoveryLists, Sessions
    <3> QED BY <1>2, <2>1, <3>1, <3>2, <3>3 DEF StartupKnows
  <2> QED BY <2>2, <2>3
<1>5. StartupKnows'
  BY <1>1, <1>4 DEF StartupKnows
<1> QED BY <1>3, <1>5 DEF ReportInv

LEMMA ReportBootSkipsClosed ==
  ASSUME ReplaceInv, ReportInv, BootSkipsClosed
  PROVE  ReportInv'
<1>1. PICK x \in boot.todo :
        /\ sess[x].closed
        /\ boot'.todo = boot.todo \ {x} /\ boot'.failed = boot.failed /\ boot'.moved = None
        /\ marker'.ids = marker.ids /\ marker'.recovered = marker.recovered
        /\ marker'.closed = marker.closed \cup {x}
  BY BootSkipsEffect DEF ReplaceInv
<1>2. /\ proc = "boot" /\ boot.moved = None
      /\ marker # None /\ marker' # None
      /\ UNCHANGED <<proc, sess, op>>
  BY BootSkipsEffect DEF ReplaceInv
<1>3. BootOK /\ RecordOK /\ StartupKnows /\ CompleteIsComplete
  BY ReportFacts
<1>4. x \in Pending /\ Pending' = Pending \ {x} /\ x \in marker.ids
  BY <1>1, <1>2, <1>3 DEF BootOK, Pending
<1>5. RecordOK'
  BY <1>1, <1>2, <1>3, <1>4 DEF RecordOK, NoCopy
<1>6. CompleteIsComplete'
  BY <1>2, <1>3 DEF CompleteIsComplete
<1>7. StartupKnows'
  BY <1>1, <1>2, <1>3, <1>4 DEF StartupKnows
<1> QED BY <1>5, <1>6, <1>7 DEF ReportInv

LEMMA ReportBootCheckpoints ==
  ASSUME ReplaceInv, ReportInv, BootCheckpoints
  PROVE  ReportInv'
<1> DEFINE x == boot.moved
<1>1. /\ proc = "boot" /\ x # None
      /\ marker # None /\ marker' # None
      /\ boot'.todo = boot.todo /\ boot'.failed = boot.failed /\ boot'.moved = None
      /\ marker'.ids = marker.ids /\ marker'.closed = marker.closed
      /\ marker'.recovered = marker.recovered \cup {x}
      /\ UNCHANGED <<proc, sess, op>>
  BY BootCheckpointsEffect DEF ReplaceInv
<1>2. RecordOK /\ StartupKnows /\ CompleteIsComplete
  BY ReportFacts
<1>3. Pending' = Pending \ {x}
  BY <1>1 DEF Pending
<1>4. ~NoCopy(x) /\ Pending \subseteq boot.todo \cup boot.failed \cup {x}
  BY <1>1, <1>2 DEF StartupKnows
<1> HIDE DEF x
<1>5. RecordOK'
  BY <1>1, <1>2, <1>4 DEF RecordOK, NoCopy
<1>6. CompleteIsComplete'
  BY <1>1, <1>2 DEF CompleteIsComplete
<1>7. StartupKnows'
  BY <1>1, <1>3, <1>4 DEF StartupKnows
<1> QED BY <1>5, <1>6, <1>7 DEF ReportInv

LEMMA ReportBootRestores ==
  ASSUME ReplaceInv, ReportInv, BootRestores
  PROVE  ReportInv'
<1>1. PICK x \in boot.todo, y \in Sessions :
        /\ x \in Sessions /\ Replaced(x, y)
        /\ boot'.todo = boot.todo \ {x} /\ boot'.failed = boot.failed /\ boot'.moved = x
  BY BootRestoresEffect DEF ReplaceInv
<1>2. /\ proc = "boot" /\ boot.moved = None
      /\ UNCHANGED <<proc, marker, op, torn>>
  BY BootRestoresEffect DEF ReplaceInv
<1>3. /\ SessOK /\ BootOK /\ ListOK /\ RecordOK /\ StartupKnows /\ None \notin Sessions
      /\ Unlisted = {z \in Sessions : boot.moved = z}
  BY <1>2, ReportFacts, StartingFacts
<1>4. Past(x) /\ (NoCopy(x) \/ x \in torn)
  BY <1>1, <1>2, <1>3 DEF BootOK, ListOK
<1>5. SessGrow /\ ~NoCopy(x)'
  BY <1>1, <1>2, <1>3, <1>4, ReplacedGrows
<1>6. CompleteIsComplete' /\ \A z \in op'.eligible : sess'[z].state # "none"
  BY <1>2, <1>5, CompleteStays
<1>7. marker' # None => /\ \A z \in marker'.recovered : ~NoCopy(z)'
                        /\ \A z \in marker'.closed : z \in marker'.ids /\ sess'[z].closed
  BY <1>2, <1>5, ListStays
<1>8. RecordOK'
  BY <1>2, <1>3, <1>6, <1>7 DEF RecordOK, NoCopy
<1>9. StartupKnows'
  <2>1. Pending' = Pending /\ None \notin Pending
    BY <1>2, RestartAssumption DEF Pending, ReplaceInv, TypeOK, RecoveryLists, Sessions
  <2> QED BY <1>1, <1>2, <1>3, <1>5, <2>1 DEF StartupKnows
<1> QED BY <1>6, <1>8, <1>9 DEF ReportInv

\* Nothing is missing when the record becomes complete.
LEMMA ReportBootDone ==
  ASSUME ReplaceInv, ReportInv, BootDone
  PROVE  ReportInv'
<1>1. /\ proc = "boot" /\ proc' = "up"
      /\ boot.todo = {} /\ boot.moved = None /\ boot' = NoBoot
      /\ op'.eligible = op.eligible
      /\ \/ op' = op
         \/ /\ op.status \notin {"none", "complete", "partial"}
            /\ op'.failed = Failures \cap op.eligible
            /\ op'.status = "complete" => op'.failed = {}
      /\ UNCHANGED <<sess, marker>>
  BY BootDoneEffect DEF ReplaceInv
<1>2. /\ TypeOK /\ RecordOK /\ StartupKnows /\ CompleteIsComplete
      /\ op.eligible \subseteq Sessions /\ None \notin Sessions
  BY ReportFacts
<1>3. RecordOK'
  BY <1>1, <1>2 DEF RecordOK, NoCopy
<1>4. CompleteIsComplete'
  <2>1. CASE op' = op
    BY <1>1, <1>2, <2>1 DEF CompleteIsComplete
  <2>2. CASE /\ op.status \notin {"none", "complete", "partial"}
             /\ op'.failed = Failures \cap op.eligible
             /\ op'.status = "complete" => op'.failed = {}
    <3> SUFFICES ASSUME op'.status = "complete", NEW x \in op.eligible
                 PROVE  sess[x].closed \/ ~NoCopy(x)
      BY <1>1 DEF CompleteIsComplete, NoCopy
    <3>1. op.status \in {"open", "failed"}
      BY <1>2, <2>2 DEF TypeOK, Operation
    <3>2. marker # None /\ x \notin boot.failed
      BY <2>2 DEF Failures
    <3>3. x \in marker.ids
      BY <1>1, <1>2, <3>1, <3>2 DEF RecordOK
    <3>4. x \in Sessions /\ Pending \subseteq boot.failed \cup {None}
      BY <1>1, <1>2 DEF StartupKnows
    <3>5. x \in marker.recovered \/ x \in marker.closed
      BY <1>2, <3>2, <3>3, <3>4 DEF Pending
    <3> QED BY <1>2, <3>2, <3>5 DEF RecordOK
  <2> QED BY <1>1, <2>1, <2>2
<1>5. StartupKnows'
  BY <1>1 DEF StartupKnows, NoBoot
<1> QED BY <1>3, <1>4, <1>5 DEF ReportInv

LEMMA StepReport ==
  ASSUME ReplaceInv, ReportInv, [Next]_vars, [OwnList]_vars
  PROVE  ReportInv'
<1>1. CASE UNCHANGED vars
  BY <1>1 DEF vars, ReportInv, RecordOK, StartupKnows, CompleteIsComplete, NoCopy, Pending
<1>2. ASSUME NEW q \in Requests, Request(q) \/ ClassificationThrows(q) \/ RequestStep(q)
      PROVE  ReportInv'
  BY <1>2, ReportRequest, ReportStopSession, ReportRestored
<1>3. CASE BootStep
  BY <1>3, ReportStart, ReportBootSkipsClosed, ReportBootRestores, ReportBootCheckpoints,
     ReportBootDone DEF BootStep
<1>4. CASE OwnList /\ (Exit \/ Crash)
  BY <1>4, ReportDown
<1>5. CASE WorkArrives \/ Close
  BY <1>5, ReportAround
<1>6. CASE Next /\ OwnList
  BY <1>2, <1>3, <1>4, <1>5, <1>6 DEF Next
<1> QED BY <1>1, <1>6

\* An operation record says "complete" only when every session it lists has a
\* replacement or was closed, whatever interrupted the restart and however often the
\* process went down (recordControlledRestartRecovery), over any number of restarts.
\* A startup does not compare the operation of the list with that of the record:
\* hence the assumption that a process leaves no record beside another's list.
THEOREM Completes == Spec /\ [][OwnList]_vars => []CompleteIsComplete
<1>1. ReplaceInv /\ ReportInv /\ [Next]_vars /\ [OwnList]_vars => (ReplaceInv /\ ReportInv)'
  BY StepReplace, StepReport
<1>2. ReportInv => CompleteIsComplete
  BY DEF ReportInv
<1> QED BY InitReplace, InitReport, <1>1, <1>2, PTL DEF Spec

-----------------------------------------------------------------------------
(* One restart *)

OneRequest == \A q, r \in Requests : q = r

\* The list on disk and the record are the one call's, which begins with neither.
OnceInv ==
  /\ \A q \in Requests : req[q].pc = "new" => \A x \in Sessions : ~Left(x)
  /\ \A q \in Requests : req[q].pc \in {"new", "requested", "recorded", "draining"} => marker = None
  /\ \A q \in Requests : req[q].pc \in Working \ {"requested"} => op.eligible = req[q].eligible
  /\ marker # None => marker.ids = op.eligible

LEMMA InitOnce == Init => OnceInv
BY DEF Init, OnceInv, NewRequest, Left, Working, Holding

LEMMA OnceCall ==
  ASSUME OneRequest, ReplaceInv, OnceInv, NEW q \in Requests,
         Request(q) \/ ClassificationThrows(q) \/ RequestStep(q)
  PROVE  OnceInv'
<1>1. /\ TypeOK /\ OnceInv
      /\ \A r \in Requests : r = q
  BY DEF ReplaceInv, OneRequest
<1>2. RecoveryList(q).ids = req[q].eligible
  BY DEF RecoveryList
<1>3. Recorded(q).eligible = req[q].eligible
  BY DEF Recorded
<1>4. CASE Request(q)
  BY <1>1, <1>4, RequestEffect DEF OnceInv, Working, Holding
<1>5. CASE ClassificationThrows(q) \/ PhaseThrows(q)
  BY <1>1, <1>5, ThrowsEffect DEF OnceInv, Working, Holding
<1>6. CASE PersistOperation(q) \/ PersistFails(q)
  BY <1>1, <1>3, <1>6, PersistEffect DEF OnceInv, Keeps, Working, Holding
<1>7. CASE PhaseBegins(q)
  BY <1>1, <1>3, <1>7, PhaseEffect DEF OnceInv, Keeps, Working, Holding
<1>8. CASE Checkpoint(q)
  BY <1>1, <1>2, <1>3, <1>8, CheckpointEffect DEF OnceInv, Keeps, Working, Holding
<1>9. CASE CheckpointFails(q)
  <2>1. /\ req[q].pc = "draining" /\ req'[q].pc = "done"
        /\ marker' = None \/ marker' = RecoveryList(q)
        /\ op'.eligible = req[q].eligible
    BY <1>1, <1>9, CheckpointEffect DEF OnceInv, Working, Holding
  <2> QED BY <1>1, <1>2, <2>1 DEF OnceInv, Working, Holding
<1>10. CASE StopSession(q)
  <2>1. /\ req[q].pc = "stopping" /\ req'[q].pc = "stopping" /\ req'[q].eligible = req[q].eligible
        /\ UNCHANGED <<marker, op>>
    BY <1>1, <1>10, StopEffect
  <2> QED BY <1>1, <2>1 DEF OnceInv
<1>11. CASE StopFails(q)
  BY <1>1, <1>11, StopFailsEffect DEF OnceInv
<1>12. CASE StopsDone(q) \/ Launched(q) \/ RestartRequested(q)
  <2>1. /\ req[q].pc \in {"stopping", "launch", "launched"} /\ req'[q].eligible = req[q].eligible
        /\ req'[q].pc \in {"launch", "launched", "done"}
        /\ marker' = marker /\ (op' = op \/ op' = Recorded(q))
    BY <1>1, <1>12, LaunchEffect DEF Keeps
  <2>2. op'.eligible = req[q].eligible /\ op.eligible = req[q].eligible
    BY <1>1, <1>3, <2>1 DEF OnceInv, Working, Holding
  <2> QED BY <1>1, <2>1, <2>2 DEF OnceInv
<1>13. CASE Rejected(q)
  BY <1>1, <1>13, RejectedEffect DEF OnceInv, Working, Holding
<1>14. CASE RestoreBegins(q) \/ RestoreFails(q)
  BY <1>1, <1>14, RestoreBeginsEffect, RestoreFailsEffect DEF OnceInv
<1>15. CASE Restored(q)
  <2>1. /\ req[q].pc = "rollback" /\ req'[q].pc = "rollback" /\ req'[q].eligible = req[q].eligible
        /\ UNCHANGED <<marker, op>>
    BY <1>1, <1>15, RestoredEffect
  <2> QED BY <1>1, <2>1 DEF OnceInv
<1>16. CASE ClearMarker(q)
  BY <1>1, <1>16, ClearMarkerEffect DEF OnceInv, Keeps, Working, Holding
<1>17. CASE Cancelled(q) \/ CancelThrows(q)
  <2>1. /\ req[q].pc = "cleared" /\ req'[q].pc = "done"
        /\ op'.eligible = op.eligible /\ marker' = marker
    BY <1>1, <1>17, CancelledEffect DEF OnceInv, Working
  <2> QED BY <1>1, <2>1 DEF OnceInv, Working, Holding
<1> QED BY <1>4, <1>5, <1>6, <1>7, <1>8, <1>9, <1>10, <1>11, <1>12, <1>13, <1>14, <1>15, <1>16, <1>17
       DEF RequestStep

LEMMA OnceBoot ==
  ASSUME ReplaceInv, OnceInv, BootStep
  PROVE  OnceInv'
<1>1. TypeOK /\ StartupOK /\ OnceInv /\ BootOK
  BY DEF ReplaceInv
<1>2. CASE Start \/ BootFails \/ BootDone
  <2>1. UNCHANGED <<sess, req, marker>> /\ op'.eligible = op.eligible
    BY <1>1, <1>2, StartEffect, BootFailsEffect, BootDoneEffect
  <2> QED BY <1>1, <2>1 DEF OnceInv, Left
<1>3. CASE BootSkipsClosed \/ BootCheckpoints
  <2>1. /\ marker # None /\ marker'.ids = marker.ids /\ UNCHANGED <<sess, req, op>>
    BY <1>1, <1>3, BootSkipsEffect, BootCheckpointsEffect
  <2> QED BY <1>1, <2>1 DEF OnceInv
<1>4. CASE BootRestores
  <2>1. PICK x \in boot.todo, y \in Sessions : Replaced(x, y)
    BY <1>1, <1>4, BootRestoresEffect
  <2>2. UNCHANGED <<req, marker, op>>
    BY <1>1, <1>4, BootRestoresEffect
  <2>3. \A z \in Sessions : Left(z)' => Left(z)
    BY <2>1 DEF Replaced, Left
  <2> QED BY <1>1, <2>2, <2>3 DEF OnceInv
<1> QED BY <1>2, <1>3, <1>4 DEF BootStep

LEMMA OnceAround ==
  ASSUME ReplaceInv, OnceInv, Exit \/ Crash \/ WorkArrives \/ Close
  PROVE  OnceInv'
<1>1. TypeOK /\ OnceInv
  BY DEF ReplaceInv
<1>2. UNCHANGED <<marker, op>>
  BY DEF Exit, Crash, Down, WorkArrives, Close
<1>3. \A q \in Requests : \/ req'[q] = req[q]
                          \/ req'[q].pc = "done"
  <2>1. CASE Exit \/ Crash
    BY <1>1, <2>1, DownEffect
  <2>2. CASE WorkArrives \/ Close
    BY <2>2 DEF WorkArrives, Close
  <2> QED BY <2>1, <2>2
<1>4. \A z \in Sessions : Left(z)' => Left(z)
  <2>1. CASE Exit \/ Crash
    BY <1>1, <2>1, DownEffect DEF Left
  <2>2. CASE WorkArrives
    BY <2>2 DEF WorkArrives, Left
  <2>3. CASE Close
    BY <1>1, <2>3, CloseEffect DEF Left
  <2> QED BY <2>1, <2>2, <2>3
<1> QED BY <1>1, <1>2, <1>3, <1>4 DEF OnceInv, Working, Holding

LEMMA StepOnce ==
  ASSUME OneRequest, ReplaceInv, OnceInv, [Next]_vars
  PROVE  OnceInv'
<1>1. CASE UNCHANGED vars
  BY <1>1 DEF vars, OnceInv, Left
<1>2. CASE Next
  BY <1>2, OnceCall, OnceBoot, OnceAround DEF Next
<1> QED BY <1>1, <1>2

\* With one request both assumptions hold of every step.
LEMMA OnceAfresh ==
  ASSUME OneRequest
  PROVE  Spec => [][Afresh]_vars /\ [][OwnList]_vars
<1>1. ReplaceInv /\ OnceInv /\ [Next]_vars => (ReplaceInv /\ OnceInv)'
  BY StepReplace, StepOnce
<1>2. OnceInv => Afresh
  BY DEF OneRequest, OnceInv, Afresh, Request, At
<1>3. OnceInv => OwnList
  BY DEF OnceInv, OwnList
<1> QED BY InitReplace, InitOnce, <1>1, <1>2, <1>3, PTL DEF Spec

\* One restart from a process that has never restarted keeps the work of every
\* session it stops, and is recorded as complete only when it is: crashes, failing
\* writes, stops, launches and recreations included (requestControlledRestart and
\* the startup after it).
THEOREM OneRestart ==
  ASSUME \A q, r \in Requests : q = r
  PROVE  Spec => []WorkIsKept /\ []CompleteIsComplete
<1>1. OneRequest
  BY DEF OneRequest
<1> QED BY <1>1, OnceAfresh, KeepsWork, Completes, PTL
===============================================================================

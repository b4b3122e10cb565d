--------------------------- MODULE ControlledRestart ---------------------------
(***************************************************************************)
(* The managed restart (src/src/server/controlled-restart.ts) and what the *)
(* next process does with its checkpoint (src/src/server/bootstrap/        *)
(* warm-restart.ts): drain, write the recovery list, stop every session,   *)
(* hand over to the supervisor or roll back, recreate the listed sessions  *)
(* at startup and record the outcome.                                      *)
(*                                                                         *)
(* Durable work is what makes a session eligible and what must follow it   *)
(* to its replacement: queued prompts, supervised dispatches, direct-chat  *)
(* turns; an active turn counts as work.  Steps are the awaits of the code;*)
(* the operation file is rewritten at each of them and only what a later   *)
(* process reads of it is kept.  Every write of requestControlledRestart   *)
(* and the removal of the recovery list may fail, caught or not; a failed  *)
(* write leaves the file as it was, and the startup's writes succeed.      *)
(***************************************************************************)
EXTENDS Naturals, FiniteSets

CONSTANTS
  Requests,   \* restart requests, each made at most once
  Initial,    \* the sessions of the first process
  Automatic,  \* those started automatically, which idle do not survive
  Spares,     \* sessions that can be created as replacements
  Work,       \* items of durable work
  MaxCrashes, \* bound: processes lost
  None

ASSUME RestartAssumption ==
  /\ Automatic \subseteq Initial
  /\ Initial \cap Spares = {}
  /\ None \notin Requests \cup Initial \cup Spares
  /\ MaxCrashes \in Nat

Sessions == Initial \cup Spares

ASSUME ListAssumption ==
  None \notin [ids : SUBSET Sessions, recovered : SUBSET Sessions, closed : SUBSET Sessions]

VARIABLES
  proc,       \* "up", "down", or "boot": the startup recovery
  sess,       \* sessions as manager and message store know them
  home,       \* the session each item of work is bound to
  gate,       \* the request that holds the drain gate
  req,        \* requestControlledRestart calls
  leaving,    \* the supervisor has been launched: this process will exit
  marker,     \* the recovery list on disk
  op,         \* the operation record on disk
  boot,       \* locals of restoreRestartedSessions
  crashes,    \* processes lost
  torn,       \* history: sessions whose replacement the recovery list did not
              \* show when a process ended, or when it could not be removed
  late        \* history: work that came during a restart for a session that the
              \* request had found settled

vars == <<proc, sess, home, gate, req, leaving, marker, op, boot, crashes, torn, late>>

NewRequest == [pc |-> "new", eligible |-> {}, stopped |-> {}, todo |-> {}, cur |-> None,
               refused |-> FALSE, failed |-> {}]
NoBoot == [todo |-> {}, failed |-> {}, moved |-> None]

Session == [state : {"none", "live", "stopped", "lost"}, closed : BOOLEAN, auto : BOOLEAN,
            source : Sessions \cup {None}]
Call == [pc : {"new", "requested", "recorded", "draining", "checkpointed", "stopping", "launch",
               "launched", "rollback", "cleared", "thrown", "done"},
         eligible : SUBSET Sessions, stopped : SUBSET Sessions, todo : SUBSET Sessions,
         cur : Sessions \cup {None}, refused : BOOLEAN, failed : SUBSET Sessions]
RecoveryLists == [ids : SUBSET Sessions, recovered : SUBSET Sessions, closed : SUBSET Sessions]
Operation == [status : {"none", "open", "failed", "complete", "partial"},
              eligible : SUBSET Sessions, failed : SUBSET Sessions]
Startup == [todo : SUBSET Sessions, failed : SUBSET Sessions, moved : Sessions \cup {None}]

TypeOK ==
  /\ proc \in {"up", "down", "boot"}
  /\ sess \in [Sessions -> Session]
  /\ home \in [Work -> Sessions \cup {None}]
  /\ gate \in Requests \cup {None}
  /\ req \in [Requests -> Call]
  /\ leaving \in BOOLEAN
  /\ marker \in RecoveryLists \cup {None}
  /\ op \in Operation
  /\ boot \in Startup
  /\ crashes \in 0 .. MaxCrashes
  /\ torn \subseteq Sessions
  /\ late \subseteq Work

Init ==
  /\ proc = "up"
  /\ sess = [x \in Sessions |-> [state |-> IF x \in Initial THEN "live" ELSE "none", closed |-> FALSE,
                                 auto |-> x \in Automatic, source |-> None]]
  /\ home = [w \in Work |-> None]
  /\ gate = None
  /\ req = [q \in Requests |-> NewRequest]
  /\ leaving = FALSE
  /\ marker = None
  /\ op = [status |-> "none", eligible |-> {}, failed |-> {}]
  /\ boot = NoBoot
  /\ crashes = 0
  /\ torn = {}
  /\ late = {}

-----------------------------------------------------------------------------
(* The request                                                             *)

Live == {x \in Sessions : sess[x].state = "live"}
HasWork(x) == \E w \in Work : home[w] = x

\* seeded fault: an automatic session is settled whatever it still owns
EligibleByOrigin == {x \in Live : ~sess[x].auto}

\* assessRestartRecovery
Eligible == {x \in Live : HasWork(x) \/ ~sess[x].auto}

At(q, pc) == proc = "up" /\ req[q].pc = pc
Goto(q, pc) == req' = [req EXCEPT ![q].pc = pc]

\* enter() throws when another request holds the gate; once a supervisor is
\* launched the route refuses
Request(q) ==
  /\ At(q, "new")
  /\ gate = None
  /\ ~leaving
  /\ gate' = q
  /\ req' = [req EXCEPT ![q].pc = "requested", ![q].eligible = Eligible, ![q].todo = Live]
  /\ UNCHANGED <<proc, sess, home, leaving, marker, op, boot, crashes, torn, late>>

\* the stores are read for the classification with the gate already closed, and
\* nobody who catches what they throw opens it again
ClassificationThrows(q) ==
  /\ At(q, "new")
  /\ gate = None
  /\ ~leaving
  /\ gate' = q
  /\ Goto(q, "thrown")
  /\ UNCHANGED <<proc, sess, home, leaving, marker, op, boot, crashes, torn, late>>

\* every write of the record says all of it
Recorded(q) == [status |-> "open", eligible |-> req[q].eligible, failed |-> {}]

PersistOperation(q) ==
  /\ At(q, "requested")
  /\ op' = Recorded(q)
  /\ Goto(q, "recorded")
  /\ UNCHANGED <<proc, sess, home, gate, leaving, marker, boot, crashes, torn, late>>

PersistFails(q) ==
  /\ At(q, "requested")
  /\ gate' = None
  /\ Goto(q, "done")
  /\ UNCHANGED <<proc, sess, home, leaving, marker, op, boot, crashes, torn, late>>

\* the drain, and later the stopping of the sessions, are recorded before they begin
PhaseBegins(q) ==
  /\ \/ At(q, "recorded") /\ Goto(q, "draining")
     \/ At(q, "checkpointed") /\ Goto(q, "stopping")
  /\ op' = Recorded(q)
  /\ UNCHANGED <<proc, sess, home, gate, leaving, marker, boot, crashes, torn, late>>

\* these two writes are in no try: the route fails and the gate stays closed
PhaseThrows(q) ==
  /\ At(q, "recorded") \/ At(q, "checkpointed")
  /\ Goto(q, "thrown")
  /\ UNCHANGED <<proc, sess, home, gate, leaving, marker, op, boot, crashes, torn, late>>

RecoveryList(q) == [ids |-> req[q].eligible, recovered |-> {}, closed |-> {}]

\* the sessions are quiet or the grace period is over
Checkpoint(q) ==
  /\ At(q, "draining")
  /\ marker' = RecoveryList(q)
  /\ op' = Recorded(q)
  /\ Goto(q, "checkpointed")
  /\ UNCHANGED <<proc, sess, home, gate, leaving, boot, crashes, torn, late>>

\* either of the two files, and a recovery list once written stays; the record
\* of the failure may fail as well
CheckpointFails(q) ==
  /\ At(q, "draining")
  /\ marker' \in {marker, RecoveryList(q)}
  /\ op' \in {op, [Recorded(q) EXCEPT !.status = "failed"]}
  /\ gate' = None
  /\ Goto(q, "done")
  /\ UNCHANGED <<proc, sess, home, leaving, boot, crashes, torn, late>>

StopSession(q) ==
  /\ At(q, "stopping")
  /\ \E x \in req[q].todo :
       /\ sess' = [sess EXCEPT ![x].state = IF @ = "live" THEN "stopped" ELSE @]
       /\ req' = [req EXCEPT ![q].todo = @ \ {x}, ![q].stopped = @ \cup {x}]
  /\ UNCHANGED <<proc, home, gate, leaving, marker, op, boot, crashes, torn, late>>

\* the agent's process is still there; the session stays as it was
StopFails(q) ==
  /\ At(q, "stopping")
  /\ \E x \in req[q].todo : /\ sess[x].state = "live"
                            /\ req' = [req EXCEPT ![q].todo = @ \ {x}, ![q].refused = TRUE]
  /\ UNCHANGED <<proc, sess, home, gate, leaving, marker, op, boot, crashes, torn, late>>

StopsDone(q) ==
  /\ At(q, "stopping")
  /\ req[q].todo = {}
  /\ ~req[q].refused
  /\ Goto(q, "launch")
  /\ UNCHANGED <<proc, sess, home, gate, leaving, marker, op, boot, crashes, torn, late>>

\* what restoreAfterRejectedRestart goes through
ToRestore(q) == req[q].stopped \cap req[q].eligible

\* seeded fault: the rollback starts with the gate still closed
RejectedHoldingGate(q) ==
  /\ \/ At(q, "stopping") /\ req[q].todo = {} /\ req[q].refused
     \/ At(q, "launch")
     \/ At(q, "launched")
  /\ req' = [req EXCEPT ![q].pc = "rollback", ![q].todo = ToRestore(q)]
  /\ UNCHANGED <<proc, sess, home, gate, leaving, marker, op, boot, crashes, torn, late>>

\* a session could not be stopped, the supervisor refuses, or the record that it
\* did not cannot be written: the shutdown is then on its way all the same
Rejected(q) ==
  /\ \/ At(q, "stopping") /\ req[q].todo = {} /\ req[q].refused
     \/ At(q, "launch")
     \/ At(q, "launched")
  /\ gate' = IF gate = q THEN None ELSE gate
  /\ req' = [req EXCEPT ![q].pc = "rollback", ![q].todo = ToRestore(q)]
  /\ UNCHANGED <<proc, sess, home, leaving, marker, op, boot, crashes, torn, late>>

\* launchRestartManager: the supervisor runs and the shutdown is 250 ms away
Launched(q) ==
  /\ At(q, "launch")
  /\ leaving' = TRUE
  /\ Goto(q, "launched")
  /\ UNCHANGED <<proc, sess, home, gate, marker, op, boot, crashes, torn, late>>

RestartRequested(q) ==
  /\ At(q, "launched")
  /\ op' = Recorded(q)
  /\ Goto(q, "done")
  /\ UNCHANGED <<proc, sess, home, gate, leaving, marker, boot, crashes, torn, late>>

-----------------------------------------------------------------------------
(* Replacements                                                            *)

\* createRestartReplacement, rebindSession of the queue and of the dispatches
Replace(x, y) ==
  /\ sess[y].state = "none"
  /\ sess' = [sess EXCEPT ![y] = [state |-> "live", closed |-> FALSE, auto |-> sess[x].auto,
                                  source |-> x]]
  /\ home' = [w \in Work |-> IF home[w] = x THEN y ELSE home[w]]

\* createSession looks at the gate, then awaits the agent
RestoreBegins(q) ==
  /\ At(q, "rollback")
  /\ req[q].cur = None
  /\ gate = None
  /\ \E x \in req[q].todo : req' = [req EXCEPT ![q].cur = x]
  /\ UNCHANGED <<proc, sess, home, gate, leaving, marker, op, boot, crashes, torn, late>>

Restored(q) ==
  /\ At(q, "rollback")
  /\ req[q].cur # None
  /\ \E y \in Spares : Replace(req[q].cur, y)
  /\ req' = [req EXCEPT ![q].todo = @ \ {req[q].cur}, ![q].cur = None]
  /\ UNCHANGED <<proc, gate, leaving, marker, op, boot, crashes, torn, late>>

\* seeded fault: the failure is noted without a session being at hand
RestoreFailsNamelessly(q) ==
  /\ At(q, "rollback")
  /\ req' = [req EXCEPT ![q].todo = @ \ {req[q].cur}, ![q].failed = @ \cup {req[q].cur}, ![q].cur = None]
  /\ UNCHANGED <<proc, sess, home, gate, leaving, marker, op, boot, crashes, torn, late>>

\* createSession throws, at the gate or later
RestoreFails(q) ==
  /\ At(q, "rollback")
  /\ \E x \in req[q].todo :
       /\ req[q].cur = x \/ (req[q].cur = None /\ gate # None)
       /\ req' = [req EXCEPT ![q].todo = @ \ {x}, ![q].failed = @ \cup {x}, ![q].cur = None]
  /\ UNCHANGED <<proc, sess, home, gate, leaving, marker, op, boot, crashes, torn, late>>

\* replaced by this rollback
Back(q) == ToRestore(q) \ (req[q].todo \cup req[q].failed)

\* clearWarmRestartMarker() goes on when the file cannot be removed
ClearMarker(q) ==
  /\ At(q, "rollback")
  /\ req[q].todo = {}
  /\ \/ marker' = None /\ torn' = torn
     \/ marker' = marker /\ torn' = torn \cup Back(q)
  /\ Goto(q, "cleared")
  /\ UNCHANGED <<proc, sess, home, gate, leaving, op, boot, crashes, late>>

\* the failures are reported
Cancelled(q) ==
  /\ At(q, "cleared")
  /\ op' = [status |-> "failed", eligible |-> req[q].eligible, failed |-> req[q].failed]
  /\ Goto(q, "done")
  /\ UNCHANGED <<proc, sess, home, gate, leaving, marker, boot, crashes, torn, late>>

CancelThrows(q) ==
  /\ At(q, "cleared")
  /\ Goto(q, "done")
  /\ UNCHANGED <<proc, sess, home, gate, leaving, marker, op, boot, crashes, torn, late>>

-----------------------------------------------------------------------------
(* The next process                                                        *)

\* whatever the process held in memory is gone, its sessions too
Down ==
  /\ proc' = "down"
  /\ sess' = [x \in Sessions |-> IF x \in Live THEN [sess[x] EXCEPT !.state = "lost"] ELSE sess[x]]
  /\ gate' = None
  /\ req' = [q \in Requests |-> IF req[q].pc = "new" THEN req[q] ELSE [NewRequest EXCEPT !.pc = "done"]]
  /\ leaving' = FALSE
  /\ boot' = NoBoot
  /\ UNCHANGED <<home, marker, op, late>>

\* replaced, and the recovery list does not show it yet
Unlisted ==
  {x \in Sessions : \/ boot.moved = x
                    \/ \E q \in Requests : At(q, "rollback") /\ x \in Back(q)}

\* a rollback may be under way
Exit ==
  /\ proc = "up"
  /\ leaving
  /\ Down
  /\ torn' = torn \cup Unlisted
  /\ UNCHANGED crashes

Crash ==
  /\ proc # "down"
  /\ crashes < MaxCrashes
  /\ Down
  /\ crashes' = crashes + 1
  /\ torn' = torn \cup Unlisted

\* seeded fault: the list is worked through from the start
PendingAgain == IF marker = None THEN {} ELSE marker.ids

Pending == IF marker = None THEN {} ELSE marker.ids \ (marker.recovered \cup marker.closed)

Start ==
  /\ proc = "down"
  /\ proc' = "boot"
  /\ boot' = [NoBoot EXCEPT !.todo = Pending]
  /\ UNCHANGED <<sess, home, gate, req, leaving, marker, op, crashes, torn, late>>

Booting == proc = "boot" /\ boot.moved = None

\* an explicit close outranks the recovery list
BootSkipsClosed ==
  /\ Booting
  /\ \E x \in boot.todo : /\ sess[x].closed
                          /\ marker' = [marker EXCEPT !.closed = @ \cup {x}]
                          /\ boot' = [boot EXCEPT !.todo = @ \ {x}]
  /\ UNCHANGED <<proc, sess, home, gate, req, leaving, op, crashes, torn, late>>

BootRestores ==
  /\ Booting
  /\ \E x \in boot.todo, y \in Spares :
       /\ ~sess[x].closed
       /\ Replace(x, y)
       /\ boot' = [boot EXCEPT !.todo = @ \ {x}, !.moved = x]
  /\ UNCHANGED <<proc, gate, req, leaving, marker, op, crashes, torn, late>>

\* the recovery list is rewritten after every replacement
BootCheckpoints ==
  /\ proc = "boot"
  /\ boot.moved # None
  /\ marker' = [marker EXCEPT !.recovered = @ \cup {boot.moved}]
  /\ boot' = [boot EXCEPT !.moved = None]
  /\ UNCHANGED <<proc, sess, home, gate, req, leaving, op, crashes, torn, late>>

BootFails ==
  /\ Booting
  /\ \E x \in boot.todo : /\ ~sess[x].closed
                          /\ boot' = [boot EXCEPT !.todo = @ \ {x}, !.failed = @ \cup {x}]
  /\ UNCHANGED <<proc, sess, home, gate, req, leaving, marker, op, crashes, torn, late>>

\* seeded fault: no recovery list, no failures
FailuresReported == IF marker = None THEN {} ELSE boot.failed

\* without an outcome every affected session counts as failed
Failures == IF marker = None THEN op.eligible ELSE boot.failed

\* recordControlledRestartRecovery; a finished record stays as it is
BootDone ==
  /\ Booting
  /\ boot.todo = {}
  /\ op' = IF op.status \in {"none", "complete", "partial"} THEN op
           ELSE LET failed == Failures \cap op.eligible
                IN [op EXCEPT !.failed = failed, !.status = IF failed = {} THEN "complete" ELSE "partial"]
  /\ proc' = "up"
  /\ boot' = NoBoot
  /\ UNCHANGED <<sess, home, gate, req, leaving, marker, crashes, torn, late>>

-----------------------------------------------------------------------------
(* Around it                                                               *)

\* queueing is not gated: only execution and new sessions are
WorkArrives ==
  /\ proc = "up"
  /\ \E w \in Work, x \in Live :
       /\ home[w] = None
       /\ home' = [home EXCEPT ![w] = x]
       /\ late' = IF \E q \in Requests : gate = q /\ x \notin req[q].eligible THEN late \cup {w} ELSE late
  /\ UNCHANGED <<proc, sess, gate, req, leaving, marker, op, boot, crashes, torn>>

\* DELETE /api/sessions/:id marks the session before it stops it
Close ==
  /\ proc = "up"
  /\ \E x \in Sessions : /\ sess[x].state \in {"live", "stopped"}
                         /\ ~sess[x].closed
                         /\ sess' = [sess EXCEPT ![x].closed = TRUE, ![x].state = "stopped"]
  /\ UNCHANGED <<proc, home, gate, req, leaving, marker, op, boot, crashes, torn, late>>

RequestStep(q) ==
  \/ PersistOperation(q) \/ PersistFails(q) \/ PhaseBegins(q) \/ PhaseThrows(q)
  \/ Checkpoint(q) \/ CheckpointFails(q) \/ StopSession(q) \/ StopFails(q) \/ StopsDone(q)
  \/ Launched(q) \/ RestartRequested(q) \/ Rejected(q)
  \/ RestoreBegins(q) \/ Restored(q) \/ RestoreFails(q)
  \/ ClearMarker(q) \/ Cancelled(q) \/ CancelThrows(q)

BootStep ==
  Start \/ BootSkipsClosed \/ BootRestores \/ BootCheckpoints \/ BootFails \/ BootDone

Next ==
  \/ \E q \in Requests : Request(q) \/ ClassificationThrows(q) \/ RequestStep(q)
  \/ BootStep
  \/ Exit \/ Crash \/ WorkArrives \/ Close

Spec == Init /\ [][Next]_vars

\* every await of a request and of the startup ends, and a process that is
\* shutting down goes; nobody has to ask for a restart
FairSpec ==
  /\ Spec
  /\ \A q \in Requests : WF_vars(RequestStep(q))
  /\ WF_vars(BootStep)
  /\ WF_vars(Exit)

-----------------------------------------------------------------------------
(* Properties                                                              *)

InHand(x) == \E q \in Requests : At(q, "rollback") /\ x \in req[q].todo

\* A session that a restart stopped and that owns durable work is not forgotten:
\* the recovery list names it, its rollback is still to come, the operation
\* record shows that it could not be recreated or, without a list, is unfinished
\* and will say so at the next startup, or its user closed it.  The exception is
\* work queued during the restart for a session found settled.
\* docs/restart-and-native-resume.md:11 "so the startup recovery list survives
\* the server process exiting" (Checkpoint, rollback, restoreRestartedSessions).
WorkIsKept ==
  \A w \in Work \ late : home[w] # None /\ sess[home[w]].state = "stopped" =>
    \/ sess[home[w]].closed
    \/ home[w] \in Pending
    \/ InHand(home[w])
    \/ home[w] \in op.failed
    \/ marker = None /\ op.status = "open" /\ home[w] \in op.eligible

\* No conversation is recreated twice: a session has at most one replacement,
\* over rolled back requests, shutdowns amid them and repeated startups, and none
\* while it is alive itself.  The exception is what is left between a rebinding
\* and the rewriting or removal of the recovery list, by a process that ends
\* there or a removal that fails (stoppedIds, recoveredSessions).
ReplacedOnce ==
  \A x \in Sessions : LET copies == {y \in Sessions : sess[y].source = x}
                      IN /\ x \notin torn => Cardinality(copies) <= 1
                         /\ copies # {} => sess[x].state # "live"

\* An operation recorded as complete recreated every eligible session or found
\* it closed (recordControlledRestartRecovery after whatever interrupted it).
CompleteIsComplete ==
  op.status = "complete" =>
    \A x \in op.eligible : sess[x].closed \/ \E y \in Sessions : sess[y].source = x

\* The drain gate, which refuses prompts and new sessions, is opened again by
\* every way a request can end (leave() on each path, or the process exits) but
\* for an exception that nothing in requestControlledRestart catches.
GateReopens == \A q \in Requests : gate = q ~> gate # q \/ req[q].pc = "thrown"
=============================================================================

---------------------------- MODULE PromptDispatch ----------------------------
(***************************************************************************)
(* The prompt queue at work: the dispatch engine (server/prompt-dispatch)  *)
(* with its delivery to the agent (server/session-agent-message), the      *)
(* queue routes (server/session-queue-routes), the restart drain gate, the *)
(* fresh-human boundary as far as it touches prompts, and the process      *)
(* dying between any two commits.                                          *)
(*                                                                         *)
(* The server is one JavaScript thread.  A caller's code between two       *)
(* awaits runs undisturbed, but each commit in it is an action of its own  *)
(* so that a crash can fall between them: while such a stretch is          *)
(* unfinished EventLoopFree is false and only its next commit, the agent   *)
(* (another process) or a crash can act.                                   *)
(***************************************************************************)
EXTENDS PromptQueueStore

CONSTANTS Callers,     \* concurrent activations of the two dispatch functions
          Dedicated,   \* sessions whose metadata role is completed-turn
          Direct,      \* sessions with an in-process adapter: no HTTP timeout
          Triggers,    \* fresh-human trigger message ids
          Rebinds,     \* pairs <<source, replacement>> a restart may rebind
          Env,         \* what may befall the server, a subset of EnvEvents
          MaxRevision, \* bound on edits
          MaxCrashes   \* bound on crashes

\* drain: a controlled restart drains.  stop: sessions stop and start.  prune:
\* retention removes history.  torn: a crash may fall between a commit and the
\* reorderQueue the code still owes after it.  consume: someone acknowledges or
\* consumes prompts.  decide: an operator decides about unresolved claims.
EnvEvents == {"drain", "stop", "prune", "torn", "consume", "decide"}

ASSUME DispatchAssumption ==
  /\ Dedicated \subseteq Sessions
  /\ Direct \subseteq Sessions
  /\ Rebinds \subseteq Sessions \X Sessions
  /\ Env \subseteq EnvEvents
  /\ MaxRevision \in Nat /\ MaxCrashes \in Nat
  /\ None \notin Callers \cup Triggers

VARIABLES
  inFlight,   \* queueDispatchInFlight
  call,       \* the state of each activation
  attempt,    \* what became of each claim token outside the process
  request,    \* an acknowledge / consume / reconcile request under way
  owed,       \* the rest of a synchronous stretch outside the dispatcher
  cut,        \* fresh-human snapshots saved by trigger (direct-chat turn store)
  retired,    \* triggers with a session_work_cutoffs row
  draining,   \* restartDrainGate
  live,       \* sessions whose status is running
  crashes

vars == <<row, inFlight, call, attempt, request, owed, cut, retired, draining, live, crashes>>
proc == <<inFlight, call, request, owed, draining>>   \* lost when the process dies

-----------------------------------------------------------------------------
(* probe:    awaiting getSessionPromptReadiness (automatic dispatch only)
   ready:    awaiting ensureSessionReadyForPromptDispatch
   gate:     claimed, about to ask the drain gate; no await since the claim
   adapter:  awaiting the adapter's waitForReady
   sent:     awaiting the answer to the one submission
   complete: acceptance recorded, about to complete the claim; no await since
   sync:     awaiting waitForMessageUpdate                                    *)
Phases == {"idle", "probe", "ready", "gate", "adapter", "sent", "complete", "sync"}

\* none: not minted.  minted: claimed, nothing sent.  wire: sent, not processed.
\* run: the agent took it.  refused: answered 4xx.  dropped: it never arrived.
Fates   == {"none", "minted", "wire", "run", "refused", "dropped"}
Replies == {"none", "ok", "refused", "error"}

Idle       == [pc |-> "idle", session |-> None, item |-> None, token |-> None, reply |-> "none"]
Nothing    == [op |-> "nothing", session |-> None, trigger |-> None]
Unminted   == [item |-> None, fate |-> "none", retried |-> FALSE]
Reorder(s) == [op |-> "reorder", session |-> s, trigger |-> None]
Retire(g)  == [op |-> "retire", session |-> cut[g].session, trigger |-> g]

Call    == [pc : Phases, session : Sessions \cup {None}, item : Prompts \cup {None},
            token : Tokens \cup {None}, reply : Replies]
Attempt == [item : Prompts \cup {None}, fate : Fates, retried : BOOLEAN]
Owed    == {Nothing} \cup {Reorder(s) : s \in Sessions \cup {None}}
           \cup [op : {"retire"}, session : Sessions, trigger : Triggers]
Request == [kind : {"acknowledge", "accepted", "retry"}, stage : {"listed", "posted"},
            session : Sessions, item : Prompts, revision : Nat, token : Tokens \cup {None}]
Cut     == [session : Sessions, rows : SUBSET (Prompts \X Nat)]

ASSUME CutAssumption == None \notin Cut   \* no saved snapshot is NULL

TypeOK ==
  /\ StoreTypeOK
  /\ inFlight \subseteq Sessions
  /\ call \in [Callers -> Call]
  /\ attempt \in [Tokens -> Attempt]
  /\ request \in Request \cup {None}
  /\ owed \in Owed
  /\ cut \in [Triggers -> Cut \cup {None}]
  /\ retired \subseteq Triggers
  /\ draining \in BOOLEAN
  /\ live \subseteq Sessions
  /\ crashes \in Nat

Init ==
  /\ StoreInit
  /\ inFlight = {}
  /\ call = [c \in Callers |-> Idle]
  /\ attempt = [t \in Tokens |-> Unminted]
  /\ request = None
  /\ owed = Nothing
  /\ cut = [g \in Triggers |-> None]
  /\ retired = {}
  /\ draining = FALSE
  /\ live = Sessions
  /\ crashes = 0

EventLoopFree ==
  /\ owed = Nothing
  /\ \A c \in Callers : call[c].pc \notin {"gate", "complete"}

-----------------------------------------------------------------------------
(* The dispatch engine *)

Enter(c, s, pc) ==
  /\ call' = [call EXCEPT ![c] = [Idle EXCEPT !.pc = pc, !.session = s]]
  /\ inFlight' = inFlight \cup {s}

\* Seeded fault: the finally block forgets the in-flight entry.
LeaveKeepingEntry(c) ==
  /\ call' = [call EXCEPT ![c] = Idle]
  /\ inFlight' = inFlight

\* the finally block of both dispatch functions
Leave(c) ==
  /\ call' = [call EXCEPT ![c] = Idle]
  /\ inFlight' = inFlight \ {call[c].session}

Goto(c, pc) ==
  /\ call' = [call EXCEPT ![c].pc = pc]
  /\ inFlight' = inFlight

(* More seeded faults, as in PromptQueueStore *)

\* no look at queueDispatchInFlight
AutoBeginUnchecked(c, s) ==
  /\ EventLoopFree
  /\ call[c] = Idle
  /\ ~draining /\ s \in live /\ s \notin Dedicated /\ QueueCount(s) > 0
  /\ Enter(c, s, "probe")
  /\ UNCHANGED <<row, attempt, request, owed, cut, retired, draining, live, crashes>>

\* "return dispatch()" for "return await dispatch()": finally runs at once
ManualBeginUnawaited(c, s) ==
  /\ EventLoopFree
  /\ call[c] = Idle
  /\ s \notin inFlight /\ s \notin Dedicated
  /\ call' = [call EXCEPT ![c] = [Idle EXCEPT !.pc = "ready", !.session = s]]
  /\ UNCHANGED <<row, inFlight, attempt, request, owed, cut, retired, draining, live, crashes>>

\* a token that may have been used before
ClaimReusingToken(c, p, t) ==
  LET s == call[c].session IN
  /\ EventLoopFree
  /\ call[c].pc = "ready" /\ s \in live
  /\ ClaimNextPrompt(s, p, t)
  /\ attempt' = [attempt EXCEPT ![t].item = p, ![t].fate = "minted"]
  /\ call' = [call EXCEPT ![c].pc = "gate", ![c].item = p, ![c].token = t]
  /\ UNCHANGED <<inFlight, request, owed, cut, retired, draining, live, crashes>>

\* the drain gate throws outside the try block
RefusedAtGateKeepingClaim(c) ==
  /\ owed = Nothing
  /\ call[c].pc = "gate" /\ draining
  /\ Leave(c)
  /\ UNCHANGED <<row, attempt, request, owed, cut, retired, draining, live, crashes>>

\* a timeout taken for "not sent"
UncertainReleasing(c) ==
  /\ EventLoopFree
  /\ call[c].pc = "sent"
  /\ ReleaseRejectedClaim(call[c].session, call[c].item, call[c].token, "unsent")
  /\ Leave(c)
  /\ UNCHANGED <<attempt, request, owed, cut, retired, draining, live, crashes>>

\* a timeout taken for "sent"
UncertainCompleting(c) ==
  /\ EventLoopFree
  /\ call[c].pc = "sent"
  /\ RecordClaimAcceptance(call[c].item)
  /\ Leave(c)
  /\ UNCHANGED <<attempt, request, owed, cut, retired, draining, live, crashes>>

\* no timeout on the HTTP request
UncertainWithoutTimeout(c) ==
  /\ EventLoopFree
  /\ call[c].pc = "sent" /\ call[c].reply = "error"
  /\ Leave(c)
  /\ UNCHANGED <<row, attempt, request, owed, cut, retired, draining, live, crashes>>

\* maybeAutoDispatchQueuedPrompt up to its first await.  The retry cooldown is
\* time, so whether a call gets past it is left open.
AutoBegin(c, s) ==
  /\ EventLoopFree
  /\ call[c] = Idle
  /\ ~draining
  /\ s \notin inFlight
  /\ s \in live /\ s \notin Dedicated
  /\ QueueCount(s) > 0
  /\ Enter(c, s, "probe")
  /\ UNCHANGED <<row, attempt, request, owed, cut, retired, draining, live, crashes>>

\* dispatchNextQueuedPromptForSession up to its first await
ManualBegin(c, s) ==
  /\ EventLoopFree
  /\ call[c] = Idle
  /\ s \notin inFlight
  /\ s \notin Dedicated
  /\ Enter(c, s, "ready")
  /\ UNCHANGED <<row, attempt, request, owed, cut, retired, draining, live, crashes>>

\* readiness.state = "ready": on to dispatchQueuedPromptWithClaim
ProbeReady(c) ==
  /\ EventLoopFree
  /\ call[c].pc = "probe"
  /\ call[c].session \in live
  /\ Goto(c, "ready")
  /\ UNCHANGED <<row, attempt, request, owed, cut, retired, draining, live, crashes>>

\* not ready, or ensureSessionReadyForPromptDispatch timed out
ReadinessFails(c) ==
  /\ EventLoopFree
  /\ call[c].pc \in {"probe", "ready"}
  /\ Leave(c)
  /\ UNCHANGED <<row, attempt, request, owed, cut, retired, draining, live, crashes>>

\* The session is ready and its head is pending: claim it under a fresh token.
Claim(c, p, t) ==
  LET s == call[c].session IN
  /\ EventLoopFree
  /\ call[c].pc = "ready"
  /\ s \in live
  /\ attempt[t].fate = "none"
  /\ ClaimNextPrompt(s, p, t)
  /\ attempt' = [attempt EXCEPT ![t].item = p, ![t].fate = "minted"]
  /\ call' = [call EXCEPT ![c].pc = "gate", ![c].item = p, ![c].token = t]
  /\ UNCHANGED <<inFlight, request, owed, cut, retired, draining, live, crashes>>

\* claimNextPrompt returned null: the queue is empty or its head is claimed.
NothingToClaim(c) ==
  LET s == call[c].session IN
  /\ EventLoopFree
  /\ call[c].pc = "ready"
  /\ s \in live
  /\ ~\E p \in Prompts : IsHead(s, p) /\ row[p].state = "pending"
  /\ Leave(c)
  /\ UNCHANGED <<row, attempt, request, owed, cut, retired, draining, live, crashes>>

\* assertPromptExecutionAllowed throws while draining: the catch block gives the
\* unsent claim back.
PassGate(c) ==
  /\ owed = Nothing
  /\ call[c].pc = "gate"
  /\ ~draining
  /\ Goto(c, "adapter")
  /\ UNCHANGED <<row, attempt, request, owed, cut, retired, draining, live, crashes>>

RefusedAtGate(c) ==
  /\ owed = Nothing
  /\ call[c].pc = "gate"
  /\ draining
  /\ ReleaseRejectedClaim(call[c].session, call[c].item, call[c].token, "unsent")
  /\ Leave(c)
  /\ UNCHANGED <<attempt, request, owed, cut, retired, draining, live, crashes>>

\* waitForReady failed (unsent), or a direct adapter says busy (rejected)
AdapterFails(c) ==
  /\ EventLoopFree
  /\ call[c].pc = "adapter"
  /\ \E certainty \in {"unsent", "rejected"} :
       ReleaseRejectedClaim(call[c].session, call[c].item, call[c].token, certainty)
  /\ Leave(c)
  /\ UNCHANGED <<attempt, request, owed, cut, retired, draining, live, crashes>>

\* onSending, then the one submission
Send(c) ==
  LET s == call[c].session  p == call[c].item  t == call[c].token IN
  /\ EventLoopFree
  /\ call[c].pc = "adapter"
  /\ MayMarkSending(s, p, t)
  /\ MarkClaimSending(p)
  /\ attempt' = [attempt EXCEPT ![t].fate = "wire"]
  /\ call' = [call EXCEPT ![c].pc = "sent", ![c].reply = "none"]
  /\ UNCHANGED <<inFlight, request, owed, cut, retired, draining, live, crashes>>

\* markClaimSending threw, nothing is sent, and onRejected("unsent") releases
SendRefused(c) ==
  LET s == call[c].session  p == call[c].item  t == call[c].token IN
  /\ EventLoopFree
  /\ call[c].pc = "adapter"
  /\ ~MayMarkSending(s, p, t)
  /\ ReleaseRejectedClaim(s, p, t, "unsent")
  /\ Leave(c)
  /\ UNCHANGED <<attempt, request, owed, cut, retired, draining, live, crashes>>

\* The agent accepted: onAccepted's recordClaimAcceptance, which throws when the
\* claim has been taken away meanwhile.
Accepted(c) ==
  LET s == call[c].session  p == call[c].item  t == call[c].token IN
  /\ EventLoopFree
  /\ call[c].pc = "sent" /\ call[c].reply = "ok"
  /\ IF HoldsClaim(s, p, t) THEN RecordClaimAcceptance(p) /\ Goto(c, "complete")
                            ELSE row' = row /\ Leave(c)
  /\ UNCHANGED <<attempt, request, owed, cut, retired, draining, live, crashes>>

\* onAccepted's completeClaim
Complete(c) ==
  LET s == call[c].session  p == call[c].item  t == call[c].token IN
  /\ owed = Nothing
  /\ call[c].pc = "complete"
  /\ IF HoldsClaim(s, p, t)
       THEN CompleteClaim(p) /\ owed' = Reorder(s) /\ Goto(c, "sync")
       ELSE row' = row /\ owed' = owed /\ Leave(c)
  /\ UNCHANGED <<attempt, request, cut, retired, draining, live, crashes>>

\* waitForMessageUpdate returned
Finish(c) ==
  /\ EventLoopFree
  /\ call[c].pc = "sync"
  /\ Leave(c)
  /\ UNCHANGED <<row, attempt, request, owed, cut, retired, draining, live, crashes>>

\* an explicit 4xx other than 408 proves the submission was not accepted
Rejected(c) ==
  /\ EventLoopFree
  /\ call[c].pc = "sent" /\ call[c].reply = "refused"
  /\ ReleaseRejectedClaim(call[c].session, call[c].item, call[c].token, "rejected")
  /\ Leave(c)
  /\ UNCHANGED <<attempt, request, owed, cut, retired, draining, live, crashes>>

\* Timeout, broken connection, 408 or 5xx.  The claim stays as it is.
Uncertain(c) ==
  /\ EventLoopFree
  /\ call[c].pc = "sent"
  /\ call[c].session \in Direct => call[c].reply = "error"
  /\ Leave(c)
  /\ UNCHANGED <<row, attempt, request, owed, cut, retired, draining, live, crashes>>

-----------------------------------------------------------------------------
(* The agent: another process, which may be slow, refuse, or answer badly
   after it has accepted. *)

Answer(t, fate, reply) ==
  /\ attempt[t].fate = "wire"
  /\ attempt' = [attempt EXCEPT ![t].fate = fate]
  /\ call' = [c \in Callers |-> IF call[c].pc = "sent" /\ call[c].token = t
                                  THEN [call[c] EXCEPT !.reply = reply] ELSE call[c]]
  /\ UNCHANGED <<row, inFlight, request, owed, cut, retired, draining, live, crashes>>

AgentAccepts(t) == Answer(t, "run", "ok") \/ Answer(t, "run", "error")
AgentRefuses(t) == Answer(t, "refused", "refused")
AgentFails(t)   == Answer(t, "dropped", "error")

-----------------------------------------------------------------------------
(* The queue routes *)

OwnerAdds(s, p, k) ==
  /\ EventLoopFree
  /\ AddPrompt(s, p, k)
  /\ UNCHANGED <<attempt, cut, retired, live, crashes>> /\ UNCHANGED proc

OwnerEdits(s, p) ==
  /\ EventLoopFree
  /\ row[p].revision < MaxRevision
  /\ UpdatePromptContent(s, p)
  /\ UNCHANGED <<attempt, cut, retired, live, crashes>> /\ UNCHANGED proc

\* a deletion that leaves the gap: the next prompt is numbered by count
OwnerDeletesKeepingGap(s, p) ==
  /\ EventLoopFree
  /\ DeletePromptById(s, p)
  /\ UNCHANGED <<attempt, cut, retired, live, crashes>> /\ UNCHANGED proc

OwnerDeletes(s, p) ==
  /\ EventLoopFree
  /\ DeletePromptById(s, p)
  /\ owed' = Reorder(s)
  /\ UNCHANGED <<inFlight, call, attempt, request, cut, retired, draining, live, crashes>>

\* GET queue: someone reads the queue and decides about one item as it is now.
ListQueue(s, p, kind) ==
  /\ (IF kind = "acknowledge" THEN "consume" ELSE "decide") \in Env
  /\ EventLoopFree
  /\ request = None
  /\ p \in Active(s)
  /\ kind # "acknowledge" => row[p].state = "claimed"
  /\ request' = [kind |-> kind, stage |-> "listed", session |-> s, item |-> p,
                 revision |-> row[p].revision, token |-> row[p].token]
  /\ UNCHANGED <<row, inFlight, call, attempt, owed, cut, retired, draining, live, crashes>>

\* The POST arrives: checks made before the body has been read.
PostRequest ==
  /\ EventLoopFree
  /\ request # None
  /\ request.stage = "listed"
  /\ request' = IF /\ request.session \in live
                   /\ request.kind # "acknowledge" => request.session \notin inFlight
                  THEN [request EXCEPT !.stage = "posted"]
                  ELSE None
  /\ UNCHANGED <<row, inFlight, call, attempt, owed, cut, retired, draining, live, crashes>>

ServeAcknowledge ==
  /\ EventLoopFree
  /\ request # None
  /\ request.stage = "posted" /\ request.kind = "acknowledge"
  /\ AcknowledgePrompt(request.session, request.item, request.revision)
  /\ request' = None
  /\ UNCHANGED <<inFlight, call, attempt, owed, cut, retired, draining, live, crashes>>

\* The in-flight check is repeated after the body has been read.
ServeReconcile ==
  /\ EventLoopFree
  /\ request # None
  /\ request.stage = "posted" /\ request.kind # "acknowledge"
  /\ request.session \notin inFlight
  /\ ReconcileClaim(request.session, request.item, request.revision, request.token, request.kind)
  /\ attempt' = [attempt EXCEPT ![request.token].retried = @ \/ request.kind = "retry"]
  /\ request' = None
  /\ UNCHANGED <<inFlight, call, owed, cut, retired, draining, live, crashes>>

\* a 404 or 409 of either route, or the client giving up
DropRequest ==
  /\ EventLoopFree
  /\ request # None
  /\ request' = None
  /\ UNCHANGED <<row, inFlight, call, attempt, owed, cut, retired, draining, live, crashes>>

-----------------------------------------------------------------------------
(* Fresh-human boundary, retention, dedicated sessions *)

\* prepareFreshHumanSession: save the snapshot, then retire, in one stretch.
CaptureBoundary(g, s) ==
  /\ EventLoopFree
  /\ cut[g] = None
  /\ cut' = [cut EXCEPT ![g] = [session |-> s, rows |-> FreshHumanCutoff(s)]]
  /\ owed' = [op |-> "retire", session |-> s, trigger |-> g]
  /\ UNCHANGED <<row, inFlight, call, attempt, request, retired, draining, live, crashes>>

\* The same trigger again, after a crash or a joining arrival: same snapshot.
RetryBoundary(g) ==
  /\ EventLoopFree
  /\ cut[g] # None
  /\ owed' = Retire(g)
  /\ UNCHANGED <<row, inFlight, call, attempt, request, cut, retired, draining, live, crashes>>

RunRetire ==
  LET g == owed.trigger IN
  /\ owed.op = "retire"
  /\ IF g \in retired THEN row' = row
                      ELSE RetireForFreshHumanTrigger(owed.session, cut[g].rows)
  /\ retired' = retired \cup {g}
  /\ owed' = Reorder(owed.session)
  /\ UNCHANGED <<inFlight, call, attempt, request, cut, draining, live, crashes>>

RunReorder ==
  /\ owed.op = "reorder"
  /\ ReorderQueue(owed.session)
  /\ owed' = Nothing
  /\ UNCHANGED <<inFlight, call, attempt, request, cut, retired, draining, live, crashes>>

DedicatedRecovery(s) ==
  /\ EventLoopFree
  /\ s \in Dedicated
  /\ SupersedeDedicatedPending(s)
  /\ UNCHANGED <<attempt, cut, retired, live, crashes>> /\ UNCHANGED proc

Retention(p) ==
  /\ "prune" \in Env
  /\ EventLoopFree
  /\ PruneHistory(p)
  /\ UNCHANGED <<attempt, cut, retired, live, crashes>> /\ UNCHANGED proc

-----------------------------------------------------------------------------
(* Sessions, restarts and crashes *)

SessionStops(s) ==
  /\ "stop" \in Env
  /\ EventLoopFree
  /\ s \in live
  /\ live' = live \ {s}
  /\ UNCHANGED <<row, attempt, cut, retired, crashes>> /\ UNCHANGED proc

SessionStarts(s) ==
  /\ EventLoopFree
  /\ s \notin live
  /\ live' = live \cup {s}
  /\ UNCHANGED <<row, attempt, cut, retired, crashes>> /\ UNCHANGED proc

\* restartDrainGate.enter and leave
SetDrain ==
  /\ "drain" \in Env
  /\ EventLoopFree
  /\ draining' = ~draining
  /\ UNCHANGED <<row, inFlight, call, attempt, request, owed, cut, retired, live, crashes>>

\* a stopped session's durable work moves to its replacement
Rebind(src, dst) ==
  /\ EventLoopFree
  /\ src \notin live
  /\ RebindSession(src, dst)
  /\ UNCHANGED <<attempt, cut, retired, live, crashes>> /\ UNCHANGED proc

Crash ==
  /\ crashes < MaxCrashes
  /\ owed.op = "reorder" => "torn" \in Env
  /\ crashes' = crashes + 1
  /\ inFlight' = {}
  /\ call' = [c \in Callers |-> Idle]
  /\ request' = None
  /\ owed' = Nothing
  /\ draining' = FALSE
  /\ UNCHANGED <<row, attempt, cut, retired, live>>

-----------------------------------------------------------------------------
CallerStep(c) ==
  \/ ProbeReady(c) \/ ReadinessFails(c)
  \/ \E p \in Prompts, t \in Tokens : Claim(c, p, t)
  \/ NothingToClaim(c)
  \/ PassGate(c) \/ RefusedAtGate(c)
  \/ AdapterFails(c) \/ Send(c) \/ SendRefused(c)
  \/ Accepted(c) \/ Complete(c) \/ Finish(c)
  \/ Rejected(c) \/ Uncertain(c)

AgentStep(t) == AgentAccepts(t) \/ AgentRefuses(t) \/ AgentFails(t)

RouteStep ==
  \/ \E s \in Sessions, p \in Prompts, k \in Keys \cup {None} : OwnerAdds(s, p, k)
  \/ \E s \in Sessions, p \in Prompts : OwnerEdits(s, p) \/ OwnerDeletes(s, p)
  \/ \E s \in Sessions, p \in Prompts, kind \in {"acknowledge", "accepted", "retry"} :
        ListQueue(s, p, kind)
  \/ PostRequest \/ ServeAcknowledge \/ ServeReconcile \/ DropRequest

BoundaryStep ==
  \/ \E g \in Triggers, s \in Sessions : CaptureBoundary(g, s)
  \/ \E g \in Triggers : RetryBoundary(g)
  \/ RunRetire \/ RunReorder

HousekeepingStep ==
  \/ \E s \in Sessions : DedicatedRecovery(s) \/ SessionStops(s) \/ SessionStarts(s)
  \/ \E p \in Prompts : Retention(p)
  \/ SetDrain
  \/ \E pair \in Rebinds : Rebind(pair[1], pair[2])
  \/ Crash

Next ==
  \/ \E c \in Callers, s \in Sessions : AutoBegin(c, s) \/ ManualBegin(c, s)
  \/ \E c \in Callers : CallerStep(c)
  \/ \E t \in Tokens : AgentStep(t)
  \/ RouteStep
  \/ BoundaryStep
  \/ HousekeepingStep

Spec == Init /\ [][Next]_vars

(* Fairness.  Every await of a caller has a timer behind it (readiness 60-120s,
   adapter 8s, HTTP 15s, message sync 20s) and the event loop serves timers and
   continuations in order, so a caller that can go on again and again does.  The
   rest of a synchronous stretch simply runs.  The five-second sweep offers every
   session to maybeAutoDispatchQueuedPrompt for ever. *)
ServerFairness ==
  /\ \A c \in Callers : SF_vars(CallerStep(c))
  /\ WF_vars(RunRetire) /\ WF_vars(RunReorder)
  /\ \A s \in Sessions : SF_vars(\E c \in Callers : AutoBegin(c, s))

\* The environment's part: an agent asked again and again whether it is ready
\* sometimes is.
AgentFairness ==
  \A c \in Callers :
    /\ SF_vars(ProbeReady(c))
    /\ SF_vars(NothingToClaim(c) \/ \E p \in Prompts, t \in Tokens : Claim(c, p, t))
    /\ SF_vars(Send(c) \/ SendRefused(c))

FairSpec == Spec /\ ServerFairness /\ AgentFairness

-----------------------------------------------------------------------------
(* Safety *)

Busy(c) == call[c].pc # "idle"

\* A submission that reached the agent or still may.
MayHaveRun(t) == attempt[t].fate \in {"wire", "run"}

\* At most one dispatch activation works on a session, whichever of the two
\* entry points it came through, and the session is then marked in flight
\* (the has/add pairs around queueDispatchInFlight).
OneAttemptPerSession ==
  \A c \in Callers : Busy(c) =>
    /\ call[c].session \in inFlight
    /\ \A d \in Callers \ {c} : Busy(d) => call[d].session # call[c].session

\* Of any two submissions of one prompt that the agent ran or may still run, at
\* least one was given up by an explicit "retry" decision: timeouts, lost
\* answers, server errors, drains, restarts, rebinds and fresh-human boundaries
\* never resubmit on their own.
NoUndecidedReplay ==
  \A t, u \in Tokens :
    (t # u /\ MayHaveRun(t) /\ MayHaveRun(u) /\ attempt[t].item = attempt[u].item)
      => attempt[t].retried \/ attempt[u].retried

\* A prompt the queue shows as dispatched, or a claim with an accepted receipt,
\* was accepted by the agent under that very claim token.
DispatchedMeansAccepted ==
  \A p \in Prompts :
    (row[p].state = "dispatched" \/ (row[p].state = "claimed" /\ row[p].delivery = "accepted"))
      => \E t \in Tokens : row[p].token = t /\ attempt[t].item = p /\ attempt[t].fate = "run"

\* The table never takes a submission that may have run for unsent, even if the
\* process dies right after sending: until someone decides "retry", its prompt
\* is neither pending nor claimed with delivery state unsent.
SentIsRecordedFirst ==
  \A t \in Tokens :
    (MayHaveRun(t) /\ ~attempt[t].retried) =>
      LET r == row[attempt[t].item] IN
        r.state # "pending" /\ ~(r.state = "claimed" /\ r.delivery = "unsent")

\* An unresolved claim is the head of its session's queue and the only claim in
\* it, so nothing overtakes it.
UnresolvedClaimBlocksQueue ==
  \A s \in Sessions : \A p \in Active(s) :
    row[p].state = "claimed" => \A q \in Active(s) \ {p} : row[q].state = "pending" /\ Before(p, q)

\* Queue positions follow arrival, through edits, deletions, acknowledgements,
\* boundaries and explicit retries: a prompt inserted beside what a removal left
\* (addPrompt numbers it by count) is placed behind it.
QueueOrderIsArrivalOrder ==
  \A s \in Sessions : \A p, q \in Active(s) :
    row[p].rowid < row[q].rowid => row[p].order < row[q].order

\* While the process lives, a claim on which nothing was sent belongs to an
\* activation that will still send or release it: no error path forgets it.
UnsentClaimIsHeld ==
  \A p \in Prompts :
    (row[p].state = "claimed" /\ row[p].delivery = "unsent") =>
      \E c \in Callers : call[c].pc \in {"gate", "adapter"} /\ call[c].item = p
                                                       /\ call[c].token = row[p].token

\* No two active prompts of a session share a dedupe key, also after a claim
\* was released or retried.
OneActivePerKey ==
  \A s \in Sessions : \A p, q \in Active(s) :
    (p # q /\ row[p].key # None) => row[p].key # row[q].key

-----------------------------------------------------------------------------
(* The inductive strengthening behind NoUndecidedReplay: what the claim tokens,
   the rows and the activations know of one another. *)

\* A token belongs to a prompt from the moment it is minted.
LedgerOK ==
  \A t \in Tokens :
    /\ attempt[t].fate = "none" => attempt[t].item = None
    /\ attempt[t].fate # "none" => attempt[t].item \in Prompts

\* A claimed row names a token of its own, unsent means just minted, accepted and
\* dispatched mean run; a submission that may have run and was not given up keeps
\* its prompt out of pending, and out of every claim but its own.
RowsOK ==
  /\ \A p \in Prompts :
       row[p].state = "claimed" =>
         /\ row[p].token \in Tokens
         /\ attempt[row[p].token].item = p
         /\ row[p].delivery = "unsent" => attempt[row[p].token].fate = "minted"
         /\ row[p].delivery = "accepted" => attempt[row[p].token].fate = "run"
  /\ \A p \in Prompts :
       row[p].state = "dispatched" =>
         /\ row[p].token \in Tokens
         /\ attempt[row[p].token].item = p
         /\ attempt[row[p].token].fate = "run"
  /\ \A t \in Tokens :
       (MayHaveRun(t) /\ ~attempt[t].retried) =>
         /\ row[attempt[t].item].state \notin {"pending", "absent"}
         /\ row[attempt[t].item].state = "claimed" => row[attempt[t].item].token = t

\* What an activation past its claim may conclude from where it is.
PastClaim == {"gate", "adapter", "sent", "complete", "sync"}
CallsOK ==
  /\ \A c \in Callers : call[c].pc \in PastClaim =>
       /\ call[c].item \in Prompts
       /\ call[c].token \in Tokens
       /\ attempt[call[c].token].item = call[c].item
       /\ call[c].pc \in {"gate", "adapter"} => attempt[call[c].token].fate = "minted"
       /\ call[c].pc = "sent" =>
            /\ call[c].reply = "ok" => attempt[call[c].token].fate = "run"
            /\ call[c].reply = "refused" => attempt[call[c].token].fate = "refused"
       /\ call[c].pc = "complete" => attempt[call[c].token].fate = "run"
  /\ \A c, d \in Callers :
       (c # d /\ call[c].pc \in PastClaim /\ call[d].pc \in PastClaim)
         => call[c].token # call[d].token

DeliveryInv == TypeOK /\ LedgerOK /\ RowsOK /\ CallsOK /\ NoUndecidedReplay

-----------------------------------------------------------------------------
(* What a step may never do *)

\* A prompt that left the queue as dispatched, handled or superseded never comes
\* back: late answers and releases find the claim gone.
TerminalIsFinal ==
  [][\A p \in Prompts : row[p].state \in TerminalStates =>
       row'[p].state \in {row[p].state, "deleted"}]_vars

\* An operator's decision never meets an attempt of this process that still
\* works on the same claim: its outcome is awaited first.
DecisionAwaitsAttempt ==
  [][\A p \in Prompts :
       (row[p].state = "claimed" /\ row'[p].state \in {"handled", "pending"}
          /\ row'[p].revision # row[p].revision)
         => \A c \in Callers : Busy(c) => call[c].token # row[p].token]_vars

\* A fresh-human boundary retires only prompts that were in the queue, with
\* that very text, when its trigger was first seen, and only once per trigger:
\* later arrivals and edits survive crashes and retries of the trigger.
BoundaryRetiresOnlyCaptured ==
  [][/\ \A g \in Triggers : cut[g] # None => cut'[g] = cut[g]
     /\ \A p \in Prompts :
          (row[p].state \in ActiveStates /\ row'[p].state = "superseded"
             /\ row[p].session \notin Dedicated)
            => \E g \in Triggers \ retired :
                 cut[g] # None /\ <<p, row[p].revision>> \in cut[g].rows]_vars

\* Consuming an instruction consumes the text that was read: an edit made after
\* the read is never lost.
ConsumesOnlyWhatWasRead ==
  [][\A p \in Prompts :
       (row[p].state = "pending" /\ row'[p].state = "handled")
         => /\ request # None
            /\ request.item = p
            /\ request.revision = row[p].revision]_vars

-----------------------------------------------------------------------------
(* Liveness, under FairSpec *)

\* Every activation ends and gives its session free again: queueDispatchInFlight
\* never leaks an entry, whatever the agent does.  (Not for a Direct session: an
\* in-process adapter that never settles holds its entry.)
AttemptEnds == \A c \in Callers : Busy(c) ~> ~Busy(c)

\* A pending prompt of a running session is claimed, or leaves the queue, unless
\* an unresolved claim blocks the queue or the bounded supply of tokens ran out.
PendingIsOffered ==
  \A p \in Prompts :
    row[p].state = "pending" ~>
      \/ row[p].state # "pending"
      \/ \E q \in Prompts : row[q].state = "claimed" /\ row[q].delivery \in {"uncertain", "accepted"}
      \/ \A t \in Tokens : attempt[t].fate # "none"
=============================================================================

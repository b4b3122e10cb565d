----------------------------- MODULE DispatchInbox -----------------------------
(***************************************************************************)
(* The callback inbox of a supervising session: the dispatches it gave to  *)
(* workers (session-dispatch/session-dispatch-store, -service), the wake   *)
(* record that says whether the supervisor has been told of the unresolved *)
(* ones (session-dispatch-inbox), and the dispatch engine's activation     *)
(* that sends such a wake (dispatchInboxWake in server/prompt-dispatch).   *)
(*                                                                         *)
(* A terminal fingerprint is fixed once a dispatch was captured, so the    *)
(* inbox fingerprint, a hash over the unresolved dispatches, is the set of *)
(* them, and the empty set stands for null.  Only supervised dispatches    *)
(* are modelled; one without a callback session is closed when captured.   *)
(*                                                                         *)
(* Commits and awaits are treated as in PromptDispatch: a stretch without  *)
(* an await is cut where a crash can fall between two commits.             *)
(***************************************************************************)
EXTENDS Naturals, FiniteSets

CONSTANTS Sessions,    \* supervising sessions
          Dispatches,  \* dispatch ids
          Callers,     \* concurrent activations of the dispatch engine
          Triggers,    \* fresh-human trigger message ids
          Rebinds,     \* pairs <<source, replacement>> a restart may rebind
          MaxAttempts, \* DISPATCH_INBOX_WAKE_MAX_ATTEMPTS, 3 in the code
          Env,         \* what may happen besides, a subset of EnvEvents
          MaxSends,    \* bound on wake prompts submitted
          MaxCrashes,  \* bound on crashes
          None

\* retry: the supervisor asks for a callback again.  missed: a wake's turn is over
\* before message sync has seen it.  human: direct-chat turns run in the session.
EnvEvents == {"retry", "missed", "human"}

ASSUME InboxAssumption ==
  /\ IsFiniteSet(Dispatches) /\ IsFiniteSet(Triggers)
  /\ Rebinds \subseteq Sessions \X Sessions
  /\ MaxAttempts \in Nat \ {0} /\ MaxSends \in Nat /\ MaxCrashes \in Nat
  /\ Env \subseteq EnvEvents
  /\ None \notin Sessions \cup (1 .. MaxSends) \cup Triggers

VARIABLES
  dispatch,  \* session_dispatches: state and callback session
  wake,      \* session_dispatch_callback_wakes, one record or None per session
  call,      \* the state of each activation
  sent,      \* what became of each submitted wake outside the process
  owed,      \* the rest of a synchronous stretch outside the engine
  cut,       \* fresh-human snapshots saved by trigger
  retired,   \* triggers with a session_work_cutoffs row
  turn,      \* sessions whose agent is running a turn
  unpublished, \* sessions with an unpublished direct-chat turn
  crashes

vars == <<dispatch, wake, call, sent, owed, cut, retired, turn, unpublished, crashes>>
boundary == <<cut, retired>>
agent    == <<turn, unpublished>>

-----------------------------------------------------------------------------
\* the submissions of wake prompts, numbered
Wakes == 1 .. MaxSends

DispatchStates == {"absent", "running", "failed", "callback_pending", "acknowledged",
                   "closed", "superseded"}
WakeStates == {"pending", "claimed", "submitted", "blocked", "resolved"}

\* probe: awaiting getSessionPromptReadiness.  ready: claimed, awaiting
\* ensureSessionReadyForPromptDispatch.  adapter: awaiting the adapter's
\* waitForReady.  sent: awaiting the answer.  released: the rejected delivery was
\* released and is about to be counted; no await since.  sync: awaiting
\* waitForMessageUpdate.
Phases  == {"idle", "probe", "ready", "adapter", "sent", "released", "sync"}
Fates   == {"none", "wire", "run", "refused", "dropped"}
Replies == {"none", "ok", "refused", "error"}

NoClaim == [fp |-> {}, attempt |-> 0, generation |-> 0]
Idle    == [pc |-> "idle", session |-> None, claim |-> NoClaim, sub |-> None, reply |-> "none"]
Unsent  == [session |-> None, fate |-> "none", answered |-> FALSE, current |-> FALSE]
Nothing == [op |-> "nothing", of |-> None]

Attempts == 0 .. MaxAttempts

Claim == [fp : SUBSET Dispatches, attempt : Attempts, generation : Nat]
Wake  == [fp : SUBSET Dispatches, state : WakeStates, attempt : Attempts, busy : BOOLEAN,
          lease : {"none", "running", "over"}, delayed : BOOLEAN, sub : Wakes \cup {None}]

ASSUME WakeAssumption == None \notin Wake

TypeOK ==
  /\ dispatch \in [Dispatches -> [state : DispatchStates, session : Sessions \cup {None}]]
  /\ wake \in [Sessions -> Wake \cup {None}]
  /\ call \in [Callers -> [pc : Phases, session : Sessions \cup {None}, claim : Claim,
                           sub : Wakes \cup {None}, reply : Replies]]
  /\ sent \in [Wakes -> [session : Sessions \cup {None}, fate : Fates,
                         answered : BOOLEAN, current : BOOLEAN]]
  /\ owed \in {Nothing} \cup [op : {"reconcile"}, of : Sessions] \cup [op : {"retire"}, of : Triggers]
  /\ cut \in [Triggers -> {None} \cup [session : Sessions, callbacks : SUBSET Dispatches,
                                       fp : SUBSET Dispatches, attempt : Attempts]]
  /\ retired \subseteq Triggers
  /\ turn \subseteq Sessions
  /\ unpublished \subseteq Sessions
  /\ crashes \in Nat

Init ==
  /\ dispatch = [d \in Dispatches |-> [state |-> "absent", session |-> None]]
  /\ wake = [s \in Sessions |-> None]
  /\ call = [c \in Callers |-> Idle]
  /\ sent = [w \in Wakes |-> Unsent]
  /\ owed = Nothing
  /\ cut = [g \in Triggers |-> None]
  /\ retired = {}
  /\ turn = {}
  /\ unpublished = {}
  /\ crashes = 0

EventLoopFree ==
  /\ owed = Nothing
  /\ \A c \in Callers : call[c].pc # "released"

\* listUnresolvedCallbacks, and so getInboxFingerprint
Unresolved(s) == {d \in Dispatches : dispatch[d].session = s /\ dispatch[d].state = "callback_pending"}

\* generation: retirements are numbered per session
Generation(s) == Cardinality({g \in retired : cut[g].session = s})

InFlight == {call[c].session : c \in {x \in Callers : call[x].pc # "idle"}}

\* Bookkeeping: the wakes sent so far were about another inbox.
Outdated(sessions) ==
  sent' = [w \in Wakes |-> IF sent[w].session \in sessions THEN [sent[w] EXCEPT !.current = FALSE]
                                                           ELSE sent[w]]

-----------------------------------------------------------------------------
(* What the coordinator writes: operators from a wake record to a wake record *)

Released(w) == [w EXCEPT !.busy = FALSE, !.lease = "none", !.delayed = FALSE]

\* Seeded fault: one attempt too many
FailedAttemptOffByOne(w) ==
  IF w.attempt > MaxAttempts
    THEN [w EXCEPT !.state = "blocked", !.lease = "none", !.delayed = FALSE]
    ELSE [Released(w) EXCEPT !.state = "pending", !.delayed = TRUE]

\* recordFailedAttempt
FailedAttempt(w) ==
  IF w.attempt >= MaxAttempts
    THEN [w EXCEPT !.state = "blocked", !.lease = "none", !.delayed = FALSE]
    ELSE [Released(w) EXCEPT !.state = "pending", !.delayed = TRUE]

\* Seeded fault: no limit on an unchanged inbox
CompletedTurnUnlimited(w, fp) ==
  IF w.fp # fp THEN [Released(w) EXCEPT !.fp = fp, !.state = "pending", !.attempt = 0]
               ELSE [Released(w) EXCEPT !.state = "pending", !.delayed = TRUE]

\* completeSubmittedTurn
CompletedTurn(w, fp) ==
  IF w.fp # fp THEN [Released(w) EXCEPT !.fp = fp, !.state = "pending", !.attempt = 0]
  ELSE FailedAttempt(w)

\* claimForStableSession before it claims
Settled(w, fp) ==
  CASE w = None -> None
    [] w # None /\ w.state = "claimed" /\ w.lease = "over" -> FailedAttempt(w)
    [] w # None /\ w.state = "submitted" /\ (w.busy \/ w.lease = "over") -> CompletedTurn(w, fp)
    [] OTHER -> w

\* Seeded fault: a settled record is not looked at again
ClaimableOnlyPending(w, fp) == w = None \/ (w # None /\ w.state = "pending" /\ ~w.delayed)

\* the remaining early returns of claimForStableSession and claimWake
Claimable(w, fp) ==
  \/ w = None
  \/ /\ w # None
     /\ w.state \notin {"claimed", "submitted"}
     /\ ~w.delayed
     /\ w.fp = fp => w.state = "pending"

\* claimWake; another fingerprint starts counting again
Claimed(w, fp) ==
  [fp |-> fp, state |-> "claimed", busy |-> FALSE, lease |-> "running", delayed |-> FALSE, sub |-> None,
   attempt |-> IF w = None \/ w.fp # fp THEN 1 ELSE w.attempt + 1]

\* reconcileHandledCallbacks
Reconciled(w, fp) ==
  IF w = None \/ w.fp = fp THEN w
  ELSE [Released(w) EXCEPT !.fp = IF fp = {} THEN @ ELSE fp,
                           !.state = IF fp = {} THEN "resolved" ELSE "pending",
                           !.attempt = 0]

\* Does the record still stand for this claim?
Matches(w, claim) == w # None /\ w.fp = claim.fp /\ w.attempt = claim.attempt

\* Seeded fault: only before the submission is on record
BusyNotedEarly(w) == IF w # None /\ w.state = "claimed" THEN [w EXCEPT !.busy = TRUE] ELSE w

\* noteSessionBusy
BusyNoted(w) == IF w # None /\ w.state = "submitted" THEN [w EXCEPT !.busy = TRUE] ELSE w

\* markSubmissionFailed, after its generation check
SubmissionFailed(w, claim) ==
  IF Matches(w, claim) /\ w.state = "claimed" THEN FailedAttempt(w) ELSE w

\* validateClaim's verdict and what it leaves behind
Current(claim, s) == claim.generation = Generation(s)

\* Seeded fault: the claim is compared with the record only
ValidIgnoringInbox(claim, s) ==
  Current(claim, s) /\ Matches(wake[s], claim) /\ wake[s].state = "claimed"

Checked(claim, s) == IF Current(claim, s) THEN Reconciled(wake[s], Unresolved(s)) ELSE wake[s]
Valid(claim, s) ==
  LET w == Checked(claim, s)
  IN  Current(claim, s) /\ Matches(w, claim) /\ w.state = "claimed" /\ w.lease # "over"

SetWake(s, w) == wake' = [wake EXCEPT ![s] = w]

-----------------------------------------------------------------------------
(* Dispatches and their callbacks *)

\* create: the record, and its state "failed" when the prompt cannot be queued
CreateDispatch(d, s) ==
  /\ EventLoopFree
  /\ dispatch[d].state = "absent"
  /\ \E state \in {"running", "failed"} :
       dispatch' = [dispatch EXCEPT ![d] = [state |-> state, session |-> s]]
  /\ UNCHANGED <<wake, call, sent, owed, crashes>> /\ UNCHANGED boundary /\ UNCHANGED agent

\* capture: the worker finished, failed or stopped
CaptureTerminal(d) ==
  /\ EventLoopFree
  /\ dispatch[d].state = "running"
  /\ dispatch' = [dispatch EXCEPT ![d].state = "callback_pending"]
  /\ Outdated({dispatch[d].session})
  /\ UNCHANGED <<wake, call, owed, crashes>> /\ UNCHANGED boundary /\ UNCHANGED agent

Reconcile(s) == [op |-> "reconcile", of |-> s]

\* acknowledge and close; both go on to reconcileHandledCallbacks
Acknowledge(d) ==
  /\ EventLoopFree
  /\ dispatch[d].state \in {"callback_pending", "acknowledged"}
  /\ dispatch' = [dispatch EXCEPT ![d].state = "acknowledged"]
  /\ Outdated(IF dispatch[d].state = "callback_pending" THEN {dispatch[d].session} ELSE {})
  /\ owed' = Reconcile(dispatch[d].session)
  /\ UNCHANGED <<wake, call, crashes>> /\ UNCHANGED boundary /\ UNCHANGED agent

Close(d) ==
  /\ EventLoopFree
  /\ dispatch[d].state \in {"acknowledged", "closed"}
  /\ dispatch' = [dispatch EXCEPT ![d].state = "closed"]
  /\ owed' = Reconcile(dispatch[d].session)
  /\ UNCHANGED <<wake, call, sent, crashes>> /\ UNCHANGED boundary /\ UNCHANGED agent

\* retryCallback: any dispatch that was captured once becomes unresolved again
RetryCallback(d) ==
  /\ "retry" \in Env
  /\ EventLoopFree
  /\ dispatch[d].state \notin {"absent", "running", "failed"}
  /\ dispatch' = [dispatch EXCEPT ![d].state = "callback_pending"]
  /\ Outdated(IF dispatch[d].state # "callback_pending" THEN {dispatch[d].session} ELSE {})
  /\ UNCHANGED <<wake, call, owed, crashes>> /\ UNCHANGED boundary /\ UNCHANGED agent

RunReconcile ==
  /\ owed.op = "reconcile"
  /\ SetWake(owed.of, Reconciled(wake[owed.of], Unresolved(owed.of)))
  /\ owed' = Nothing
  /\ UNCHANGED <<dispatch, call, sent, crashes>> /\ UNCHANGED boundary /\ UNCHANGED agent

-----------------------------------------------------------------------------
(* The activation that sends a wake.  It is entered with an empty prompt queue;
   activations for queued prompts are those of PromptDispatch.  Session stops,
   cooldowns and drains keep a session from being offered, which is always
   possible here; a drain found later is one of DeliveryFails's errors. *)

Enter(c, s)  == call' = [call EXCEPT ![c] = [Idle EXCEPT !.pc = "probe", !.session = s]]
Leave(c)     == call' = [call EXCEPT ![c] = Idle]
Goto(c, pc)  == call' = [call EXCEPT ![c].pc = pc]

AutoBegin(c, s) ==
  /\ EventLoopFree
  /\ call[c] = Idle
  /\ s \notin InFlight
  /\ Unresolved(s) # {}
  /\ s \notin unpublished
  /\ Enter(c, s)
  /\ UNCHANGED <<dispatch, wake, sent, owed, crashes>> /\ UNCHANGED boundary /\ UNCHANGED agent

\* The sweep finds the session in flight and its agent at work.
SeenBusy(s) ==
  /\ EventLoopFree
  /\ s \in InFlight /\ s \in turn
  /\ SetWake(s, BusyNoted(wake[s]))
  /\ UNCHANGED <<dispatch, call, sent, owed, crashes>> /\ UNCHANGED boundary /\ UNCHANGED agent

\* readiness "busy", or "ready" with a cached runtime status other than stable
ProbeBusy(c) ==
  /\ EventLoopFree
  /\ call[c].pc = "probe"
  /\ SetWake(call[c].session, BusyNoted(wake[call[c].session]))
  /\ Leave(c)
  /\ UNCHANGED <<dispatch, sent, owed, crashes>> /\ UNCHANGED boundary /\ UNCHANGED agent

\* readiness "starting" or "unreachable"
ProbeFails(c) ==
  /\ EventLoopFree
  /\ call[c].pc = "probe"
  /\ Leave(c)
  /\ UNCHANGED <<dispatch, wake, sent, owed, crashes>> /\ UNCHANGED boundary /\ UNCHANGED agent

\* The session is stable and all callbacks were handled meanwhile.
ClaimResolves(c) ==
  LET s == call[c].session  w == wake[s] IN
  /\ EventLoopFree
  /\ call[c].pc = "probe" /\ s \notin turn
  /\ Unresolved(s) = {}
  /\ SetWake(s, IF w = None THEN None ELSE [Released(w) EXCEPT !.state = "resolved"])
  /\ Leave(c)
  /\ UNCHANGED <<dispatch, sent, owed, crashes>> /\ UNCHANGED boundary /\ UNCHANGED agent

\* claimForStableSession: settle what the last wake left, then claim.  Settling
\* again gives the same, so a crash between the two commits needs no state of its own.
ClaimWake(c) ==
  LET s == call[c].session  fp == Unresolved(s)  w == Settled(wake[s], fp) IN
  /\ EventLoopFree
  /\ call[c].pc = "probe" /\ s \notin turn
  /\ fp # {} /\ Claimable(w, fp)
  /\ SetWake(s, Claimed(w, fp))
  /\ call' = [call EXCEPT ![c].pc = "ready",
                          ![c].claim = [fp |-> fp, attempt |-> Claimed(w, fp).attempt,
                                        generation |-> Generation(s)]]
  /\ UNCHANGED <<dispatch, sent, owed, crashes>> /\ UNCHANGED boundary /\ UNCHANGED agent

ClaimRefused(c) ==
  LET s == call[c].session  fp == Unresolved(s)  w == Settled(wake[s], fp) IN
  /\ EventLoopFree
  /\ call[c].pc = "probe" /\ s \notin turn
  /\ fp # {} /\ ~Claimable(w, fp)
  /\ SetWake(s, w)
  /\ Leave(c)
  /\ UNCHANGED <<dispatch, sent, owed, crashes>> /\ UNCHANGED boundary /\ UNCHANGED agent

\* The session is ready: look at the claim again, and return if it is obsolete.
Ready(c) ==
  LET s == call[c].session IN
  /\ EventLoopFree
  /\ call[c].pc = "ready" /\ s \notin turn
  /\ SetWake(s, Checked(call[c].claim, s))
  /\ IF Valid(call[c].claim, s) THEN Goto(c, "adapter") ELSE Leave(c)
  /\ UNCHANGED <<dispatch, sent, owed, crashes>> /\ UNCHANGED boundary /\ UNCHANGED agent

Fail(c, w) ==
  SetWake(call[c].session, IF Current(call[c].claim, call[c].session)
                             THEN SubmissionFailed(w, call[c].claim) ELSE w)

\* readiness timed out, the drain gate threw, the adapter failed or is busy
DeliveryFails(c) ==
  /\ EventLoopFree
  /\ call[c].pc \in {"ready", "adapter"}
  /\ Fail(c, wake[call[c].session])
  /\ Leave(c)
  /\ UNCHANGED <<dispatch, sent, owed, crashes>> /\ UNCHANGED boundary /\ UNCHANGED agent

Submit(c, n) ==
  /\ sent' = [sent EXCEPT ![n] = [session |-> call[c].session, fate |-> "wire",
                                  answered |-> FALSE, current |-> TRUE]]
  /\ call' = [call EXCEPT ![c].pc = "sent", ![c].sub = n]

NextWake == 1 + Cardinality({n \in Wakes : sent[n].fate # "none"})

\* Seeded fault: no boundary before the submission
SendUnmarked(c) ==
  LET s == call[c].session  w == Checked(call[c].claim, s) IN
  /\ EventLoopFree
  /\ call[c].pc = "adapter"
  /\ NextWake \in Wakes
  /\ Valid(call[c].claim, s)
  /\ SetWake(s, [w EXCEPT !.sub = NextWake])
  /\ Submit(c, NextWake)
  /\ UNCHANGED <<dispatch, owed, crashes>> /\ UNCHANGED boundary /\ UNCHANGED agent

\* beforeSend, markDeliveryUncertain, and the submission
Send(c) ==
  LET s == call[c].session  w == Checked(call[c].claim, s) IN
  /\ EventLoopFree
  /\ call[c].pc = "adapter"
  /\ NextWake \in Wakes
  /\ Valid(call[c].claim, s)
  /\ SetWake(s, [w EXCEPT !.state = "blocked", !.lease = "none", !.delayed = FALSE, !.sub = NextWake])
  /\ Submit(c, NextWake)
  /\ UNCHANGED <<dispatch, owed, crashes>> /\ UNCHANGED boundary /\ UNCHANGED agent

\* the claim is obsolete: nothing is sent
SendRefused(c) ==
  LET s == call[c].session IN
  /\ EventLoopFree
  /\ call[c].pc = "adapter"
  /\ ~Valid(call[c].claim, s)
  /\ Fail(c, Checked(call[c].claim, s))
  /\ Leave(c)
  /\ UNCHANGED <<dispatch, sent, owed, crashes>> /\ UNCHANGED boundary /\ UNCHANGED agent

Answered(c) == sent' = [sent EXCEPT ![call[c].sub].answered = TRUE]

\* markSubmitted
Accepted(c) ==
  LET s == call[c].session  w == wake[s] IN
  /\ EventLoopFree
  /\ call[c].pc = "sent" /\ call[c].reply = "ok"
  /\ SetWake(s, IF Current(call[c].claim, s) /\ Matches(w, call[c].claim)
                   /\ w.state \in {"claimed", "blocked"}
                  THEN [w EXCEPT !.state = "submitted"] ELSE w)
  /\ Answered(c)
  /\ Goto(c, "sync")
  /\ UNCHANGED <<dispatch, owed, crashes>> /\ UNCHANGED boundary /\ UNCHANGED agent

\* waitForMessageUpdate saw the turn, or gave up
Finish(c) ==
  /\ EventLoopFree
  /\ call[c].pc = "sync"
  /\ \/ SetWake(call[c].session, BusyNoted(wake[call[c].session]))
     \/ "missed" \in Env /\ wake' = wake
  /\ Leave(c)
  /\ UNCHANGED <<dispatch, sent, owed, crashes>> /\ UNCHANGED boundary /\ UNCHANGED agent

\* releaseRejectedDelivery; markSubmissionFailed follows in the catch block
Rejected(c) ==
  LET s == call[c].session  w == wake[s] IN
  /\ EventLoopFree
  /\ call[c].pc = "sent" /\ call[c].reply = "refused"
  /\ SetWake(s, IF Current(call[c].claim, s) /\ Matches(w, call[c].claim) /\ w.state = "blocked"
                  THEN [w EXCEPT !.state = "claimed"] ELSE w)
  /\ Answered(c)
  /\ Goto(c, "released")
  /\ UNCHANGED <<dispatch, owed, crashes>> /\ UNCHANGED boundary /\ UNCHANGED agent

RejectedCounts(c) ==
  /\ owed = Nothing
  /\ call[c].pc = "released"
  /\ Fail(c, wake[call[c].session])
  /\ Leave(c)
  /\ UNCHANGED <<dispatch, sent, owed, crashes>> /\ UNCHANGED boundary /\ UNCHANGED agent

\* Seeded fault: an answer that never came is taken for acceptance
UncertainSubmitting(c) ==
  LET s == call[c].session IN
  /\ EventLoopFree
  /\ call[c].pc = "sent"
  /\ SetWake(s, IF wake[s] # None /\ Matches(wake[s], call[c].claim)
                  THEN [wake[s] EXCEPT !.state = "submitted"] ELSE wake[s])
  /\ Leave(c)
  /\ UNCHANGED <<dispatch, sent, owed, crashes>> /\ UNCHANGED boundary /\ UNCHANGED agent

\* Timeout, broken connection, 408 or 5xx: markSubmissionFailed finds it blocked.
Uncertain(c) ==
  /\ EventLoopFree
  /\ call[c].pc = "sent"
  /\ Fail(c, wake[call[c].session])
  /\ Leave(c)
  /\ UNCHANGED <<dispatch, sent, owed, crashes>> /\ UNCHANGED boundary /\ UNCHANGED agent

-----------------------------------------------------------------------------
(* Time, and the agent with the other turns it runs *)

LeaseExpires(s) ==
  /\ EventLoopFree
  /\ wake[s] # None /\ wake[s].lease = "running"
  /\ SetWake(s, [wake[s] EXCEPT !.lease = "over"])
  /\ UNCHANGED <<dispatch, call, sent, owed, crashes>> /\ UNCHANGED boundary /\ UNCHANGED agent

DelayElapses(s) ==
  /\ EventLoopFree
  /\ wake[s] # None /\ wake[s].delayed
  /\ SetWake(s, [wake[s] EXCEPT !.delayed = FALSE])
  /\ UNCHANGED <<dispatch, call, sent, owed, crashes>> /\ UNCHANGED boundary /\ UNCHANGED agent

AgentAnswers(n) ==
  /\ sent[n].fate = "wire"
  /\ \E fate \in {"run", "refused", "dropped"}, reply \in {"ok", "refused", "error"} :
       /\ fate = "refused" <=> reply = "refused"
       /\ fate = "dropped" => reply = "error"
       /\ sent' = [sent EXCEPT ![n].fate = fate]
       /\ call' = [c \in Callers |-> IF call[c].pc = "sent" /\ call[c].sub = n
                                       THEN [call[c] EXCEPT !.reply = reply] ELSE call[c]]
       /\ turn' = IF fate = "run" THEN turn \cup {sent[n].session} ELSE turn
  /\ UNCHANGED <<dispatch, wake, owed, unpublished, crashes>> /\ UNCHANGED boundary

TurnEnds(s) ==
  /\ s \in turn
  /\ turn' = turn \ {s}
  /\ UNCHANGED <<dispatch, wake, call, sent, owed, unpublished, crashes>> /\ UNCHANGED boundary

\* A direct-chat turn is recorded, runs without passing the queue, and is over
\* when its reply is published.
DirectTurnBegins(s) ==
  /\ "human" \in Env
  /\ EventLoopFree
  /\ s \notin unpublished /\ s \notin turn
  /\ unpublished' = unpublished \cup {s}
  /\ turn' = turn \cup {s}
  /\ UNCHANGED <<dispatch, wake, call, sent, owed, crashes>> /\ UNCHANGED boundary

DirectTurnPublished(s) ==
  /\ EventLoopFree
  /\ s \in unpublished /\ s \notin turn
  /\ unpublished' = unpublished \ {s}
  /\ UNCHANGED <<dispatch, wake, call, sent, owed, turn, crashes>> /\ UNCHANGED boundary

-----------------------------------------------------------------------------
(* Fresh-human boundary, rebind, crash *)

\* prepareFreshHumanSession: the snapshot is saved before anything is retired
CaptureBoundary(g, s) ==
  /\ EventLoopFree
  /\ cut[g] = None
  /\ cut' = [cut EXCEPT ![g] = [session |-> s, callbacks |-> Unresolved(s),
                                fp |-> IF wake[s] = None THEN {} ELSE wake[s].fp,
                                attempt |-> IF wake[s] = None THEN 0 ELSE wake[s].attempt]]
  /\ owed' = [op |-> "retire", of |-> g]
  /\ UNCHANGED <<dispatch, wake, call, sent, retired, crashes>> /\ UNCHANGED agent

RetryBoundary(g) ==
  /\ EventLoopFree
  /\ cut[g] # None
  /\ owed' = [op |-> "retire", of |-> g]
  /\ UNCHANGED <<dispatch, wake, call, sent, crashes>> /\ UNCHANGED boundary /\ UNCHANGED agent

\* Seeded fault: everything unresolved by now is retired
RetireNow(g) == Unresolved(cut[g].session)

\* retireForFreshHumanTrigger: what it supersedes
Retires(g) == Unresolved(cut[g].session) \cap cut[g].callbacks

\* one transaction; the second time it only finds its cutoff row
RunRetire ==
  LET g == owed.of  s == cut[g].session  w == wake[s] IN
  /\ owed.op = "retire"
  /\ IF g \in retired THEN UNCHANGED <<dispatch, wake, sent>>
     ELSE /\ dispatch' = [d \in Dispatches |-> IF d \in Retires(g)
                            THEN [dispatch[d] EXCEPT !.state = "superseded"] ELSE dispatch[d]]
          /\ SetWake(s, IF w # None /\ w.fp = cut[g].fp /\ w.attempt = cut[g].attempt
                          THEN [Released(w) EXCEPT !.state = "resolved"] ELSE w)
          /\ Outdated(IF Retires(g) # {} THEN {s} ELSE {})
  /\ retired' = retired \cup {g}
  /\ owed' = Nothing
  /\ UNCHANGED <<call, cut, crashes>> /\ UNCHANGED agent

\* rebindSession: the wake of the source starts afresh at the replacement,
\* unless that has one already
Rebind(src, dst) ==
  /\ EventLoopFree
  /\ src # dst
  /\ dispatch' = [d \in Dispatches |-> IF dispatch[d].session = src
                    THEN [dispatch[d] EXCEPT !.session = dst] ELSE dispatch[d]]
  /\ wake' = [wake EXCEPT ![src] = None,
                          ![dst] = IF @ # None \/ wake[src] = None THEN @
                                   ELSE [Released(wake[src]) EXCEPT !.state = "pending",
                                                                    !.attempt = 0, !.sub = None]]
  /\ Outdated({src, dst})
  /\ UNCHANGED <<call, owed, crashes>> /\ UNCHANGED boundary /\ UNCHANGED agent

Crash ==
  /\ crashes < MaxCrashes
  /\ crashes' = crashes + 1
  /\ call' = [c \in Callers |-> Idle]
  /\ owed' = Nothing
  /\ UNCHANGED <<dispatch, wake, sent>> /\ UNCHANGED boundary /\ UNCHANGED agent

-----------------------------------------------------------------------------
CallerStep(c) ==
  \/ ProbeBusy(c) \/ ProbeFails(c)
  \/ ClaimResolves(c) \/ ClaimWake(c) \/ ClaimRefused(c)
  \/ Ready(c) \/ DeliveryFails(c)
  \/ Send(c) \/ SendRefused(c)
  \/ Accepted(c) \/ Finish(c)
  \/ Rejected(c) \/ RejectedCounts(c) \/ Uncertain(c)

SupervisorStep ==
  \/ \E d \in Dispatches, s \in Sessions : CreateDispatch(d, s)
  \/ \E d \in Dispatches : CaptureTerminal(d) \/ Acknowledge(d) \/ Close(d) \/ RetryCallback(d)
  \/ RunReconcile

EnvironmentStep ==
  \/ \E s \in Sessions :
       \/ SeenBusy(s) \/ LeaseExpires(s) \/ DelayElapses(s) \/ TurnEnds(s)
       \/ DirectTurnBegins(s) \/ DirectTurnPublished(s)
  \/ \E n \in Wakes : AgentAnswers(n)
  \/ \E g \in Triggers, s \in Sessions : CaptureBoundary(g, s)
  \/ \E g \in Triggers : RetryBoundary(g)
  \/ RunRetire
  \/ \E pair \in Rebinds : Rebind(pair[1], pair[2])
  \/ Crash

Next ==
  \/ \E c \in Callers, s \in Sessions : AutoBegin(c, s)
  \/ \E c \in Callers : CallerStep(c)
  \/ SupervisorStep
  \/ EnvironmentStep

Spec == Init /\ [][Next]_vars

(* Fairness.  As in PromptDispatch: every await of an activation has a timer
   behind it, a synchronous stretch runs to its end, and the five-second sweep
   offers every session for ever.  Leases and retry delays elapse. *)
ServerFairness ==
  /\ \A c \in Callers : SF_vars(CallerStep(c))
  /\ WF_vars(RunReconcile) /\ WF_vars(RunRetire)
  /\ \A s \in Sessions :
       /\ SF_vars(\E c \in Callers : AutoBegin(c, s))
       /\ WF_vars(LeaseExpires(s)) /\ WF_vars(DelayElapses(s))

\* The environment's part: a turn comes to its end and a human turn's reply is
\* published or given up, and an agent asked again and again whether it is ready
\* sometimes is.
AgentFairness ==
  /\ \A s \in Sessions : WF_vars(TurnEnds(s)) /\ WF_vars(DirectTurnPublished(s))
  /\ \A c \in Callers :
       /\ SF_vars(ClaimResolves(c) \/ ClaimWake(c) \/ ClaimRefused(c))
       /\ SF_vars(Ready(c))
       /\ SF_vars(Send(c) \/ SendRefused(c))

FairSpec == Spec /\ ServerFairness /\ AgentFairness

-----------------------------------------------------------------------------
(* Safety *)

\* Step sends a wake.
Sends(c) == call[c].pc = "adapter" /\ call'[c].pc = "sent"

\* No wake is sent while an earlier one about the same inbox reached the agent, or
\* still may, and the server never learnt its fate: uncertain delivery does not
\* lease-expire into replay, whatever crashes, retries and boundaries do.
NoBlindResend ==
  [][\A c \in Callers : Sends(c) =>
       \A n \in Wakes :
         (sent[n].session = call[c].session /\ sent[n].current /\ sent[n].fate \in {"wire", "run"})
           => sent[n].answered]_vars

\* While an inbox stays as it is, its session gets at most MaxAttempts wakes, over
\* lease expiries, failed deliveries, turns without progress and crashes.
WakeBudget ==
  \A s \in Sessions :
    Cardinality({n \in Wakes : sent[n].session = s /\ sent[n].current}) <= MaxAttempts

\* A wake that is sent was claimed for exactly the callbacks that are unresolved
\* at that moment, though two awaits lie between the claim and the submission.
WakeIsExact ==
  [][\A c \in Callers : Sends(c) =>
       call[c].claim.fp = Unresolved(call[c].session) /\ call[c].claim.fp # {}]_vars

\* A wake is on record as submitted only if the agent took that very submission.
SubmittedMeansAccepted ==
  \A s \in Sessions :
    (wake[s] # None /\ wake[s].state = "submitted")
      => wake[s].sub # None /\ sent[wake[s].sub].fate = "run"

\* A callback leaves the inbox only because its supervisor handled it, or because a
\* human trigger retired it that had it in its saved snapshot; what arrives between
\* the snapshot and a retirement repeated after a crash stays.
CallbackLeavesOnlyHandledOrCaptured ==
  [][\A d \in Dispatches :
       (dispatch[d].state = "callback_pending" /\ dispatch'[d].state # "callback_pending") =>
         \/ dispatch'[d].state = "acknowledged"
         \/ /\ dispatch'[d].state = "superseded"
            /\ \E g \in retired' \ retired : d \in cut[g].callbacks]_vars

\* docs/agent-direct-recovery.md: an accepted human turn fences wake delivery for
\* the same session until it reaches a terminal delivery state.
HumanTurnFencesWakes ==
  [][\A c \in Callers : Sends(c) => call[c].session \notin unpublished]_vars

-----------------------------------------------------------------------------
(* Liveness, under FairSpec *)

\* the agent was sent a wake about the inbox as it is
Offered(s) == \E n \in Wakes : sent[n].session = s /\ sent[n].current

WakeIn(s, state) == wake[s] # None /\ wake[s].state = state

\* An unresolved callback gets its supervisor a wake turn, or is visibly blocked
\* (README.md: wake turns for an unchanged inbox before it becomes inspectably
\* blocked), unless the inbox empties first.
CallbackIsOffered ==
  \A s \in Sessions :
    Unresolved(s) # {} ~> (Unresolved(s) = {} \/ WakeIn(s, "blocked") \/ Offered(s))

\* A submitted wake does not stay so while callbacks are unresolved: its turn is
\* evaluated, or its lease ends it (README.md: the lease used for restart recovery).
SubmittedIsEvaluated ==
  \A s \in Sessions :
    (WakeIn(s, "submitted") /\ Unresolved(s) # {})
      ~> (~WakeIn(s, "submitted") \/ Unresolved(s) = {})
=============================================================================

# Verification project for Wingman Autopilot

Wingman Autopilot is a Bun/TypeScript server that runs coding agents in sessions,
feeds them prompts and callbacks, and publishes what they answer.  Most of its
code moves data; what is hard to get right is the durable hand-over of work: a
prompt, a callback or a chat turn is stored, claimed, submitted to a process that
may not answer, recorded, and must survive restarts without being lost or done
twice.  This project models that core in TLA+, checks it with TLC on small
instances, and proves with TLAPS every safety property it checks.

## The system and its parts

| part | state | operations | interacts with |
|---|---|---|---|
| Prompt queue store (`storage/prompt-queue-store.ts` and its schema, retention, recovery and cutoff helpers) | table `prompt_queue` | add, edit, delete, acknowledge, claim, mark sending, accept, complete, release, reconcile, capture and retire, supersede, rebind, prune | everything below |
| Dispatch engine (`server/prompt-dispatch.ts`, `server/session-agent-message.ts`) | `queueDispatchInFlight`, cooldowns | manual dispatch, automatic dispatch, five-second sweep | store, readiness, agent, callback inbox |
| Queue routes (`server/session-queue-routes.ts`) | none | list, add, edit, delete, acknowledge, consume, reconcile | store, in-flight set |
| Drain gate and restarts (`agents/session-admission.ts`, `server/controlled-restart.ts`, `server/bootstrap/warm-restart.ts`) | drain operation id, operation record, recovery list | request, checkpoint, stop, launch, roll back, recover at startup | engine, store, inbox, direct chat |
| Fresh-human boundary (`agent-chat/fresh-human-session.ts`, `fresh-session-work-retirement.ts`) | saved snapshot, per-store cutoff rows | capture, retire, retry | four stores |
| Session callback inbox (`session-dispatch/`) | dispatches, events, wakes | create, claim wake, submit, acknowledge, close | engine, boundary, restart |
| Direct chat turns (`agent-chat/direct-chat-*.ts`) | turns, intercept state | accept, submit, observe, publish, reconcile | agent, Tower |
| Publication bridge (`agent-chat/flightdeck-session-turn-*.ts`) | accepted turns | accept, observe, publish | engine, Tower |
| Completed turns (`sessions/completed-turn-*.ts`) | receipts, binding, retirement and deletion rows of the pipeline database, shared by several hosts | enqueue, claim, prepare, submit, complete, recover from the transcript, abandon, delete | process manager, native transcript |
| Wallets (`wallets/`) | lock files, transfer journal, the library's operations | open, transfer, resume, unlock | wallet library, mint |
| Pipelines, scheduler, NightWatch, agent inbox, record sync, apps, wapps, billing, identity, signing, UI, CLIs | their own stores | see `PROJECT.json` | mostly the HTTP API |

`PROJECT.json` lists every part with its sources and says what is left out and why.

What is hard here: the server is one JavaScript thread, so stretches of code
between two awaits are atomic against each other but not against a crash, each
SQLite statement being a commit of its own; every await may last minutes; the
agent is another process whose acceptance cannot be withdrawn and whose answer
may be lost; operators, owners, agents, restarts and new human messages all act
on the same rows meanwhile.

## Modules

`PromptQueueStore` is the table and one operator per statement, as a relation
between `row` and `row'`.  `PromptDispatch` extends it with the actors.  Each of
its actions is what the code does between two awaits, cut again at every commit;
`EventLoopFree` keeps other JavaScript out of a stretch that has been cut, so that
only a crash or the agent gets in between.

| in the model | in the code |
|---|---|
| `row[p]` | the row of prompt `p`; `revision` stands for its text, `rowid` is the insertion count |
| `inFlight` | `queueDispatchInFlight` |
| `call[c]` | one activation of `dispatchNextQueuedPromptForSession` (`ManualBegin`) or `maybeAutoDispatchQueuedPrompt` (`AutoBegin`); `pc` is the await it stands at |
| `attempt[t]` | what really became of claim token `t`: knowledge nobody in the program has |
| `request` | one acknowledge, consume or reconcile request: `listed` when the client has read the queue, `posted` after the checks before the body is read |
| `owed` | the rest of a cut stretch outside the dispatcher: a renumbering, or a retirement |
| `cut`, `retired` | the saved snapshot and the `session_work_cutoffs` row of a fresh-human trigger |
| `draining`, `live` | `restartDrainGate`, sessions with status running |

`DispatchInbox` is the second component: what a supervising session is told of
the workers it dispatched.  A worker that ends leaves an unresolved callback; one
wake record per supervisor says whether a prompt about the present set of
unresolved callbacks was claimed, sent, evaluated or given up; the dispatch engine
sends it when the session's prompt queue is empty.

| in the model | in the code |
|---|---|
| `dispatch[d]` | the row of `session_dispatches`: state and callback session |
| `wake[s]` | the row of `session_dispatch_callback_wakes`: `fp` is `inbox_fingerprint`, a hash over the unresolved dispatches and so the set of them; `busy` is `busy_observed_at`, `lease` and `delayed` say where the clock stands against `lease_expires_at` and `next_retry_at`; `sub` is knowledge of which submission the record is about |
| `call[c]` | one activation of `maybeAutoDispatchQueuedPrompt` that goes on to `dispatchInboxWake` |
| `sent[n]` | what became of the n-th submission; `current` while the inbox is as it was then |
| `owed`, `cut`, `retired` | as above, for the callbacks' part |
| `turn` | sessions whose agent is running a turn |
| `unpublished` | sessions for which `hasRecoverableSessionTurn` holds |

`claimForStableSession` is three actions (`ClaimResolves`, `ClaimWake`,
`ClaimRefused`) over the operators `Settled`, `Claimable` and `Claimed`;
`validateClaim` is `Checked` (what it writes) and `Valid` (what it answers).

`CompletedTurns` is `session.completedTurn`: prompts sent to one dedicated native
conversation and awaited, by any of several server processes that share the
pipeline database.

| in the model | in the code |
|---|---|
| `receipt[r]` | the row of `completed_turn_receipts`; `claim` names the holder, `held` says that the lease has not lapsed, `mark` is the saved transcript boundary, `reply` the transcript entry it was completed from |
| `bound`, `retired`, `deleted` | rows of the bindings, retirements and deletions tables |
| `session[x]` | what the process manager and the message store say of a dedicated session: its state, its host, the session it was resumed from, whether it was recorded |
| `journal` | the native transcript, which survives every process |
| `exec[h]`, `stop[h]` | the attempt and the abandonment a host has under way; `pc` is the await, or the statement of the shared database, it stands at |

Another process gets in between any two statements of the database, so an attempt
reads the head (`ReadHead`), claims it (`Claim`) and reads the binding
(`ReadBinding`) in three steps and goes on with what it read: whether it is
recovering, and what to do with the receipt, are decided by the first.

`TurnConversation` is the abstract specification of it: turns are asked in the order
of acceptance, each at most once and only after the answers to all earlier ones, and
each answer is that of the turn's own prompt, unless the conversation is cancelled.
`CompletedTurns` instantiates it with a refinement mapping (`Conversation`) and
`KeepsConversation` says that it implements it.

`ControlledRestart` is the managed restart: classify, close the gate, write the
operation record and the recovery list, stop every session, hand over or roll back,
exit or die, and at startup recreate the listed sessions and record the outcome.
Every write of the request can fail.  Where the code catches that (`PersistFails`,
`CheckpointFails`, `Rejected`) it opens the gate or rolls back; the classification and
the writes before draining and before stopping are in no `try`
(`ClassificationThrows`, `PhaseThrows`), and so is the last one of a rollback
(`CancelThrows`).  `Rejected` is also reached once the supervisor runs, when the
record of that cannot be written: the shutdown is then armed and `Exit` cuts the
rollback short wherever it is.  `ClearMarker` goes on when the list cannot be removed.
`req[q]` is one call of `requestControlledRestart`, `marker` the recovery list, `op`
what later processes read of the operation record, `boot` the startup recovery,
`home[w]` the session an item of durable work is bound to.  Two history variables name
what the properties except: `torn` (a crash or the armed shutdown fell between a
rebinding and the rewriting or removal of the list, or the list could not be removed)
and `late` (work came during the restart for a session already classified as settled).

`WalletTransfers` is a transfer between two bot wallets.  Each command is a process
(`proc[p]`) of its own that opens two wallets under their lock files, journals the
transfer (`row[t]`), prepares and executes a send, redeems its token and confirms;
it may fail at every await, or die and leave its locks, and another command
resumes.  The library's operations (`send`, `receive`) and the mint (`redeemed`)
are external: modelled from how `src/` uses them.  All amounts are equal, the hard
case for finding an operation again.

The optional events of a model are chosen by a constant `Env`: in `PromptDispatch`
`"drain"`, `"stop"`, `"prune"`, `"torn"` (crashes between a removal and its
renumbering), `"consume"`, `"decide"`; in `DispatchInbox` `"retry"`, `"missed"`,
`"human"`; in `CompletedTurns` `"stop"`, `"missing"`, `"abandon"`, `"delete"`; in
`WalletTransfers` `"unrelated"` and `"unlocks"`, which no run has (see Findings).

The `MC` modules add what TLC needs: symmetry sets, the values of `Rebinds`, and
the equal prompts of the completed turns.  The modules named `...Proofs` hold the
theorems, `PromptQueueProofs` those about the order of the queue and about what a
step may do, on top of `PromptDispatchProofs`.

Definitions headed "seeded faults" are deliberate mistakes, each the kind of bug a
change to the code could introduce.  `PROJECT.json` ("mutants") names for every
property of a run the fault that run is known to notice.

## What is abstracted

* Text, types, payloads, timestamps and the `prompt_queue_recovery` audit rows.
* Authentication, approval and billing guards of the routes: a request that fails
  them does nothing to the modelled state.
* Cooldowns: whether the sweep gets past one is left open.
* `removeNextPrompt` and `clearSessionQueue` have no caller in production code;
  `deletePromptsByType` is a migration of legacy rows.
* The agent's internals.  An answer is "accepted", "refused" (4xx other than 408)
  or "failed"; acceptance may be answered badly or not at all.
* In the boundary only the prompt queue's part; the intake's decision whether a
  session is idle is left open (the boundary may happen at any time, a superset).
* In the inbox only supervised dispatches; one without a callback session is closed
  when it is captured.  Left out: the migration of `callback_delivered` rows,
  native-transcript discovery (capture may happen whenever a dispatch runs) and
  closing the worker.  Which session is idle, stable, in cooldown or stopped is
  left open, except that a session with a running turn is not taken for ready.
* In `PromptDispatch` and `DispatchInbox` a rebind may happen whenever its source is
  stopped (a superset of the restart and recovery paths of `ControlledRestart`), and
  after `Crash` a session may be used again under its own id.  In the code it keeps its
  id only over a warm restart in preserve mode; after an unplanned crash there is no
  marker, `rehydrateWarmSessions` returns at once (`warm-restart.ts:123`), and what
  comes back is a replacement (`Rebind`).  For the safety properties that is a superset.
  The liveness runs have no crash.
* In completed turns a call has no identity: whoever calls executes the head of the
  conversation.  Left out: the isolated profile, ownership and configuration
  checks, and the removal of a deleted conversation's files.
* In restarts the kinds of durable work (queued prompts, dispatches, direct-chat
  turns, an active turn) are one set of items; the preserve mode of warm restart is
  left out.  The writes of the startup recovery succeed, and a write that fails leaves
  the file as it was, so truncated files are left out.
* In wallets: amounts, fees and keys; funding, payments, reclaim and backup.

## Runs

All runs use model values; interchangeable ones are symmetric (not in runs under
fairness).  `CHECK_DEADLOCK FALSE` everywhere: once every token is used and every
prompt, receipt or transfer is finished, the system has nothing left to do.

| run | bounds | shows |
|---|---|---|
| `arbitration` | 2 sessions (one completed-turn), 2 prompts, 2 tokens, 2 callers, drain, stop, prune, requests | one attempt per session, no unsent claim is forgotten by an error path, an unresolved claim blocks the queue, decisions wait for the attempt |
| `boundary` | 3 prompts, 1 token, 1 trigger, 1 edit each, consume, 1 crash | positions follow arrival (a prompt inserted after a removal beside a remaining row included), the boundary retires only what was captured, consuming takes only what was read |
| `crash` | 2 prompts, 2 tokens, 1 trigger, torn crashes, decisions, 2 crashes anywhere | no undecided replay, records only claim what happened, terminal is final; also the inductive invariant of the proofs |
| `rebind` | 2 sessions, one with an in-process adapter, 2 prompts, 2 tokens, 1 caller, 1 key, queue of 1 | no undecided resubmission and unique dedupe keys while rows move under a live attempt into a queue that has rows of its own |
| `liveness` | 2 prompts, 2 tokens, 1 caller, 1 trigger, fair | attempts end, pending prompts are offered |
| `wakes` | 1 dispatch, 3 attempts, 4 submissions, 1 trigger, explicit retries, missed turns, human turns, 2 crashes | attempt budget, no blind resend, the inbox loses nothing but what was handled or captured; types, with attempts within their limit |
| `wake_rebind` | 2 sessions, 2 dispatches, 1 attempt, 2 submissions, a rebind, explicit retries, 1 crash | submitted means accepted, and wakes stay exact, while records move under an activation and old fingerprints come back |
| `wake_liveness` | 2 dispatches, 1 attempt, 3 submissions, fair | callbacks are offered or visibly blocked, submitted wakes are evaluated |
| `wake_stuck` | 1 dispatch, 2 attempts, missed turns, no crash, fair | finding: a submitted wake without a lease |
| `turns` | 2 hosts, 2 receipts with the same prompt, 2 sessions, 1 crash, stops, lost transcripts, abandonment, deletion | the conversation is kept (refinement), every prompt is asked in the native conversation that the binding leads to, an abandonment is recorded only over a stopped writer, a deleted conversation is settled |
| `restart` | 1 request, 2 sessions (one automatic), 3 replacements, 2 items of work, failing writes, 2 crashes, fair | work is kept, nothing is recreated twice but where the list could not show it, "complete" is complete, the gate opens again on every path that catches its failure |
| `wallets` | 2 wallets, 2 transfers in either direction, 4 processes, 2 sends, 2 receives | wallets are exclusive, resume reuses the send and the receive, a token that is out can be found in the journal, a completed transfer reached its own recipient |

Bounds: two prompts are needed for one to overtake or wait for another, a third to be
inserted beside what a removal left, two tokens for one prompt to be submitted twice,
two callers for a race (in the inbox a second activation of one session is kept out by
the in-flight set, and activations of different sessions touch different records); one
crash for each place one can fall, a second for one during the recovery from the
first; two rebinds would only repeat one.  `MaxQueue` is set to the number of prompts
or below instead of 21.  In the inbox two dispatches are needed for an inbox to change
without emptying, and one submission more than `MaxAttempts` for a budget to be
overrun; `wakes` has the code's limit of 3, the other runs have 1 or 2, where the
limit is met at the first or second attempt.  In `wake_liveness` the unresolved set of
two dispatches takes at most three nonempty values and each is tried once, so three
submissions are as many as there can be and the bound never stands in the way.  Two
hosts are needed for one to take over from a slow one, two equal prompts for evidence
to be confused, two sessions for a resumed child.  In a restart one eligible session
and one automatic one have every classification between them; a third replacement is
one for a session that a torn rollback has recreated already.  Four wallet processes
are one transfer each way, a resume and an unlock, in any combination.

## Findings

`wake_stuck`: README.md calls the wake lease one for claims and submissions, and a
comment in `server/prompt-dispatch.ts` relies on "the full submission lease".  The
boundary before a submission clears it and nothing sets it again; a turn that is over
before message sync or a sweep has seen it leaves a record that
`claimForStableSession` waits on for ever.  No crash is involved.

The models also reach the following, which no run checks; each was found by
widening a run as described and is a hazard with a note in `PROJECT.json`.

* Torn renumbering: `docs/session-prompt-queue.md` promises that an unresolved claim
  blocks the queue across crashes.  Removals and their renumbering are two commits,
  and a new row is numbered `count + 1`; two crashes in between leave room for a new
  row before an unresolved claim (`crash` with four prompts and
  `UnresolvedClaimBlocksQueue`).
* Decisions across a rebind: the reconcile route looks a session up in the in-flight
  set by the id in the URL, and after a rejected restart rebound the row
  (`server/controlled-restart.ts:333`) that is the replacement's id, while the attempt
  may still run under the old one (`rebind` with `DecisionAwaitsAttempt`).
* A retried callback is not offered: an inbox that empties leaves its wake record
  resolved with the last fingerprint; an explicit retry restores that fingerprint,
  and `claimWake` only takes pending records (`wake_liveness` with
  one dispatch and `"retry"`).
* The fence of human turns: `hasUnpublishedDirectChatTurn` is read before three awaits
  and not by the checks after them (`wakes` with `HumanTurnFencesWakes`, which
  states what `docs/agent-direct-recovery.md` says).
* A second first session: an attempt that read the head while it was queued, and claims
  it after another host claimed it, launched and failed before binding, launches again;
  `docs/completed-native-turns.md` says that no new launch occurs merely because a lease
  expired (`turns` with `OneFirstLaunch`).  One of the two sessions is never asked.
* An interrupted resume: a completed turn whose session was stopped is resumed in a
  child session; when that attempt is cut off before binding, the retry has a
  binding already and starts another child of the same conversation.
* Late work: an automatic session classified as settled may be given work during the
  drain and is then neither listed nor recovered (`late` in `WorkIsKept`).
* Overlapping or successive restarts: a rollback reopens the gate before it removes
  the recovery list and may remove that of a second request; an operation that dies
  before its checkpoint is recorded from the list of an earlier one (`restart` with
  two requests violates `WorkIsKept` and `CompleteIsComplete`).
* Torn rollback: sessions recreated by a rollback are not noted in the list.  A crash,
  a list that cannot be removed, or the shutdown that a launched supervisor has armed
  250 ms ahead, when the write after the launch fails and the code rolls back all the
  same, make the next startup recreate them again (`torn` in `ReplacedOnce`).
* A gate that stays closed: the classification and the writes before draining and before
  stopping run with the gate closed outside any `try`, and nothing that catches what they
  throw opens it (`thrown` in `GateReopens`).
* Two unlocks at a time (`wallets` with `"unlocks"` and five processes): the second
  removes the lock of a process that has opened the wallet since.
* Adopted sends (`wallets` with `"unrelated"`): a transfer that failed before its send
  was prepared adopts the send of a later transfer of the same amount.

## Fairness

`ServerFairness`: every await of an activation is behind a timer in the code
(readiness 60 or 120 s, adapter 8 s, HTTP 15 s, message sync 20 s), so an activation
that can go on again and again does; a cut stretch runs on; the sweep calls
`maybeAutoDispatchQueuedPrompt` for every session every five seconds. `AgentFairness`
is the environment's part: an agent asked again and again whether it is ready
sometimes is.  `AttemptEnds` excludes nothing by it; `PendingIsOffered` needs it.  In
`DispatchInbox` leases and retry delays elapse, and a turn the agent runs ends (weak
fairness: nothing takes these away once they are due).  A session whose adapter runs
in process has no timeout on the submission (`Direct`), so the liveness run has none.

In `ControlledRestart` the steps of a request and of the startup recovery are weakly
fair, every await in them having a timeout or an answer of the operating system,
and so is the exit after a launch, which the code schedules by a timer.  That a
lost process is started again is the supervisor's part and not assumed.  The other
models are checked for safety only: a completed turn waits for its agent without
limit, and a wallet command is run again by its operator or not at all.

## Proofs

Every invariant, action property and refinement that a passing run checks is also a
theorem, for every value of the constants: any number of sessions, prompts, tokens,
activations, hosts, processes and crashes.  Each module of theorems assumes what its
model does of its constants (`StoreAssumption`, `DispatchAssumption`,
`InboxAssumption`, `TurnsAssumption`, `RestartAssumption`, `TransferAssumption`: no
identifier is NULL, bounds are numbers, finite sets where rows are counted;
`CutAssumption`, `WakeAssumption` and `ListAssumption`: no record is NULL either).

| module | theorems | beyond these, assumed |
|---|---|---|
| `PromptDispatchProofs` | `DeliveryInvariant`; `TypeCorrect`, `NoReplay`, `DispatchedAccepted`, `SentRecorded` | nothing |
| `PromptQueueProofs` | `TerminalStaysFinal`, `ConsumesWhatWasRead`, `BoundaryRetiresCaptured`, `KeysAreUnique`, `OneAttempt` | nothing |
| | `DecisionWaits` | `IdleSource`: no rebind moves the rows of a session in flight |
| | `UnsentHeld` | `IdleSource`, and no crash |
| | `QueueInOrder`, `ClaimBlocks` | `EmptyTarget`: rebinds go into empty queues; `WholeReorder`: no crash between a removal and its renumbering |
| `DispatchInboxProofs` | `TypeCorrect`, `Budgeted`, `Accounted`, `NeverBlind`, `Exact`, `LeavesForAReason` | nothing |
| `TurnConversationProofs` | `KeepsPromises` | nothing |
| `CompletedTurnsProofs` | `TypeCorrect`, `DeletionSettles`, `ConversationKept`, `OneConversation`, `WriterIsStopped`, `PromisesKept` | nothing |
| `ControlledRestartProofs` | `TypeCorrect`, `Replaces` | nothing |
| | `KeepsWork` | `Afresh`: a restart is requested with no rollback under way and no stopped session that owns work |
| | `Completes` | `OwnList`: no process goes down with its operation record beside the recovery list of another operation |
| | `OneRestart`: `WorkIsKept`, `CompleteIsComplete` | one restart request, and neither `Afresh` nor `OwnList` |
| `WalletTransfersProofs` | `TypeCorrect` | nothing |
| | `Exclusive` | `"unlocks"` not in `Env` |
| | `Reuses`, `Journalled`, `Completed` | neither `"unlocks"` nor `"unrelated"` in `Env` |

The named assumptions of the last column are about steps (`Spec /\ [][A]_vars =>`),
not about constants: rebinds, crashes and restarts happen as often as they like, only
not at that moment.  They are not for the provers' sake; without them the statement is
false of the code, and TLC shows how.  Under the constants of `rebind` all four
statements about the prompt queue are violated: a row that moves under a live attempt
leaves the in-flight set behind, so a decision need not wait and an unsent claim is no
longer held under its session's id, and a row that moves into a queue with rows of its
own comes before or after them by its old number.  After a crash an unsent claim has
no holder, which is what startup reconciliation is for.  Torn renumbering, overlapping
and successive restarts, two unlocks and adopted sends are described under Findings.
With one request `Afresh` and `OwnList` are themselves theorems, so `OneRestart` holds
of any number of sessions and crashes with no assumption about steps.

Before they were proved, TLC checked these statements with the next-state relation
conjoined with the assumption: the first two on 3.3 million states with rebinds in
both directions, the next two on 4.1 million with three prompts, both rebinds and a
crash, `KeepsWork` on 0.55 and `Completes` on 1.3 million with two requests and a
crash, their inductive invariants included.  These instances take longer than the runs
listed above and are not kept as runs.

### The inductive invariants

`NoUndecidedReplay` is not inductive: that a claim may be released, or a prompt
claimed again, says nothing by itself about other tokens.  `DeliveryInv` adds what
the three kinds of state know of each other: `LedgerOK` (a token has a prompt once
minted), `RowsOK` (a claimed row names a token of its own; unsent means just
minted; accepted and dispatched mean run; a submission that may have run and was
not given up keeps its prompt out of pending and out of every other claim) and
`CallsOK` (what an activation may conclude from where it stands, and that no two
activations share a token).  Most steps are "quiet" (`QuietStep`): they leave
claim and evidence of a row alone, take it out of the queue for good or insert it.
The others have a lemma each: claiming, releasing, sending, accepting, completing,
the agent's answer, and the explicit decision, the one step that gives a live
submission up.

On top of it `PromptQueueProofs` uses small invariants, one for each question.
`RetireOK`: a boundary still owed has its snapshot, so what is retired was in it.
`BoundOK` and `TokenOK`: an activation past its claim works on a row of its own
session, and before it holds no token, which makes the in-flight test of the routes
say something about the row they decide on; a rebind keeps it true as long as it leaves
sessions in flight alone.  `UnsentOK`: an unsent claim has an
activation that will send it or give it back.  `OrderInv`: a queue is sorted by
insertion and its claimed row is the first, its numbers stay within the count except
while a renumbering is owed, and the insertion counter is ahead of every row; that
`count + 1` is a free number at the end of the queue is the second of these, and it
is what a torn renumbering breaks.

`InboxInv` was checked by TLC on instances of about 430 000 and 970 000 states, two
rebinds among them, before it was proved.  Neither `WakeBudget` nor `NoBlindResend` is
inductive, as neither says how a record is related to what was sent: records are
overwritten, rebound and reset while an activation is away.  `Counts` says that every
wake about the present inbox is counted by the record's attempts, whose fingerprint
is the inbox's, and that wakes of unknown fate keep the record blocked or resolved;
`HoldOK` that an activation whose claim still matches the record has room for one more
(before it sends), or is the only one whose fate is unknown (after).  Writers other
than claim, submission and answer are all instances of `SoftWake`, which says what of a
record they preserve, and one lemma carries the invariant over it.

`TurnInv` relates the receipts to the transcript.  Acceptance numbers them without
gaps (`SeqOK`), and some unsettled receipt has nothing before it but answers
(`BacklogOK`, `Front`).  Only such a front receipt has a saved boundary; what follows
the boundary in the transcript, if anything, is its own prompt (`MarkOK`), and every
prompt in the transcript stands at its boundary (`JournalOK`), so no receipt is there
twice and its reply is its own (`ReplyOK`).  An attempt under way is for a front
receipt, one about to submit has a boundary that is the end of the transcript, and no
two are about to submit (`ExecOK`).  The last is what two equal prompts, a lapsed
lease and a retry on another host could break; with it each step of the code is a step
of `TurnConversation` or changes nothing there (`ConversationKept`), one lemma for
each action.  `KeepsPromises` says what that conversation is worth, and `PromisesKept`
carries it over to the service.  `NativeInv` adds the sessions.  Any number of
attempts may launch one at a time when nothing, or something else, is bound; what
matters is which of them still has its claim.  One that has works from what is bound
now, and what it launched continues that native conversation or, while nothing is
bound, will begin it; one that has not gets no further than `bind()` (`AttemptsOK`,
with `PlacedOK` and `LineageOK` about where sessions come from and `ClaimsOK` about
completed receipts). So nothing is asked elsewhere (`AskedOK`).  A session launched
during an abandonment has no turn and gets none (`StoppedOK`).

`ReplaceInv` says who may still create a replacement, so that no two of them do: the
call that holds the gate, which after an exception nobody catches is for good
(`GateOK`), rollbacks, which outlast the gate but never meet in a session
(`RequestOK`, `Disjoint`), and the startup recovery, for what is pending in the list
(`ListOK`, `BootOK`).  `KeptInv` follows the durable work: one call works at a time
(`Alone`), the record is that call's from its first write to its end (`RecordKnown`)
and the list from its checkpoint until it is removed (`ListKnown`), only the call
stops a session nobody closed, having found that it owns no work or listed it
(`StopsOK`), what a startup has just replaced owns nothing any more (`MovedOK`), and a
session that stopped owning work is pending, in the rollback's hands, reported as
failed, or, when the last write of a rollback failed, in an unfinished record that the
next startup reports (`KeptOK`).  `ReportInv` is about the outcome a startup records:
what the list says of its sessions is true, and once the process is down it is about
the record's sessions (`RecordOK`); what is still pending is in the startup's hands
(`StartupKnows`).  `OnceInv` says of a single request that it begins with no list and
no stopped session, and that the list and the record it writes name the same sessions.

`LockInv` says that a running command holds its wallets' locks and that a lock about to
be removed still names a dead process.  `TransferInv` relates journal, operations and
processes: until its send is journalled, the only operation its wallet has gained since
the entry was written is the transfer's own (`EntryOK`), so that adopting it on resume
is right; a send has one transfer and a receive one token; and what a process remembers
is still what the journal says.

### Only model-checked

Liveness is out of this prover's reach: `AttemptEnds`, `PendingIsOffered`,
`CallbackIsOffered`, `SubmittedIsEvaluated`, `GateReopens`, and the violation that
`wake_stuck` finds.  `HumanTurnFencesWakes` states a finding and is in no run.

## Not modelled

The map covers a small share of the repository's lines, and most of the rest is
outside what a state model says anything about: of some 247 000 lines the greater
part is browser UI, request routing and rendering, content transformation for
Flight Deck, clients of external services, provider protocols of agents, CLIs and
scripts.  `PROJECT.json` gives the reason for each part.  Of the code with a
protocol of its own, what is left is in the plan.

## Plan

Done: the prompt queue and dispatch engine; the callback inbox; completed turns with
their abstract specification; controlled restart and startup recovery; wallet
transfers; a theorem for every safety property of these.

1. Both branches of the engine composed on one session: the queue's items before the
   inbox's wakes, under one in-flight set.
2. The fresh-human boundary over all four stores with its intake, and the
   publication bridge with its generation check.
3. Direct chat turns; the pipeline runner's resume and parallel branches.
4. Proofs: what remains true of the queue after a torn renumbering; of transfers after
   an adopted send.

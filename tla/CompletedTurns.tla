---------------------------- MODULE CompletedTurns ----------------------------
(***************************************************************************)
(* session.completedTurn: prompts sent to one dedicated native             *)
(* conversation and awaited (src/src/sessions/completed-turn-*.ts).        *)
(*                                                                         *)
(* The receipts and the binding are rows of the pipeline database, shared  *)
(* by every host (server process) that opens it; an attempt (exec) and an  *)
(* abandonment (stop) are async functions of one host, and a host's        *)
(* sessions live in its own process manager.  A host stops between any two *)
(* awaits, loses its lease when its timer is late, and dies with its       *)
(* attempts and its sessions.  The native transcript (journal) survives.   *)
(*                                                                         *)
(* A call retries the head of the conversation, whichever receipt it was   *)
(* made for, so calls need no identity: any host may begin with ReadHead   *)
(* whenever some accepted receipt is unfinished.  The head, its claim and  *)
(* the binding are statements of their own: another host may run between   *)
(* them, and an attempt goes on with what it read.  A claim token is the   *)
(* host and the kind of work, of which a host has one each at a time.      *)
(***************************************************************************)
EXTENDS Naturals, Sequences, FiniteSets

CONSTANTS
  Hosts,      \* processes that share the pipeline database
  Receipts,   \* requests of one conversation, each with its own request id
  Text,       \* Text[r]: the prompt of r; distinct requests may repeat one
  Sessions,   \* process manager sessions that can be started
  Env,        \* which of "stop", "missing", "abandon", "delete" happen
  MaxCrashes, \* bound: processes lost
  None

VARIABLES
  receipt,    \* completed_turn_receipts
  bound,      \* completed_turn_bindings.sessionId of the conversation
  retired,    \* a row of completed_turn_retirements
  deleted,    \* a row of completed_turn_deletions
  session,    \* dedicated sessions: the manager's and the message store's rows;
              \* native is the native conversation, named by the session that began it
  journal,    \* turns of the native conversation, in transcript order
  exec,       \* the attempt each host has under its conversation lock
  stop,       \* the abandonment each host has under way
  crashes

ASSUME TurnsAssumption ==
  /\ IsFiniteSet(Receipts)
  /\ None \notin Receipts \cup Sessions \cup Nat \cup (Hosts \X {"run", "stop"})
  /\ MaxCrashes \in Nat

vars == <<receipt, bound, retired, deleted, session, journal, exec, stop, crashes>>

Working == {"queued", "preparing", "sending", "uncertain", "abandoning"}
Idle == [pc |-> "idle", head |-> None, x |-> None, mark |-> 0, entry |-> 0, rec |-> FALSE]
NoStop == [head |-> None, left |-> {}]
Fresh == [seq |-> 0, status |-> "absent", claim |-> None, held |-> FALSE, sender |-> None,
          session |-> None, mark |-> None, missing |-> FALSE, reply |-> 0]

TypeOK ==
  /\ receipt \in [Receipts -> [seq : 0 .. Cardinality(Receipts),
                               status : Working \cup {"absent", "completed", "abandoned"},
                               claim : (Hosts \X {"run", "stop"}) \cup {None},
                               held : BOOLEAN,
                               sender : (Hosts \X {"run"}) \cup {None},
                               session : Sessions \cup {None},
                               mark : 0 .. Cardinality(Receipts) \cup {None},
                               missing : BOOLEAN,
                               reply : 0 .. Cardinality(Receipts)]]
  /\ bound \in Sessions \cup {None}
  /\ retired \in BOOLEAN
  /\ deleted \in BOOLEAN
  /\ session \in [Sessions -> [state : {"none", "live", "stopped"}, host : Hosts \cup {None},
                               parent : Sessions \cup {None}, native : Sessions \cup {None},
                               recorded : BOOLEAN]]
  /\ journal \in Seq([turn : Receipts, session : Sessions, state : {"running", "done", "failed"}])
  /\ exec \in [Hosts -> [pc : {"idle", "claim", "reclaim", "binding", "prepare", "launch", "bind",
                               "ready", "mark", "submit", "sent", "recover"},
                         head : Receipts \cup {None}, x : Sessions \cup {None},
                         mark : 0 .. Cardinality(Receipts), entry : 0 .. Cardinality(Receipts),
                         rec : BOOLEAN]]
  /\ stop \in [Hosts -> [head : Receipts \cup {None}, left : SUBSET Sessions]]
  /\ crashes \in 0 .. MaxCrashes

Init ==
  /\ receipt = [r \in Receipts |-> Fresh]
  /\ bound = None
  /\ retired = FALSE
  /\ deleted = FALSE
  /\ session = [x \in Sessions |-> [state |-> "none", host |-> None, parent |-> None,
                                native |-> None, recorded |-> FALSE]]
  /\ journal = <<>>
  /\ exec = [h \in Hosts |-> Idle]
  /\ stop = [h \in Hosts |-> NoStop]
  /\ crashes = 0

-----------------------------------------------------------------------------
(* The store                                                               *)

Accepted == {r \in Receipts : receipt[r].seq # 0}

\* the oldest receipt that is neither completed nor abandoned
HeadRow == {r \in Receipts :
             /\ receipt[r].status \in Working
             /\ \A o \in Receipts : receipt[o].status \in Working =>
                                      receipt[r].seq <= receipt[o].seq}

Mine(h, kind, r) == receipt[r].claim = <<h, kind>>

\* the attempt is past its claim; an earlier process of this host may have left one
Claimed(h) == exec[h].pc \notin {"idle", "claim", "reclaim"}

Released(row) == [row EXCEPT !.claim = None, !.held = FALSE, !.sender = None]

\* what uncertain() leaves of a row: nothing changes for a claim that was replaced
Uncertain(h, kind, r) ==
  IF Mine(h, kind, r) /\ receipt[r].status # "completed"
  THEN [Released(receipt[r]) EXCEPT !.status = IF @ = "sending" THEN "uncertain" ELSE @]
  ELSE receipt[r]

\* seeded fault: a retried request is accepted again
EnqueueAgain(r) ==
  /\ ~deleted
  /\ ~retired
  /\ receipt' = [receipt EXCEPT ![r].status = "queued", ![r].seq = Cardinality(Accepted) + 1]
  /\ UNCHANGED <<bound, retired, deleted, session, journal, exec, stop, crashes>>

\* seeded fault: an enqueue that does not look for a deletion
EnqueueIgnoringDeletion(r) ==
  /\ receipt[r].status = "absent"
  /\ ~retired
  /\ receipt' = [receipt EXCEPT ![r].status = "queued", ![r].seq = Cardinality(Accepted) + 1]
  /\ UNCHANGED <<bound, retired, deleted, session, journal, exec, stop, crashes>>

\* a request already known returns its receipt and changes nothing
Enqueue(r) ==
  /\ receipt[r].status = "absent"
  /\ ~deleted
  /\ ~retired
  /\ receipt' = [receipt EXCEPT ![r].status = "queued", ![r].seq = Cardinality(Accepted) + 1]
  /\ UNCHANGED <<bound, retired, deleted, session, journal, exec, stop, crashes>>

\* renew(): the timer of an attempt or of an abandonment; it gives up when the
\* claim is another's, which every write that follows checks as well
Renew(r) ==
  /\ ~receipt[r].held
  /\ \E h \in Hosts : \/ Claimed(h) /\ exec[h].head = r /\ Mine(h, "run", r)
                      \/ stop[h].head = r /\ Mine(h, "stop", r)
  /\ receipt' = [receipt EXCEPT ![r].held = TRUE]
  /\ UNCHANGED <<bound, retired, deleted, session, journal, exec, stop, crashes>>

\* 30 seconds without a renewal
LeaseExpires(r) ==
  /\ receipt[r].held
  /\ receipt' = [receipt EXCEPT ![r].held = FALSE]
  /\ UNCHANGED <<bound, retired, deleted, session, journal, exec, stop, crashes>>

\* refreshActiveSenderForSession(): a project tool called by the agent whose
\* turn is still the one being sent
ToolCall(r) ==
  /\ receipt[r].status = "sending"
  /\ receipt[r].sender # None
  /\ receipt[r].claim = receipt[r].sender
  /\ ~receipt[r].held
  /\ \E i \in DOMAIN journal : /\ journal[i].state = "running"
                               /\ journal[i].session = receipt[r].session
  /\ receipt' = [receipt EXCEPT ![r].held = TRUE]
  /\ UNCHANGED <<bound, retired, deleted, session, journal, exec, stop, crashes>>

\* recoverMissingPreparation(): an operator declares the lookup failure harmless
RecoverPreparation(r) ==
  /\ bound # None
  /\ receipt[r].status = "preparing"
  /\ receipt[r].missing
  /\ receipt[r].session = None
  /\ receipt[r].mark = None
  /\ receipt[r].claim = None
  /\ ~receipt[r].held
  /\ receipt[r].sender = None
  /\ receipt' = [receipt EXCEPT ![r].status = "queued", ![r].missing = FALSE]
  /\ UNCHANGED <<bound, retired, deleted, session, journal, exec, stop, crashes>>

BeginDeletion ==
  /\ "delete" \in Env
  /\ ~deleted
  /\ bound # None
  /\ HeadRow = {}
  /\ deleted' = TRUE
  /\ UNCHANGED <<receipt, bound, retired, session, journal, exec, stop, crashes>>

-----------------------------------------------------------------------------
(* An attempt                                                              *)

Live(h, x) == session[x].state = "live" /\ session[x].host = h
Running(x) == \E i \in DOMAIN journal : journal[i].session = x /\ journal[i].state = "running"

At(h, pc) == exec[h].pc = pc
Goto(h, pc) == exec' = [exec EXCEPT ![h].pc = pc]

Prepared(status) == IF status = "queued" THEN "preparing" ELSE status

\* store.head(): what the attempt does with the receipt depends on its status here
ReadHead(h) ==
  /\ At(h, "idle")
  /\ \E r \in HeadRow :
       exec' = [exec EXCEPT ![h] = [Idle EXCEPT
         !.pc = IF receipt[r].status \in {"sending", "uncertain"} THEN "reclaim" ELSE "claim",
         !.head = r,
         !.rec = receipt[r].status # "queued" /\ receipt[r].session = None]]
  /\ UNCHANGED <<receipt, bound, retired, deleted, session, journal, stop, crashes>>

Claimable(r) == receipt[r].status \in Working \ {"abandoning"} /\ ~receipt[r].held

\* store.claim()
Claim(h) ==
  LET r == exec[h].head IN
  /\ exec[h].pc \in {"claim", "reclaim"}
  /\ Claimable(r)
  /\ receipt' = [receipt EXCEPT ![r] = [@ EXCEPT
       !.status = Prepared(receipt[r].status),
       !.claim = <<h, "run">>, !.held = TRUE, !.sender = None, !.missing = FALSE]]
  /\ Goto(h, IF At(h, "reclaim") THEN "recover" ELSE "binding")
  /\ UNCHANGED <<bound, retired, deleted, session, journal, stop, crashes>>

\* a call that cannot claim the head returns with blockedBy
ClaimRefused(h) ==
  /\ exec[h].pc \in {"claim", "reclaim"}
  /\ ~Claimable(exec[h].head)
  /\ exec' = [exec EXCEPT ![h] = Idle]
  /\ UNCHANGED <<receipt, bound, retired, deleted, session, journal, stop, crashes>>

\* store.binding(): prepare() works with the session that is bound now
ReadBinding(h) ==
  /\ At(h, "binding")
  /\ exec' = [exec EXCEPT ![h].pc = "prepare", ![h].x = bound]
  /\ UNCHANGED <<receipt, bound, retired, deleted, session, journal, stop, crashes>>

\* the session to continue in: the bound one or, when a launch may have
\* happened unbound, the only dedicated session on record
Candidates(h) ==
  IF exec[h].x # None THEN {exec[h].x}
  ELSE IF ~exec[h].rec THEN {}
  ELSE LET recorded == {x \in Sessions : session[x].recorded}
       IN IF Cardinality(recorded) = 1 THEN recorded ELSE {}

Children(x) == {y \in Sessions : session[y].recorded /\ session[y].parent = x}

Reuse(h) ==
  /\ At(h, "prepare")
  /\ \E x \in Candidates(h) :
       \/ /\ Live(h, x)
          /\ exec' = [exec EXCEPT ![h].pc = "bind", ![h].x = x]
       \/ /\ ~Live(h, x)
          /\ exec[h].rec
          /\ \E y \in Children(x) : /\ Children(x) = {y}
                                    /\ Live(h, y)
                                    /\ exec' = [exec EXCEPT ![h].pc = "bind", ![h].x = y]
  /\ UNCHANGED <<receipt, bound, retired, deleted, session, journal, stop, crashes>>

\* a session resumed from another continues its native conversation
NativeFor(h, y) == IF exec[h].x = None THEN y ELSE session[exec[h].x].native

\* createSession() is awaited: the session runs before the attempt hears of it
Launch(h) ==
  /\ At(h, "prepare")
  /\ ~exec[h].rec
  /\ \A x \in Candidates(h) : ~Live(h, x)
  /\ \E y \in Sessions :
       /\ session[y].state = "none"
       /\ session' = [session EXCEPT ![y] = [state |-> "live", host |-> h, parent |-> exec[h].x,
                                             native |-> NativeFor(h, y), recorded |-> FALSE]]
       /\ exec' = [exec EXCEPT ![h].pc = "launch", ![h].x = y]
  /\ UNCHANGED <<receipt, bound, retired, deleted, journal, stop, crashes>>

\* record(): a row of the message store, whatever became of the process
Record(h) ==
  /\ At(h, "launch")
  /\ session' = [session EXCEPT ![exec[h].x].recorded = TRUE]
  /\ Goto(h, "bind")
  /\ UNCHANGED <<receipt, bound, retired, deleted, journal, stop, crashes>>

\* seeded fault: a bind that looks at the status alone
BindUnclaimed(h) ==
  LET r == exec[h].head IN
  /\ At(h, "bind")
  /\ receipt[r].status = "preparing"
  /\ bound' = exec[h].x
  /\ receipt' = [receipt EXCEPT ![r].session = exec[h].x]
  /\ Goto(h, "ready")
  /\ UNCHANGED <<retired, deleted, session, journal, stop, crashes>>

Bind(h) ==
  LET r == exec[h].head IN
  /\ At(h, "bind")
  /\ Mine(h, "run", r)
  /\ receipt[r].status = "preparing"
  /\ bound' = exec[h].x
  /\ receipt' = [receipt EXCEPT ![r].session = exec[h].x]
  /\ Goto(h, "ready")
  /\ UNCHANGED <<retired, deleted, session, journal, stop, crashes>>

\* ready() and checkpoint(): the adapter is idle, the transcript is counted
Ready(h) ==
  /\ At(h, "ready")
  /\ Live(h, exec[h].x)
  /\ ~Running(exec[h].x)
  /\ exec' = [exec EXCEPT ![h].pc = "mark", ![h].mark = Len(journal)]
  /\ UNCHANGED <<receipt, bound, retired, deleted, session, journal, stop, crashes>>

\* renew() and sending()
MarkSending(h) ==
  LET r == exec[h].head IN
  /\ At(h, "mark")
  /\ Mine(h, "run", r)
  /\ receipt[r].status = "preparing"
  /\ receipt' = [receipt EXCEPT ![r] = [@ EXCEPT !.status = "sending", !.mark = exec[h].mark,
                                                 !.sender = <<h, "run">>, !.held = TRUE]]
  /\ Goto(h, "submit")
  /\ UNCHANGED <<bound, retired, deleted, session, journal, stop, crashes>>

\* sendCompletedMessage() through the adapter the manager still has
Submit(h) ==
  /\ At(h, "submit")
  /\ Live(h, exec[h].x)
  /\ ~Running(exec[h].x)
  /\ journal' = Append(journal, [turn |-> exec[h].head, session |-> exec[h].x, state |-> "running"])
  /\ exec' = [exec EXCEPT ![h].pc = "sent", ![h].entry = Len(journal) + 1]
  /\ UNCHANGED <<receipt, bound, retired, deleted, session, stop, crashes>>

\* seeded fault: a completion written for a row that is still unfinished,
\* whoever has claimed it since
CompleteUnclaimed(h, i) ==
  LET r == exec[h].head IN
  /\ receipt' = [receipt EXCEPT ![r] =
       IF receipt[r].status # "completed"
       THEN [Released(@) EXCEPT !.status = "completed", !.reply = i]
       ELSE @]
  /\ exec' = [exec EXCEPT ![h] = Idle]
  /\ UNCHANGED <<bound, retired, deleted, session, journal, stop, crashes>>

\* complete(): a claim that was replaced cannot write, and ends in uncertain()
Complete(h, i) ==
  LET r == exec[h].head IN
  /\ receipt' = [receipt EXCEPT ![r] =
       IF Mine(h, "run", r) /\ receipt[r].status \in {"sending", "uncertain"}
       THEN [Released(@) EXCEPT !.status = "completed", !.reply = i]
       ELSE Uncertain(h, "run", r)]
  /\ exec' = [exec EXCEPT ![h] = Idle]
  /\ UNCHANGED <<bound, retired, deleted, session, journal, stop, crashes>>

\* the native completion of this host's own submission
TurnCompleted(h) ==
  /\ At(h, "sent")
  /\ journal[exec[h].entry].state = "done"
  /\ Complete(h, exec[h].entry)

\* seeded fault: the first turn with this prompt is taken, saved boundary or not
EvidenceOf(r) ==
  {i \in DOMAIN journal : /\ Text[journal[i].turn] = Text[r]
                          /\ \A j \in 1 .. i - 1 : Text[journal[j].turn] # Text[r]}

\* the first prompt after the saved boundary, if it is this one
Evidence(r) ==
  {i \in DOMAIN journal : i = receipt[r].mark + 1 /\ Text[journal[i].turn] = Text[r]}

\* recover(): a delivery still active in this host refuses.  Session and mark of
\* the head it was given cannot have changed since: only a receipt that is still
\* being prepared gets others.
RecoverFromTranscript(h) ==
  LET r == exec[h].head IN
  /\ At(h, "recover")
  /\ receipt[r].session # None
  /\ receipt[r].mark # None
  /\ ~(Live(h, receipt[r].session) /\ Running(receipt[r].session))
  /\ \E i \in Evidence(r) : journal[i].state = "done" /\ Complete(h, i)

\* any step of an attempt throws, its timeouts and its failed checks included
Fails(h) ==
  LET r == exec[h].head IN
  /\ Claimed(h)
  /\ receipt' = [receipt EXCEPT ![r] = Uncertain(h, "run", r)]
  /\ exec' = [exec EXCEPT ![h] = Idle]
  /\ UNCHANGED <<bound, retired, deleted, session, journal, stop, crashes>>

\* the bound session is in no store: the failure an operator may declare harmless
BoundSessionMissing(h) ==
  LET r == exec[h].head IN
  /\ "missing" \in Env
  /\ At(h, "prepare")
  /\ exec[h].x # None
  /\ ~Live(h, exec[h].x)
  /\ receipt' = [receipt EXCEPT ![r] =
       [Uncertain(h, "run", r) EXCEPT !.missing = IF Mine(h, "run", r) THEN TRUE ELSE @]]
  /\ exec' = [exec EXCEPT ![h] = Idle]
  /\ UNCHANGED <<bound, retired, deleted, session, journal, stop, crashes>>

-----------------------------------------------------------------------------
(* Abandonment                                                             *)

\* claimAbandonment() revokes the claim of a running attempt; the sessions to
\* stop are those known at that moment
AbandonBegins(h) ==
  /\ "abandon" \in Env
  /\ stop[h] = NoStop
  /\ \E r \in HeadRow :
       /\ receipt[r].session # None
       /\ receipt[r].status # "queued"
       /\ ~(receipt[r].status = "abandoning" /\ receipt[r].held)
       /\ receipt' = [receipt EXCEPT ![r] = [@ EXCEPT
            !.status = "abandoning", !.claim = <<h, "stop">>, !.held = TRUE, !.sender = None]]
       /\ stop' = [stop EXCEPT ![h] = [head |-> r, left |-> {x \in Sessions : Live(h, x)}]]
  /\ retired' = TRUE
  /\ UNCHANGED <<bound, deleted, session, journal, exec, crashes>>

\* the turns a stopped session was running end without a completion
Interrupted(stopped) ==
  [i \in DOMAIN journal |->
     IF journal[i].session \in stopped /\ journal[i].state = "running"
     THEN [journal[i] EXCEPT !.state = "failed"] ELSE journal[i]]

StopSession(h) ==
  /\ \E x \in stop[h].left :
       /\ Live(h, x)
       /\ session' = [session EXCEPT ![x].state = "stopped", ![x].recorded = TRUE]
       /\ journal' = Interrupted({x})
  /\ UNCHANGED <<receipt, bound, retired, deleted, exec, stop, crashes>>

StopFails(h) ==
  LET r == stop[h].head IN
  /\ r # None
  /\ receipt' = [receipt EXCEPT ![r] = Uncertain(h, "stop", r)]
  /\ stop' = [stop EXCEPT ![h] = NoStop]
  /\ UNCHANGED <<bound, retired, deleted, session, journal, exec, crashes>>

Abandon(h) ==
  LET r == stop[h].head IN
  /\ receipt' =
       IF Mine(h, "stop", r) /\ receipt[r].status = "abandoning"
       THEN [o \in Receipts |-> IF receipt[o].status \in Working
                                THEN [Released(receipt[o]) EXCEPT !.status = "abandoned"]
                                ELSE receipt[o]]
       ELSE [receipt EXCEPT ![r] = Uncertain(h, "stop", r)]
  /\ stop' = [stop EXCEPT ![h] = NoStop]
  /\ UNCHANGED <<bound, retired, deleted, session, journal, exec, crashes>>

\* seeded fault: a session that could not be stopped is passed over
AbandonUnconfirmed(h) ==
  /\ stop[h].head # None
  /\ Abandon(h)

\* every stop was confirmed
AbandonCommits(h) ==
  /\ stop[h].head # None
  /\ \A x \in stop[h].left : ~Live(h, x)
  /\ Abandon(h)

-----------------------------------------------------------------------------
(* What happens around them                                                *)

TurnEnds ==
  /\ \E i \in DOMAIN journal :
       /\ journal[i].state = "running"
       /\ \E end \in {"done", "failed"} : journal' = [journal EXCEPT ![i].state = end]
  /\ UNCHANGED <<receipt, bound, retired, deleted, session, exec, stop, crashes>>

\* a session is stopped by its operator, by a scope upgrade, or by itself
SessionStops ==
  /\ "stop" \in Env
  /\ \E x \in Sessions :
       /\ session[x].state = "live"
       /\ session' = [session EXCEPT ![x].state = "stopped"]
       /\ journal' = Interrupted({x})
  /\ UNCHANGED <<receipt, bound, retired, deleted, exec, stop, crashes>>

\* a turn whose host died may still reach its end in the transcript; losing a
\* host that is at no work is SessionStops
Crash(h) ==
  /\ crashes < MaxCrashes
  /\ exec[h] # Idle \/ stop[h] # NoStop
  /\ session' = [x \in Sessions |-> IF Live(h, x) THEN [session[x] EXCEPT !.state = "stopped"]
                                    ELSE session[x]]
  /\ exec' = [exec EXCEPT ![h] = Idle]
  /\ stop' = [stop EXCEPT ![h] = NoStop]
  /\ crashes' = crashes + 1
  /\ UNCHANGED <<receipt, bound, retired, deleted, journal>>

Next ==
  \/ \E r \in Receipts : \/ Enqueue(r) \/ Renew(r) \/ LeaseExpires(r)
                         \/ ToolCall(r) \/ RecoverPreparation(r)
  \/ \E h \in Hosts : \/ ReadHead(h) \/ Claim(h) \/ ClaimRefused(h) \/ ReadBinding(h)
                      \/ Reuse(h) \/ Launch(h) \/ Record(h) \/ Bind(h)
                      \/ Ready(h) \/ MarkSending(h) \/ Submit(h) \/ TurnCompleted(h)
                      \/ RecoverFromTranscript(h) \/ Fails(h) \/ BoundSessionMissing(h)
                      \/ AbandonBegins(h) \/ StopSession(h) \/ StopFails(h)
                      \/ AbandonCommits(h) \/ Crash(h)
  \/ BeginDeletion
  \/ TurnEnds
  \/ SessionStops

Spec == Init /\ [][Next]_vars

-----------------------------------------------------------------------------
(* Properties                                                              *)

\* What the conversation promises, whoever executes: enqueue order is the
\* order in which prompts reach the agent, a prompt reaches it at most once
\* (sending() before send, recovery in place of a second send), the next only
\* after the previous answer, and an answer is that of the receipt's own
\* prompt though another prompt may be identical (executeCompletedTurn,
\* NativeTurnBoundary, complete(), abandon()).
Conversation == INSTANCE TurnConversation WITH
  Turns <- Receipts,
  accepted <- [n \in 1 .. Cardinality(Accepted) |-> CHOOSE r \in Receipts : receipt[r].seq = n],
  asked <- [i \in DOMAIN journal |-> journal[i].turn],
  answer <- [r \in Receipts |-> receipt[r].reply],
  cancelled <- {r \in Receipts : receipt[r].status = "abandoned"}
KeepsConversation == Conversation!Spec

\* Every prompt of the conversation is asked in the native conversation that its
\* binding leads to, though an attempt whose claim lapsed may have launched, or
\* resumed, a session of its own meanwhile (bind() against prepare()).
OneNativeConversation ==
  \A i \in DOMAIN journal :
    bound # None /\ session[journal[i].session].native = session[bound].native

\* docs/completed-native-turns.md: "no new launch occurs merely because a lease
\* expired".  Two sessions of the conversation are then never both its first.
OneFirstLaunch ==
  Cardinality({x \in Sessions : session[x].state # "none" /\ session[x].parent = None}) <= 1

\* An abandonment is recorded only when no turn is running in a session of the
\* process that carried it out: its receipt says writerStopped (abandon()).
AbandonedWriterIsStopped ==
  [][\A h \in Hosts : stop[h].head # None /\ stop'[h].head = None
        /\ (\E r \in Receipts : receipt[r].status # "abandoned" /\ receipt'[r].status = "abandoned")
        => \A x \in Sessions : Live(h, x) => ~Running(x)]_vars

\* A deleted conversation has no turn outstanding and never gets one again
\* (beginDeletion() against enqueue(), claim() and the recovery of a head).
DeletedIsSettled ==
  deleted => \A r \in Receipts : receipt[r].status \in {"absent", "completed", "abandoned"}
=============================================================================

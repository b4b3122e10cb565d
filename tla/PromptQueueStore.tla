--------------------------- MODULE PromptQueueStore ---------------------------
(***************************************************************************)
(* The durable prompt queue of an agent session: the prompt_queue table    *)
(* and every statement storage/prompt-queue-store.ts runs on it.           *)
(*                                                                         *)
(* Each operator below is one committed SQLite statement or transaction,   *)
(* written as a relation between row and row'.  A statement whose WHERE    *)
(* clause may match nothing is the pair of a state predicate (does it      *)
(* match) and the effect (what it writes), because the callers tell the    *)
(* two apart.  reorderQueue is a commit of its own wherever the code runs  *)
(* it outside the transaction that made the gap.                           *)
(*                                                                         *)
(* A prompt is named by its UUID.  Its text is not modelled: the counter   *)
(* revision stands for which text the row holds.                           *)
(***************************************************************************)
EXTENDS Naturals, FiniteSets

CONSTANTS Prompts,    \* prompt ids that may ever be inserted
          Sessions,   \* session ids
          Tokens,     \* claim tokens (fresh UUIDs)
          Keys,       \* dedupe keys
          MaxQueue,   \* addPrompt's limit on active rows, 21 in the code
          None        \* SQL NULL

ASSUME StoreAssumption ==
  /\ IsFiniteSet(Prompts)
  /\ MaxQueue \in Nat
  /\ None \notin Prompts \cup Sessions \cup Tokens \cup Keys

VARIABLE row   \* the prompt_queue table, one record per prompt id

-----------------------------------------------------------------------------
ActiveStates   == {"pending", "claimed"}
TerminalStates == {"dispatched", "handled", "superseded"}

\* "absent": never inserted.  "deleted": the row was removed; ids are not reused.
RowStates == ActiveStates \cup TerminalStates \cup {"absent", "deleted"}
DeliveryStates == {"none", "unsent", "uncertain", "rejected", "accepted"}

Row == [state    : RowStates,
        session  : Sessions \cup {None},
        order    : Nat,
        rowid    : Nat,
        revision : Nat,
        key      : Keys \cup {None},
        token    : Tokens \cup {None},
        delivery : DeliveryStates]

Empty(state) == [state |-> state, session |-> None, order |-> 0, rowid |-> 0,
                 revision |-> 0, key |-> None, token |-> None, delivery |-> "none"]

StoreTypeOK == row \in [Prompts -> Row]
StoreInit   == row = [p \in Prompts |-> Empty("absent")]

\* getSessionQueue: the rows of a session that are still in its queue.
Active(s) == {p \in Prompts : row[p].session = s /\ row[p].state \in ActiveStates}

\* ORDER BY queue_order; the index on (session_id, queue_order) breaks ties by rowid.
Before(p, q) ==
  \/ row[p].order < row[q].order
  \/ row[p].order = row[q].order /\ row[p].rowid < row[q].rowid

\* getNextQueuedPrompt
IsHead(s, p) == p \in Active(s) /\ \A q \in Active(s) \ {p} : Before(p, q)

QueueCount(s) == Cardinality(Active(s))

-----------------------------------------------------------------------------
(* Seeded faults: what the statements below must not become.  No run uses them
   as they stand; the README says which property notices which. *)

\* moving rows whatever keys the replacement queue has
RebindIgnoringKeys(src, dst) ==
  /\ src # dst
  /\ row' = [p \in Prompts |-> IF row[p].session = src THEN [row[p] EXCEPT !.session = dst]
                                                       ELSE row[p]]

\* acknowledging whatever revision the row has by now
AcknowledgeAnyRevision(s, p, revision) ==
  /\ row[p].session = s /\ row[p].state = "pending"
  /\ row' = [row EXCEPT ![p].state = "handled"]

\* claiming the first pending row, claimed rows before it or not
ClaimFirstPending(s, p, t) ==
  /\ p \in Active(s) /\ row[p].state = "pending"
  /\ \A q \in Active(s) \ {p} : row[q].state = "pending" => Before(p, q)
  /\ row' = [row EXCEPT ![p].state = "claimed", ![p].token = t, ![p].delivery = "unsent"]

\* submitting first and recording it afterwards
MarkNothing(p) == row' = row

\* releasing by item id alone
ReleaseByItem(s, p, t, certainty) ==
  row' = [row EXCEPT ![p].state = "pending", ![p].delivery = certainty, ![p].token = None]

\* the bindings of state and delivery_state swapped
ReconcileSwapped(s, p, revision, t, resolution) ==
  /\ row[p].session = s /\ row[p].state = "claimed" /\ row[p].token = t
  /\ row' = [row EXCEPT ![p].state = IF resolution = "accepted" THEN "accepted" ELSE "unsent",
                        ![p].delivery = IF resolution = "accepted" THEN "handled" ELSE "pending"]

\* retiring the queue as it is now instead of the saved snapshot
RetireEverything(s, snapshot) ==
  row' = [p \in Prompts |-> IF p \in Active(s) THEN [row[p] EXCEPT !.state = "superseded"] ELSE row[p]]

\* a rebind that gives claims back
RebindReleasing(src, dst) ==
  /\ src # dst
  /\ row' = [p \in Prompts |->
               IF row[p].session # src THEN row[p]
               ELSE [row[p] EXCEPT !.session = dst,
                                   !.state = IF @ = "claimed" THEN "pending" ELSE @]]

-----------------------------------------------------------------------------
\* addPrompt.  rowid grows with every insertion.
AddPrompt(s, p, k) ==
  /\ row[p].state = "absent"
  /\ QueueCount(s) < MaxQueue
  /\ k # None => \A q \in Active(s) : row[q].key # k
  /\ row' = [row EXCEPT ![p] =
               [state |-> "pending", session |-> s, order |-> QueueCount(s) + 1,
                rowid |-> Cardinality({q \in Prompts : row[q].state # "absent"}) + 1,
                revision |-> 1, key |-> k, token |-> None, delivery |-> "none"]]

\* updatePromptContent
UpdatePromptContent(s, p) ==
  /\ row[p].session = s /\ row[p].state = "pending"
  /\ row' = [row EXCEPT ![p].revision = @ + 1]

\* deletePromptById, its DELETE; the caller still owes reorderQueue.
DeletePromptById(s, p) ==
  /\ row[p].session = s /\ row[p].state = "pending"
  /\ row' = [row EXCEPT ![p] = Empty("deleted")]

\* reorderQueue: number the active rows of s from 1 in their present order.
Renumbered(table, s) ==
  LET active == {p \in Prompts : table[p].session = s /\ table[p].state \in ActiveStates}
      Earlier(q, p) == \/ table[q].order < table[p].order
                       \/ table[q].order = table[p].order /\ table[q].rowid < table[p].rowid
  IN  [p \in Prompts |->
         IF p \in active
           THEN [table[p] EXCEPT !.order = Cardinality({q \in active : Earlier(q, p)}) + 1]
           ELSE table[p]]

ReorderQueue(s) == row' = Renumbered(row, s)

\* acknowledgePrompt and consumePrompt: exact revision, pending only; the
\* renumbering is inside the same immediate transaction.
AcknowledgePrompt(s, p, revision) ==
  /\ row[p].session = s
  /\ row[p].revision = revision
  /\ row[p].state = "pending"
  /\ row' = Renumbered([row EXCEPT ![p].state = "handled"], s)

-----------------------------------------------------------------------------
\* claimNextPrompt: only the head, and only while it is pending.
ClaimNextPrompt(s, p, t) ==
  /\ IsHead(s, p)
  /\ row[p].state = "pending"
  /\ row' = [row EXCEPT ![p].state = "claimed", ![p].token = t, ![p].delivery = "unsent"]

\* WHERE session_id = ? AND id = ? AND claim_token = ? AND state = 'claimed'
HoldsClaim(s, p, t) ==
  row[p].session = s /\ row[p].token = t /\ row[p].state = "claimed"

\* markClaimSending: the durable boundary before anything leaves the process.
MayMarkSending(s, p, t)  == HoldsClaim(s, p, t) /\ row[p].delivery = "unsent"
MarkClaimSending(p)      == row' = [row EXCEPT ![p].delivery = "uncertain"]

\* recordClaimAcceptance
RecordClaimAcceptance(p) == row' = [row EXCEPT ![p].delivery = "accepted"]

\* completeClaim, its UPDATE; the caller still owes reorderQueue.
CompleteClaim(p) ==
  row' = [row EXCEPT ![p].state = "dispatched", ![p].delivery = "accepted"]

\* releaseRejectedClaim: a silent no-op when the claim is no longer held.
ReleaseRejectedClaim(s, p, t, certainty) ==
  row' = IF HoldsClaim(s, p, t)
           THEN [row EXCEPT ![p].state = "pending", ![p].delivery = certainty, ![p].token = None]
           ELSE row

\* reconcileClaim: the operator's decision about one exact unresolved claim.
ReconcileClaim(s, p, revision, t, resolution) ==
  /\ HoldsClaim(s, p, t)
  /\ row[p].revision = revision
  /\ row' = Renumbered(
       [row EXCEPT ![p].state = IF resolution = "accepted" THEN "handled" ELSE "pending",
                   ![p].delivery = IF resolution = "accepted" THEN "accepted" ELSE "unsent",
                   ![p].revision = @ + 1,
                   ![p].token = None], s)

-----------------------------------------------------------------------------
\* captureFreshHumanCutoff: the exact rows, by id and revision.
FreshHumanCutoff(s) == {<<p, row[p].revision>> : p \in Active(s)}

\* retireForFreshHumanTrigger, its transaction; the caller still owes reorderQueue.
\* Claim token and delivery evidence stay on the row.
RetireForFreshHumanTrigger(s, snapshot) ==
  row' = [p \in Prompts |->
            IF p \in Active(s) /\ <<p, row[p].revision>> \in snapshot
              THEN [row[p] EXCEPT !.state = "superseded", !.revision = @ + 1]
              ELSE row[p]]

\* supersedeDedicatedPending: refused while any claim is unresolved.
SupersedeDedicatedPending(s) ==
  /\ \A p \in Active(s) : row[p].state # "claimed"
  /\ Active(s) # {}
  /\ row' = [p \in Prompts |->
               IF p \in Active(s)
                 THEN [row[p] EXCEPT !.state = "superseded", !.revision = @ + 1]
                 ELSE row[p]]

\* rebindSession: every row of the source moves as it is; the unique index on
\* the dedupe keys of active rows makes the whole UPDATE fail on a collision.
RebindSession(src, dst) ==
  /\ src # dst
  /\ \A p \in Active(src), q \in Active(dst) :
       row[p].key # None => row[p].key # row[q].key
  /\ row' = [p \in Prompts |-> IF row[p].session = src THEN [row[p] EXCEPT !.session = dst]
                                                       ELSE row[p]]

\* prunePromptQueueHistory: retention removes terminal rows, never active ones.
PruneHistory(p) ==
  /\ row[p].state \in TerminalStates
  /\ row' = [row EXCEPT ![p] = Empty("deleted")]
=============================================================================

------------------------- MODULE PromptDispatchProofs -------------------------
(***************************************************************************)
(* Theorems about PromptDispatch, for every set of prompts, sessions,      *)
(* tokens, callers and triggers and every bound.                           *)
(***************************************************************************)
EXTENDS PromptDispatch, FiniteSetTheorems, TLAPS

-----------------------------------------------------------------------------
(* Type correctness *)

LEMMA CountType ==
  ASSUME NEW S \in SUBSET Prompts
  PROVE  Cardinality(S) \in Nat
BY StoreAssumption, FS_Subset, FS_CardinalityType

\* reorderQueue writes queue_order and nothing else.
LEMMA RenumberedRow ==
  ASSUME NEW table \in [Prompts -> Row], NEW s
  PROVE  /\ Renumbered(table, s) \in [Prompts -> Row]
         /\ \A p \in Prompts :
              /\ Renumbered(table, s)[p].state = table[p].state
              /\ Renumbered(table, s)[p].session = table[p].session
              /\ Renumbered(table, s)[p].revision = table[p].revision
              /\ Renumbered(table, s)[p].token = table[p].token
              /\ Renumbered(table, s)[p].delivery = table[p].delivery
              /\ Renumbered(table, s)[p].key = table[p].key
              /\ Renumbered(table, s)[p].rowid = table[p].rowid
<1> DEFINE active == {p \in Prompts : table[p].session = s /\ table[p].state \in ActiveStates}
           Earlier(q, p) == \/ table[q].order < table[p].order
                            \/ table[q].order = table[p].order /\ table[q].rowid < table[p].rowid
           rank(p) == Cardinality({q \in active : Earlier(q, p)}) + 1
<1>1. \A p \in Prompts : rank(p) \in Nat
  <2>1. \A p \in Prompts : {q \in active : Earlier(q, p)} \in SUBSET Prompts
    OBVIOUS
  <2>2. \A p \in Prompts : Cardinality({q \in active : Earlier(q, p)}) \in Nat
    BY <2>1, CountType
  <2> HIDE DEF active, Earlier
  <2> QED BY <2>2
<1>2. Renumbered(table, s) =
        [p \in Prompts |-> IF p \in active THEN [table[p] EXCEPT !.order = rank(p)] ELSE table[p]]
  BY DEF Renumbered
<1> HIDE DEF active, Earlier, rank
<1>3. \A p \in Prompts :
        /\ [table[p] EXCEPT !.order = rank(p)] \in Row
        /\ [table[p] EXCEPT !.order = rank(p)].state = table[p].state
        /\ [table[p] EXCEPT !.order = rank(p)].session = table[p].session
        /\ [table[p] EXCEPT !.order = rank(p)].revision = table[p].revision
        /\ [table[p] EXCEPT !.order = rank(p)].token = table[p].token
        /\ [table[p] EXCEPT !.order = rank(p)].delivery = table[p].delivery
        /\ [table[p] EXCEPT !.order = rank(p)].key = table[p].key
        /\ [table[p] EXCEPT !.order = rank(p)].rowid = table[p].rowid
  BY <1>1 DEF Row
<1> QED BY <1>2, <1>3

LEMMA InitType == Init => TypeOK
<1> SUFFICES ASSUME Init PROVE TypeOK
  OBVIOUS
<1> USE DEF Init
<1>1. StoreTypeOK
  <2>1. Empty("absent") \in Row
    BY DEF Empty, Row, RowStates, ActiveStates, TerminalStates, DeliveryStates
  <2> QED BY <2>1 DEF StoreInit, StoreTypeOK
<1>2. Idle \in Call
  BY DEF Idle, Call, Phases, Replies
<1>3. Unminted \in Attempt
  BY DEF Unminted, Attempt, Fates
<1>4. Nothing \in Owed
  BY DEF Nothing, Owed
<1> QED BY <1>1, <1>2, <1>3, <1>4 DEF TypeOK

LEMMA FieldValues ==
  /\ RowStates = {"pending", "claimed", "dispatched", "handled", "superseded", "absent", "deleted"}
  /\ DeliveryStates = {"none", "unsent", "uncertain", "rejected", "accepted"}
BY DEF RowStates, ActiveStates, TerminalStates, DeliveryStates

\* Every statement about one prompt keeps the table well typed.
LEMMA PromptStatementsType ==
  ASSUME StoreTypeOK, NEW s, NEW p \in Prompts
  PROVE  /\ \A k \in Keys \cup {None} : s \in Sessions /\ AddPrompt(s, p, k) => StoreTypeOK'
         /\ UpdatePromptContent(s, p) => StoreTypeOK'
         /\ DeletePromptById(s, p) => StoreTypeOK'
         /\ \A n : AcknowledgePrompt(s, p, n) => StoreTypeOK'
         /\ \A t \in Tokens : ClaimNextPrompt(s, p, t) => StoreTypeOK'
         /\ MarkClaimSending(p) => StoreTypeOK'
         /\ RecordClaimAcceptance(p) => StoreTypeOK'
         /\ CompleteClaim(p) => StoreTypeOK'
         /\ \A t, certainty : certainty \in {"unsent", "rejected"}
              /\ ReleaseRejectedClaim(s, p, t, certainty) => StoreTypeOK'
         /\ \A n, t, resolution : ReconcileClaim(s, p, n, t, resolution) => StoreTypeOK'
         /\ PruneHistory(p) => StoreTypeOK'
<1> USE DEF StoreTypeOK
<1>1. \A q \in Prompts : row[q] \in Row /\ row[q].revision \in Nat /\ row[q].revision + 1 \in Nat
  BY DEF Row
<1>2. Empty("deleted") \in Row
  BY FieldValues DEF Empty, Row
<1>3. ASSUME NEW k \in Keys \cup {None}, s \in Sessions, AddPrompt(s, p, k) PROVE StoreTypeOK'
  <2> DEFINE inserted == {q \in Prompts : row[q].state # "absent"}
  <2>1. QueueCount(s) \in Nat
    BY CountType DEF QueueCount, Active
  <2>2. Cardinality(inserted) \in Nat
    BY CountType
  <2> DEFINE new == [state |-> "pending", session |-> s, order |-> QueueCount(s) + 1,
                     rowid |-> Cardinality(inserted) + 1, revision |-> 1, key |-> k,
                     token |-> None, delivery |-> "none"]
  <2>3. row' = [row EXCEPT ![p] = new]
    BY <1>3 DEF AddPrompt
  <2> HIDE DEF inserted
  <2>4. new \in Row
    BY <2>1, <2>2, <1>3, FieldValues DEF Row
  <2> QED BY <2>3, <2>4
<1>4. ASSUME UpdatePromptContent(s, p) PROVE StoreTypeOK'
  <2>1. row' = [row EXCEPT ![p] = [row[p] EXCEPT !.revision = row[p].revision + 1]]
    BY <1>4 DEF UpdatePromptContent
  <2>2. [row[p] EXCEPT !.revision = row[p].revision + 1] \in Row
    BY <1>1 DEF Row
  <2> QED BY <2>1, <2>2
<1>5. DeletePromptById(s, p) => StoreTypeOK'
  BY <1>2 DEF DeletePromptById
<1>6. ASSUME NEW n, AcknowledgePrompt(s, p, n) PROVE StoreTypeOK'
  <2>1. [row EXCEPT ![p].state = "handled"] \in [Prompts -> Row]
    <3>1. [row[p] EXCEPT !.state = "handled"] \in Row
      BY <1>1, FieldValues DEF Row
    <3> QED BY <3>1
  <2> QED BY <2>1, <1>6, RenumberedRow DEF AcknowledgePrompt
<1>7. ASSUME NEW t \in Tokens, ClaimNextPrompt(s, p, t) PROVE StoreTypeOK'
  <2>1. row' = [row EXCEPT ![p] = [row[p] EXCEPT !.state = "claimed", !.token = t, !.delivery = "unsent"]]
    BY <1>7 DEF ClaimNextPrompt
  <2>2. [row[p] EXCEPT !.state = "claimed", !.token = t, !.delivery = "unsent"] \in Row
    BY <1>1, FieldValues DEF Row
  <2> QED BY <2>1, <2>2
<1>8. ASSUME MarkClaimSending(p) PROVE StoreTypeOK'
  <2>1. [row[p] EXCEPT !.delivery = "uncertain"] \in Row
    BY <1>1, FieldValues DEF Row
  <2> QED BY <2>1, <1>8 DEF MarkClaimSending
<1>9. ASSUME RecordClaimAcceptance(p) PROVE StoreTypeOK'
  <2>1. [row[p] EXCEPT !.delivery = "accepted"] \in Row
    BY <1>1, FieldValues DEF Row
  <2> QED BY <2>1, <1>9 DEF RecordClaimAcceptance
<1>10. ASSUME CompleteClaim(p) PROVE StoreTypeOK'
  <2>1. row' = [row EXCEPT ![p] = [row[p] EXCEPT !.state = "dispatched", !.delivery = "accepted"]]
    BY <1>10 DEF CompleteClaim
  <2>2. [row[p] EXCEPT !.state = "dispatched", !.delivery = "accepted"] \in Row
    BY <1>1, FieldValues DEF Row
  <2> QED BY <2>1, <2>2
<1>11. ASSUME NEW t, NEW certainty \in {"unsent", "rejected"}, ReleaseRejectedClaim(s, p, t, certainty)
       PROVE  StoreTypeOK'
  <2>1. row[p] \in Row /\ "pending" \in RowStates /\ certainty \in DeliveryStates
    BY <1>1, FieldValues
  <2>2. [row[p] EXCEPT !.state = "pending", !.delivery = certainty, !.token = None] \in Row
    BY <2>1 DEF Row
  <2> QED BY <2>2, <1>11 DEF ReleaseRejectedClaim
<1>12. ASSUME NEW n, NEW t, NEW resolution, ReconcileClaim(s, p, n, t, resolution)
       PROVE  StoreTypeOK'
  <2> DEFINE x == IF resolution = "accepted" THEN "handled" ELSE "pending"
             y == IF resolution = "accepted" THEN "accepted" ELSE "unsent"
             new == [row[p] EXCEPT !.state = x, !.delivery = y,
                                   !.revision = row[p].revision + 1, !.token = None]
  <2>1. x \in RowStates /\ y \in DeliveryStates
    BY FieldValues
  <2>2. row' = Renumbered([row EXCEPT ![p] = new], s)
    BY <1>12 DEF ReconcileClaim
  <2>3. new \in Row
    <3> HIDE DEF x, y
    <3> QED BY <2>1, <1>1 DEF Row
  <2> HIDE DEF new
  <2>4. [row EXCEPT ![p] = new] \in [Prompts -> Row]
    BY <2>3
  <2> QED BY <2>2, <2>4, RenumberedRow
<1>13. PruneHistory(p) => StoreTypeOK'
  BY <1>2 DEF PruneHistory
<1> QED BY <1>3, <1>4, <1>5, <1>6, <1>7, <1>8, <1>9, <1>10, <1>11, <1>12, <1>13

\* So does every statement about a whole queue.
LEMMA QueueStatementsType ==
  ASSUME StoreTypeOK, NEW s
  PROVE  /\ ReorderQueue(s) => StoreTypeOK'
         /\ \A snapshot : RetireForFreshHumanTrigger(s, snapshot) => StoreTypeOK'
         /\ SupersedeDedicatedPending(s) => StoreTypeOK'
         /\ \A src : s \in Sessions /\ RebindSession(src, s) => StoreTypeOK'
<1> USE DEF StoreTypeOK
<1>1. \A q \in Prompts : row[q] \in Row /\ row[q].revision + 1 \in Nat
  BY DEF Row
<1> DEFINE gone(q)  == [row[q] EXCEPT !.state = "superseded", !.revision = row[q].revision + 1]
           moved(q) == [row[q] EXCEPT !.session = s]
<1>2. \A q \in Prompts : gone(q) \in Row
  <2>1. "superseded" \in RowStates  BY FieldValues
  <2> QED BY <2>1, <1>1 DEF Row
<1>3. s \in Sessions => \A q \in Prompts : moved(q) \in Row
  BY <1>1 DEF Row
<1>4. ReorderQueue(s) => StoreTypeOK'
  BY RenumberedRow DEF ReorderQueue
<1>5. ASSUME NEW snapshot, RetireForFreshHumanTrigger(s, snapshot) PROVE StoreTypeOK'
  <2>1. row' = [q \in Prompts |-> IF q \in Active(s) /\ <<q, row[q].revision>> \in snapshot
                                   THEN gone(q) ELSE row[q]]
    BY <1>5 DEF RetireForFreshHumanTrigger
  <2> HIDE DEF gone
  <2> QED BY <2>1, <1>1, <1>2
<1>6. ASSUME SupersedeDedicatedPending(s) PROVE StoreTypeOK'
  <2>1. row' = [q \in Prompts |-> IF q \in Active(s) THEN gone(q) ELSE row[q]]
    BY <1>6 DEF SupersedeDedicatedPending
  <2> HIDE DEF gone
  <2> QED BY <2>1, <1>1, <1>2
<1>7. ASSUME NEW src, s \in Sessions, RebindSession(src, s) PROVE StoreTypeOK'
  <2>1. row' = [q \in Prompts |-> IF row[q].session = src THEN moved(q) ELSE row[q]]
    BY <1>7 DEF RebindSession
  <2> HIDE DEF moved
  <2> QED BY <2>1, <1>1, <1>3, <1>7
<1> QED BY <1>4, <1>5, <1>6, <1>7

\* The bookkeeping of an activation.
LEMMA CallMovesType ==
  ASSUME TypeOK, NEW c \in Callers
  PROVE  /\ Leave(c) => call' \in [Callers -> Call] /\ inFlight' \subseteq Sessions
         /\ \A pc \in Phases : Goto(c, pc) => call' \in [Callers -> Call] /\ inFlight' \subseteq Sessions
         /\ \A pc \in Phases, s \in Sessions :
              Enter(c, s, pc) => call' \in [Callers -> Call] /\ inFlight' \subseteq Sessions
<1>1. Idle \in Call
  BY DEF Idle, Call, Phases, Replies
<1>2. call[c] \in Call
  BY DEF TypeOK
<1>3. \A pc \in Phases : [call[c] EXCEPT !.pc = pc] \in Call
  BY <1>2 DEF Call
<1>4. \A pc \in Phases, s \in Sessions : [Idle EXCEPT !.pc = pc, !.session = s] \in Call
  BY <1>1 DEF Call
<1>5. Leave(c) => call' \in [Callers -> Call] /\ inFlight' \subseteq Sessions
  BY <1>1 DEF Leave, TypeOK
<1>6. \A pc \in Phases : Goto(c, pc) => call' \in [Callers -> Call] /\ inFlight' \subseteq Sessions
  BY <1>3 DEF Goto, TypeOK
<1>7. \A pc \in Phases, s \in Sessions :
        Enter(c, s, pc) => call' \in [Callers -> Call] /\ inFlight' \subseteq Sessions
  BY <1>4 DEF Enter, TypeOK
<1> QED BY <1>5, <1>6, <1>7

\* Every step keeps the state well typed.  Where an activation writes a row it is
\* past its claim, so it names a prompt.
LEMMA CallerStepType ==
  ASSUME TypeOK, CallsOK, NEW c \in Callers, CallerStep(c)
  PROVE  TypeOK'
<1> USE DEF TypeOK
<1>1. call[c].pc \in PastClaim => call[c].item \in Prompts /\ call[c].token \in Tokens
  BY DEF CallsOK
<1>2. {"gate", "adapter", "sent", "complete", "sync"} \subseteq PastClaim
  BY DEF PastClaim
<1>3. {"ready", "adapter", "complete", "sent", "sync", "gate"} \subseteq Phases
  BY DEF Phases
<1>4. CASE ProbeReady(c)
  BY <1>3, <1>4, CallMovesType DEF ProbeReady, StoreTypeOK
<1>5. CASE ReadinessFails(c)
  BY <1>5, CallMovesType DEF ReadinessFails, StoreTypeOK
<1>6. ASSUME NEW p \in Prompts, NEW t \in Tokens, Claim(c, p, t) PROVE TypeOK'
  <2>1. StoreTypeOK'
    BY <1>6, PromptStatementsType DEF Claim
  <2>2. [call[c] EXCEPT !.pc = "gate", !.item = p, !.token = t] \in Call
    BY <1>3 DEF Call
  <2>3. [attempt[t] EXCEPT !.item = p, !.fate = "minted"] \in Attempt
    BY DEF Attempt, Fates
  <2>4. /\ call' = [call EXCEPT ![c] = [call[c] EXCEPT !.pc = "gate", !.item = p, !.token = t]]
        /\ attempt' = [attempt EXCEPT ![t] = [attempt[t] EXCEPT !.item = p, !.fate = "minted"]]
        /\ UNCHANGED <<inFlight, request, owed, cut, retired, draining, live, crashes>>
    BY <1>6 DEF Claim
  <2> QED BY <2>1, <2>2, <2>3, <2>4
<1>7. CASE NothingToClaim(c)
  BY <1>7, CallMovesType DEF NothingToClaim, StoreTypeOK
<1>8. CASE PassGate(c)
  BY <1>3, <1>8, CallMovesType DEF PassGate, StoreTypeOK
<1>9. CASE RefusedAtGate(c)
  <2>1. StoreTypeOK'
    BY <1>1, <1>2, <1>9, PromptStatementsType DEF RefusedAtGate
  <2> QED BY <2>1, <1>9, CallMovesType DEF RefusedAtGate
<1>10. CASE AdapterFails(c)
  <2>1. StoreTypeOK'
    BY <1>1, <1>2, <1>10, PromptStatementsType DEF AdapterFails
  <2> QED BY <2>1, <1>10, CallMovesType DEF AdapterFails
<1>11. CASE Send(c)
  <2>1. StoreTypeOK'
    BY <1>1, <1>2, <1>11, PromptStatementsType DEF Send
  <2>2. [attempt[call[c].token] EXCEPT !.fate = "wire"] \in Attempt
    BY <1>1, <1>2, <1>11 DEF Attempt, Fates, Send
  <2>3. attempt' \in [Tokens -> Attempt]
    BY <2>2, <1>11 DEF Send
  <2>4. [call[c] EXCEPT !.pc = "sent", !.reply = "none"] \in Call
    BY <1>3 DEF Call, Replies
  <2>5. call' \in [Callers -> Call]
    BY <2>4, <1>11 DEF Send
  <2> QED BY <2>1, <2>3, <2>5, <1>11 DEF Send
<1>12. CASE SendRefused(c)
  <2>1. StoreTypeOK'
    BY <1>1, <1>2, <1>12, PromptStatementsType DEF SendRefused
  <2> QED BY <2>1, <1>12, CallMovesType DEF SendRefused
<1>13. CASE Accepted(c)
  <2>1. StoreTypeOK'
    BY <1>1, <1>2, <1>13, PromptStatementsType DEF Accepted, StoreTypeOK
  <2> QED BY <2>1, <1>3, <1>13, CallMovesType DEF Accepted
<1>14. CASE Complete(c)
  <2>1. StoreTypeOK'
    BY <1>1, <1>2, <1>14, PromptStatementsType DEF Complete, StoreTypeOK
  <2>2. owed' \in Owed
    BY <1>14 DEF Complete, Reorder, Owed, Call
  <2> QED BY <2>1, <2>2, <1>3, <1>14, CallMovesType DEF Complete
<1>15. CASE Finish(c)
  BY <1>15, CallMovesType DEF Finish, StoreTypeOK
<1>16. CASE Rejected(c)
  <2>1. StoreTypeOK'
    BY <1>1, <1>2, <1>16, PromptStatementsType DEF Rejected
  <2> QED BY <2>1, <1>16, CallMovesType DEF Rejected
<1>17. CASE Uncertain(c)
  BY <1>17, CallMovesType DEF Uncertain, StoreTypeOK
<1> QED
  BY <1>4, <1>5, <1>6, <1>7, <1>8, <1>9, <1>10, <1>11, <1>12, <1>13, <1>14, <1>15, <1>16, <1>17
     DEF CallerStep

LEMMA AnswerType ==
  ASSUME TypeOK, NEW t \in Tokens, NEW fate \in Fates, NEW reply \in Replies, Answer(t, fate, reply)
  PROVE  TypeOK'
<1>1. [attempt[t] EXCEPT !.fate = fate] \in Attempt
  BY DEF TypeOK, Attempt
<1>2. \A c \in Callers : [call[c] EXCEPT !.reply = reply] \in Call
  BY DEF TypeOK, Call
<1>3. attempt' \in [Tokens -> Attempt] /\ call' \in [Callers -> Call]
  BY <1>1, <1>2 DEF TypeOK, Answer
<1> QED BY <1>3 DEF Answer, TypeOK, StoreTypeOK

LEMMA RouteStepType ==
  ASSUME TypeOK, RowsOK, RouteStep
  PROVE  TypeOK'
<1> USE DEF TypeOK, proc
<1>1. ASSUME NEW s \in Sessions, NEW p \in Prompts, NEW k \in Keys \cup {None}, OwnerAdds(s, p, k)
      PROVE  TypeOK'
  BY <1>1, PromptStatementsType DEF OwnerAdds
<1>2. ASSUME NEW s \in Sessions, NEW p \in Prompts, OwnerEdits(s, p) PROVE TypeOK'
  BY <1>2, PromptStatementsType DEF OwnerEdits
<1>3. ASSUME NEW s \in Sessions, NEW p \in Prompts, OwnerDeletes(s, p) PROVE TypeOK'
  <2>1. owed' \in Owed
    BY <1>3 DEF OwnerDeletes, Reorder, Owed
  <2> QED BY <2>1, <1>3, PromptStatementsType DEF OwnerDeletes
<1>4. ASSUME NEW s \in Sessions, NEW p \in Prompts, NEW kind \in {"acknowledge", "accepted", "retry"},
             ListQueue(s, p, kind)
      PROVE  TypeOK'
  <2>1. row[p].revision \in Nat /\ row[p].token \in Tokens \cup {None}
    BY DEF StoreTypeOK, Row
  <2>2. request' \in Request
    BY <2>1, <1>4 DEF ListQueue, Request
  <2> QED BY <2>2, <1>4 DEF ListQueue, StoreTypeOK
<1>5. CASE PostRequest
  <2>1. request' \in Request \cup {None}
    BY <1>5 DEF PostRequest, Request
  <2> QED BY <2>1, <1>5 DEF PostRequest, StoreTypeOK
<1>6. CASE ServeAcknowledge
  <2>1. request.item \in Prompts
    BY <1>6 DEF ServeAcknowledge, Request
  <2> QED BY <2>1, <1>6, PromptStatementsType DEF ServeAcknowledge
<1>7. CASE ServeReconcile
  <2>1. request.item \in Prompts /\ HoldsClaim(request.session, request.item, request.token)
    BY <1>7 DEF ServeReconcile, ReconcileClaim, Request
  <2>2. request.token \in Tokens
    BY <2>1 DEF RowsOK, HoldsClaim
  <2>3. [attempt[request.token] EXCEPT !.retried = @ \/ request.kind = "retry"] \in Attempt
    BY <2>2 DEF Attempt
  <2>4. attempt' \in [Tokens -> Attempt]
    BY <2>3, <1>7 DEF ServeReconcile
  <2> QED BY <2>1, <2>4, <1>7, PromptStatementsType DEF ServeReconcile
<1>8. CASE DropRequest
  BY <1>8 DEF DropRequest, StoreTypeOK
<1> QED BY <1>1, <1>2, <1>3, <1>4, <1>5, <1>6, <1>7, <1>8 DEF RouteStep

LEMMA OtherStepsType ==
  ASSUME TypeOK
  PROVE  /\ \A c \in Callers, s \in Sessions : AutoBegin(c, s) \/ ManualBegin(c, s) => TypeOK'
         /\ BoundaryStep => TypeOK'
         /\ HousekeepingStep => TypeOK'
<1> USE DEF TypeOK, proc
<1>1. ASSUME NEW c \in Callers, NEW s \in Sessions, AutoBegin(c, s) \/ ManualBegin(c, s) PROVE TypeOK'
  <2>1. {"probe", "ready"} \subseteq Phases
    BY DEF Phases
  <2> QED BY <2>1, <1>1, CallMovesType DEF AutoBegin, ManualBegin, StoreTypeOK
<1>2. ASSUME BoundaryStep PROVE TypeOK'
  <2>1. ASSUME NEW g \in Triggers, NEW s \in Sessions, CaptureBoundary(g, s) PROVE TypeOK'
    <3>1. FreshHumanCutoff(s) \in SUBSET (Prompts \X Nat)
      BY DEF FreshHumanCutoff, Active, StoreTypeOK, Row
    <3>2. [session |-> s, rows |-> FreshHumanCutoff(s)] \in Cut
      BY <3>1 DEF Cut
    <3>3. owed' \in Owed
      BY <2>1 DEF CaptureBoundary, Owed
    <3> QED BY <3>2, <3>3, <2>1 DEF CaptureBoundary, StoreTypeOK
  <2>2. ASSUME NEW g \in Triggers, RetryBoundary(g) PROVE TypeOK'
    <3>1. owed' \in Owed
      BY <2>2 DEF RetryBoundary, Retire, Owed, Cut
    <3> QED BY <3>1, <2>2 DEF RetryBoundary, StoreTypeOK
  <2>3. CASE RunRetire
    <3>1. StoreTypeOK'
      BY <2>3, QueueStatementsType DEF RunRetire, StoreTypeOK
    <3>2. owed' \in Owed
      BY <2>3 DEF RunRetire, Reorder, Owed, Nothing
    <3>3. owed.trigger \in Triggers
      BY <2>3 DEF RunRetire, Owed, Nothing, Reorder
    <3> QED BY <3>1, <3>2, <3>3, <2>3 DEF RunRetire
  <2>4. CASE RunReorder
    <3>1. Nothing \in Owed
      BY DEF Nothing, Owed
    <3> QED BY <3>1, <2>4, QueueStatementsType DEF RunReorder
  <2> QED BY <2>1, <2>2, <2>3, <2>4, <1>2 DEF BoundaryStep
<1>3. ASSUME HousekeepingStep PROVE TypeOK'
  <2>1. ASSUME NEW s \in Sessions, DedicatedRecovery(s) PROVE TypeOK'
    BY <2>1, QueueStatementsType DEF DedicatedRecovery
  <2>2. ASSUME NEW s \in Sessions, SessionStops(s) \/ SessionStarts(s) PROVE TypeOK'
    BY <2>2 DEF SessionStops, SessionStarts, StoreTypeOK
  <2>3. ASSUME NEW p \in Prompts, Retention(p) PROVE TypeOK'
    BY <2>3, PromptStatementsType DEF Retention
  <2>4. CASE SetDrain
    BY <2>4 DEF SetDrain, StoreTypeOK
  <2>5. ASSUME NEW pair \in Rebinds, Rebind(pair[1], pair[2]) PROVE TypeOK'
    <3>1. pair[2] \in Sessions
      BY DispatchAssumption
    <3> QED BY <3>1, <2>5, QueueStatementsType DEF Rebind
  <2>6. CASE Crash
    <3>1. Idle \in Call /\ Nothing \in Owed
      BY DEF Idle, Call, Phases, Replies, Nothing, Owed
    <3>2. call' \in [Callers -> Call] /\ owed' \in Owed /\ request' \in Request \cup {None}
      BY <3>1, <2>6 DEF Crash
    <3>3. draining' = FALSE /\ inFlight' = {} /\ crashes' = crashes + 1
      BY <2>6 DEF Crash
    <3>4. crashes' \in Nat
      BY <3>3
    <3>5. UNCHANGED <<row, attempt, cut, retired, live>>
      BY <2>6 DEF Crash
    <3>6. StoreTypeOK' /\ cut' = cut /\ attempt' = attempt /\ live' = live /\ retired' = retired
      BY <3>5 DEF StoreTypeOK
    <3> QED BY <3>2, <3>3, <3>4, <3>6
  <2> QED BY <2>1, <2>2, <2>3, <2>4, <2>5, <2>6, <1>3 DEF HousekeepingStep
<1> QED BY <1>1, <1>2, <1>3

-----------------------------------------------------------------------------
(* The delivery invariant *)

\* Most steps are quiet.  They leave the claim and the evidence of each row alone,
\* or take the row out of the queue for good, or insert it; ...
QuietRows ==
  \A p \in Prompts :
    \/ /\ row'[p].state = row[p].state
       /\ row'[p].token = row[p].token
       /\ row'[p].delivery = row[p].delivery
    \/ row'[p].state \in {"handled", "superseded", "deleted"}
    \/ row[p].state = "absent" /\ row'[p].state = "pending"

\* ... and no activation comes to know more than it knew.
QuietCalls ==
  \A c \in Callers : call'[c].pc \in PastClaim =>
    /\ call[c].pc \in PastClaim
    /\ call'[c].item = call[c].item
    /\ call'[c].token = call[c].token
    /\ \/ call'[c].pc = call[c].pc /\ call'[c].reply = call[c].reply
       \/ call[c].pc = "gate" /\ call'[c].pc = "adapter"
       \/ call'[c].pc = "sync"

LEMMA QuietRowsOK ==
  ASSUME TypeOK, LedgerOK, RowsOK, attempt' = attempt, QuietRows
  PROVE  RowsOK'
<1>1. \A p \in Prompts : row'[p].state \in {"claimed", "dispatched"} =>
        row'[p].state = row[p].state /\ row'[p].token = row[p].token /\ row'[p].delivery = row[p].delivery
  BY DEF QuietRows
<1>2. ASSUME NEW t \in Tokens, MayHaveRun(t), ~attempt[t].retried
      PROVE  /\ row'[attempt[t].item].state \notin {"pending", "absent"}
             /\ row'[attempt[t].item].state = "claimed" => row'[attempt[t].item].token = t
  <2> DEFINE p == attempt[t].item
  <2>1. p \in Prompts
    BY <1>2 DEF LedgerOK, MayHaveRun
  <2>2. /\ row[p].state \notin {"pending", "absent"}
        /\ row[p].state = "claimed" => row[p].token = t
    BY <1>2 DEF RowsOK
  <2> HIDE DEF p
  <2>3. /\ row'[p].state \notin {"pending", "absent"}
        /\ row'[p].state = "claimed" => row'[p].token = t
    BY <2>1, <2>2 DEF QuietRows
  <2> QED BY <2>3 DEF p
<1> QED BY <1>1, <1>2 DEF RowsOK, MayHaveRun

LEMMA QuietCallsOK ==
  ASSUME CallsOK, attempt' = attempt, QuietCalls
  PROVE  CallsOK'
<1>1. ASSUME NEW c \in Callers, call'[c].pc \in PastClaim
      PROVE  /\ call'[c].item \in Prompts
             /\ call'[c].token \in Tokens
             /\ attempt[call'[c].token].item = call'[c].item
             /\ call'[c].pc \in {"gate", "adapter"} => attempt[call'[c].token].fate = "minted"
             /\ call'[c].pc = "sent" =>
                  /\ call'[c].reply = "ok" => attempt[call'[c].token].fate = "run"
                  /\ call'[c].reply = "refused" => attempt[call'[c].token].fate = "refused"
             /\ call'[c].pc = "complete" => attempt[call'[c].token].fate = "run"
  <2>1. call[c].pc \in PastClaim /\ call'[c].item = call[c].item /\ call'[c].token = call[c].token
    BY <1>1 DEF QuietCalls
  <2>2. \/ call'[c].pc = call[c].pc /\ call'[c].reply = call[c].reply
        \/ call[c].pc = "gate" /\ call'[c].pc = "adapter"
        \/ call'[c].pc = "sync"
    BY <1>1 DEF QuietCalls
  <2> QED BY <2>1, <2>2 DEF CallsOK
<1>2. \A c, d \in Callers :
        (c # d /\ call'[c].pc \in PastClaim /\ call'[d].pc \in PastClaim)
          => call'[c].token # call'[d].token
  BY DEF QuietCalls, CallsOK
<1> QED BY <1>1, <1>2 DEF CallsOK

LEMMA QuietStep ==
  ASSUME DeliveryInv, TypeOK', attempt' = attempt, QuietRows, QuietCalls
  PROVE  DeliveryInv'
<1>1. RowsOK' /\ CallsOK'
  BY QuietRowsOK, QuietCallsOK DEF DeliveryInv
<1>2. LedgerOK' /\ NoUndecidedReplay'
  BY DEF DeliveryInv, LedgerOK, NoUndecidedReplay, MayHaveRun
<1> QED BY <1>1, <1>2 DEF DeliveryInv

\* Giving a claim back whose submission cannot have run.
LEMMA ReleaseStep ==
  ASSUME DeliveryInv, TypeOK', attempt' = attempt, QuietCalls,
         NEW s, NEW p \in Prompts, NEW t \in Tokens, NEW certainty,
         ReleaseRejectedClaim(s, p, t, certainty),
         ~MayHaveRun(t)
  PROVE  DeliveryInv'
<1>1. CASE ~HoldsClaim(s, p, t)
  <2>1. QuietRows
    BY <1>1 DEF QuietRows, ReleaseRejectedClaim
  <2> QED BY <2>1, QuietStep
<1>2. CASE HoldsClaim(s, p, t)
  <2>1. row[p].state = "claimed" /\ row[p].token = t
    BY <1>2 DEF HoldsClaim
  <2>2. row'[p].state = "pending" /\ \A q \in Prompts \ {p} : row'[q] = row[q]
    BY <1>2 DEF ReleaseRejectedClaim, DeliveryInv, TypeOK, StoreTypeOK, Row
  <2>3. \A u \in Tokens : MayHaveRun(u) /\ ~attempt[u].retried => attempt[u].item # p
    BY <2>1 DEF DeliveryInv, RowsOK
  <2>4. \A u \in Tokens : MayHaveRun(u) => attempt[u].item \in Prompts
    BY DEF DeliveryInv, LedgerOK, MayHaveRun
  <2>5. RowsOK'
    BY <2>2, <2>3, <2>4 DEF DeliveryInv, RowsOK, MayHaveRun
  <2>6. CallsOK'
    BY QuietCallsOK DEF DeliveryInv
  <2>7. LedgerOK' /\ NoUndecidedReplay'
    BY DEF DeliveryInv, LedgerOK, NoUndecidedReplay, MayHaveRun
  <2> QED BY <2>5, <2>6, <2>7 DEF DeliveryInv
<1> QED BY <1>1, <1>2

\* What the phases past the claim are.
LEMMA Phase ==
  /\ \A pc \in {"gate", "adapter", "sent", "complete", "sync"} : pc \in PastClaim
  /\ \A pc \in {"idle", "probe", "ready"} : pc \notin PastClaim
  /\ Idle.pc \notin PastClaim
BY DEF PastClaim, Idle

LEMMA LeaveIsQuiet ==
  ASSUME TypeOK, NEW c \in Callers, Leave(c)
  PROVE  QuietCalls
<1>1. \A d \in Callers : call'[d] = call[d] \/ call'[d] = Idle
  BY DEF TypeOK, Leave
<1> QED BY <1>1, Phase DEF QuietCalls

LEMMA GotoIsQuiet ==
  ASSUME TypeOK, NEW c \in Callers, NEW pc, Goto(c, pc),
         \/ pc \notin PastClaim
         \/ call[c].pc = "gate" /\ pc = "adapter"
         \/ call[c].pc \in PastClaim /\ pc = "sync"
  PROVE  QuietCalls
<1>1. call[c] \in Call
  BY DEF TypeOK
<1>2. /\ call'[c].pc = pc /\ call'[c].item = call[c].item /\ call'[c].token = call[c].token
      /\ \A d \in Callers \ {c} : call'[d] = call[d]
  BY <1>1 DEF TypeOK, Goto, Call
<1> QED BY <1>2, Phase DEF QuietCalls

\* Claiming mints a token no activation and no row has seen.
LEMMA ClaimStep ==
  ASSUME DeliveryInv, TypeOK', NEW c \in Callers, NEW p \in Prompts, NEW t \in Tokens, Claim(c, p, t)
  PROVE  DeliveryInv'
<1> USE DEF DeliveryInv
<1>1. /\ attempt[t].fate = "none" /\ row[p].state = "pending"
      /\ attempt'[t].item = p /\ attempt'[t].fate = "minted"
      /\ \A u \in Tokens \ {t} : attempt'[u] = attempt[u]
  BY DEF Claim, ClaimNextPrompt, TypeOK, Attempt
<1>2. /\ row'[p].state = "claimed" /\ row'[p].token = t /\ row'[p].delivery = "unsent"
      /\ \A q \in Prompts \ {p} : row'[q] = row[q]
  <2>1. row[p] \in Row
    BY DEF TypeOK, StoreTypeOK
  <2> QED BY <2>1 DEF Claim, ClaimNextPrompt, TypeOK, StoreTypeOK, Row
<1>3. /\ call'[c].pc = "gate" /\ call'[c].item = p /\ call'[c].token = t
      /\ \A d \in Callers \ {c} : call'[d] = call[d]
  <2>1. call[c] \in Call
    BY DEF TypeOK
  <2> QED BY <2>1 DEF Claim, TypeOK, Call
<1>4. LedgerOK'
  BY <1>1 DEF LedgerOK
<1>5. \A u \in Tokens : MayHaveRun(u)' => u # t /\ MayHaveRun(u)
  BY <1>1 DEF MayHaveRun
<1>6. \A u \in Tokens : MayHaveRun(u) => attempt[u].item \in Prompts
  BY DEF LedgerOK, MayHaveRun
<1>7. \A q \in Prompts : row[q].state \in {"claimed", "dispatched"} => row[q].token # t
  BY <1>1, StoreAssumption DEF RowsOK, LedgerOK
<1>8. RowsOK'
  BY <1>1, <1>2, <1>5, <1>6, <1>7 DEF RowsOK
<1>9. \A d \in Callers : call[d].pc \in PastClaim => call[d].token # t
  BY <1>1, StoreAssumption DEF CallsOK, LedgerOK
<1>10. CallsOK'
  <2>1. \A d \in Callers \ {c} : call'[d].pc \in PastClaim =>
           call[d].pc \in PastClaim /\ attempt'[call[d].token] = attempt[call[d].token]
    BY <1>1, <1>3, <1>9 DEF CallsOK
  <2>2. \A d \in Callers \ {c} : call'[d].pc \in PastClaim => call'[d].token # call'[c].token
    BY <1>3, <1>9
  <2> QED BY <1>1, <1>3, <2>1, <2>2 DEF CallsOK
<1>11. NoUndecidedReplay'
  BY <1>1, <1>5 DEF NoUndecidedReplay
<1> QED BY <1>4, <1>8, <1>10, <1>11

\* Sending: until then the claim's own token is the only one its prompt has left
\* in play, so recording it as uncertain cannot make a second live submission.
LEMMA SendStep ==
  ASSUME DeliveryInv, TypeOK', NEW c \in Callers, Send(c)
  PROVE  DeliveryInv'
<1> USE DEF DeliveryInv
<1> DEFINE p == call[c].item  t == call[c].token
<1>1. /\ p \in Prompts /\ t \in Tokens /\ attempt[t].item = p /\ attempt[t].fate = "minted"
      /\ call[c].pc = "adapter" /\ call[c].pc \in PastClaim
  BY Phase DEF Send, CallsOK
<1>2. /\ row[p].state = "claimed" /\ row[p].token = t
      /\ row'[p].state = "claimed" /\ row'[p].token = t /\ row'[p].delivery = "uncertain"
      /\ \A q \in Prompts \ {p} : row'[q] = row[q]
  <2>1. row[p] \in Row
    BY <1>1 DEF TypeOK, StoreTypeOK
  <2> QED BY <1>1, <2>1 DEF Send, MayMarkSending, HoldsClaim, MarkClaimSending, TypeOK, StoreTypeOK, Row
<1>3. /\ attempt'[t].item = p /\ attempt'[t].fate = "wire" /\ attempt'[t].retried = attempt[t].retried
      /\ \A u \in Tokens \ {t} : attempt'[u] = attempt[u]
  <2>1. attempt[t] \in Attempt
    BY <1>1 DEF TypeOK
  <2> QED BY <1>1, <2>1 DEF Send, TypeOK, Attempt
<1>4. /\ call'[c].pc = "sent" /\ call'[c].item = p /\ call'[c].token = t
      /\ call'[c].reply = "none"
      /\ \A d \in Callers \ {c} : call'[d] = call[d]
  <2>1. call[c] \in Call
    BY DEF TypeOK
  <2> QED BY <2>1 DEF Send, TypeOK, Call
<1> HIDE DEF p, t
<1>5. LedgerOK'
  BY <1>1, <1>3 DEF LedgerOK
<1>6. \A u \in Tokens \ {t} : attempt[u].item = p => attempt[u].retried \/ ~MayHaveRun(u)
  BY <1>2 DEF RowsOK
<1>7. RowsOK'
  BY <1>1, <1>2, <1>3, <1>6 DEF RowsOK, MayHaveRun, LedgerOK
<1>8. CallsOK'
  <2>1. \A d \in Callers \ {c} : call'[d].pc \in PastClaim =>
           call[d].token # t /\ attempt'[call[d].token] = attempt[call[d].token]
    BY <1>1, <1>3, <1>4 DEF CallsOK, t
  <2> QED BY <1>1, <1>3, <1>4, <2>1 DEF CallsOK
<1>9. NoUndecidedReplay'
  BY <1>1, <1>3, <1>6 DEF NoUndecidedReplay, MayHaveRun
<1> QED BY <1>5, <1>7, <1>8, <1>9

\* The receipt of the one submission: its claim token has run.
LEMMA AcceptedStep ==
  ASSUME DeliveryInv, TypeOK', NEW c \in Callers, Accepted(c)
  PROVE  DeliveryInv'
<1> USE DEF DeliveryInv
<1> DEFINE p == call[c].item  t == call[c].token
<1>1. /\ p \in Prompts /\ t \in Tokens /\ attempt[t].item = p /\ attempt[t].fate = "run"
      /\ call[c].pc \in PastClaim
  BY Phase DEF Accepted, CallsOK
<1>2. attempt' = attempt
  BY DEF Accepted
<1>3. CASE HoldsClaim(call[c].session, p, t)
  <2>1. /\ row[p].state = "claimed" /\ row[p].token = t
        /\ row'[p].state = "claimed" /\ row'[p].token = t /\ row'[p].delivery = "accepted"
        /\ \A q \in Prompts \ {p} : row'[q] = row[q]
    <3>1. row[p] \in Row
      BY <1>1 DEF TypeOK, StoreTypeOK
    <3> QED BY <1>1, <1>3, <3>1 DEF Accepted, HoldsClaim, RecordClaimAcceptance, TypeOK, StoreTypeOK, Row
  <2>2. /\ call'[c].pc = "complete" /\ call'[c].item = p /\ call'[c].token = t
        /\ \A d \in Callers \ {c} : call'[d] = call[d]
    <3>1. call[c] \in Call
      BY DEF TypeOK
    <3> QED BY <1>3, <3>1 DEF Accepted, Goto, TypeOK, Call
  <2> HIDE DEF p, t
  <2>3. LedgerOK' /\ NoUndecidedReplay'
    BY <1>2 DEF LedgerOK, NoUndecidedReplay, MayHaveRun
  <2>4. RowsOK'
    BY <1>1, <1>2, <2>1 DEF RowsOK, MayHaveRun, LedgerOK
  <2>5. CallsOK'
    <3>1. \A d \in Callers \ {c} : call'[d].pc \in PastClaim => call[d].token # t
      BY <1>1, <2>2 DEF CallsOK, t
    <3> QED BY <1>1, <1>2, <2>2, <3>1 DEF CallsOK
  <2> QED BY <2>3, <2>4, <2>5
<1>4. CASE ~HoldsClaim(call[c].session, p, t)
  <2>1. row' = row /\ Leave(c)
    BY <1>4 DEF Accepted
  <2>2. QuietRows /\ QuietCalls
    BY <2>1, LeaveIsQuiet DEF QuietRows
  <2> QED BY <1>2, <2>2, QuietStep
<1> QED BY <1>3, <1>4

LEMMA CompleteStep ==
  ASSUME DeliveryInv, TypeOK', NEW c \in Callers, Complete(c)
  PROVE  DeliveryInv'
<1> USE DEF DeliveryInv
<1> DEFINE p == call[c].item  t == call[c].token
<1>1. /\ p \in Prompts /\ t \in Tokens /\ attempt[t].item = p /\ attempt[t].fate = "run"
      /\ call[c].pc \in PastClaim
  BY Phase DEF Complete, CallsOK
<1>2. attempt' = attempt
  BY DEF Complete
<1>3. QuietCalls
  BY <1>1, LeaveIsQuiet, GotoIsQuiet DEF Complete
<1>4. CASE HoldsClaim(call[c].session, p, t)
  <2>1. /\ row[p].state = "claimed" /\ row[p].token = t
        /\ row'[p].state = "dispatched" /\ row'[p].token = t
        /\ \A q \in Prompts \ {p} : row'[q] = row[q]
    <3>1. row[p] \in Row
      BY <1>1 DEF TypeOK, StoreTypeOK
    <3> QED BY <1>1, <1>4, <3>1 DEF Complete, HoldsClaim, CompleteClaim, TypeOK, StoreTypeOK, Row
  <2> HIDE DEF p, t
  <2>2. RowsOK'
    BY <1>1, <1>2, <2>1 DEF RowsOK, MayHaveRun, LedgerOK
  <2>3. LedgerOK' /\ NoUndecidedReplay'
    BY <1>2 DEF LedgerOK, NoUndecidedReplay, MayHaveRun
  <2>4. CallsOK'
    BY <1>2, <1>3, QuietCallsOK
  <2> QED BY <2>2, <2>3, <2>4
<1>5. CASE ~HoldsClaim(call[c].session, p, t)
  <2>1. QuietRows
    BY <1>5 DEF Complete, QuietRows
  <2> QED BY <1>2, <1>3, <2>1, QuietStep
<1> QED BY <1>4, <1>5

\* The agent's answer decides what became of a token; nobody can have concluded
\* anything from it before.
LEMMA AnswerStep ==
  ASSUME DeliveryInv, TypeOK', NEW t \in Tokens, NEW fate, NEW reply,
         <<fate, reply>> \in {<<"run", "ok">>, <<"run", "error">>, <<"refused", "refused">>,
                              <<"dropped", "error">>},
         Answer(t, fate, reply)
  PROVE  DeliveryInv'
<1> USE DEF DeliveryInv
<1>1. /\ attempt[t].fate = "wire" /\ attempt'[t].fate = fate
      /\ attempt'[t].item = attempt[t].item /\ attempt'[t].retried = attempt[t].retried
      /\ \A u \in Tokens \ {t} : attempt'[u] = attempt[u]
  <2>1. attempt[t] \in Attempt
    BY DEF TypeOK
  <2> QED BY <2>1 DEF Answer, TypeOK, Attempt
<1>2. row' = row
  BY DEF Answer
<1>3. \A c \in Callers :
        /\ call'[c].pc = call[c].pc /\ call'[c].item = call[c].item /\ call'[c].token = call[c].token
        /\ IF call[c].pc = "sent" /\ call[c].token = t THEN call'[c].reply = reply
                                                       ELSE call'[c].reply = call[c].reply
  <2>1. \A c \in Callers : call[c] \in Call
    BY DEF TypeOK
  <2> QED BY <2>1 DEF Answer, Call
<1>4. \A u \in Tokens : MayHaveRun(u)' => MayHaveRun(u)
  BY <1>1 DEF MayHaveRun
<1>5. fate \in {"run", "refused", "dropped"}
  OBVIOUS
<1>6. LedgerOK'
  BY <1>1, <1>5 DEF LedgerOK
<1>7. RowsOK'
  <2>1. \A p \in Prompts : row[p].state = "claimed" =>
          /\ row[p].token \in Tokens
          /\ attempt'[row[p].token].item = p
          /\ row[p].delivery = "unsent" => attempt'[row[p].token].fate = "minted"
          /\ row[p].delivery = "accepted" => attempt'[row[p].token].fate = "run"
    BY <1>1 DEF RowsOK
  <2>2. \A p \in Prompts : row[p].state = "dispatched" =>
          /\ row[p].token \in Tokens
          /\ attempt'[row[p].token].item = p
          /\ attempt'[row[p].token].fate = "run"
    BY <1>1 DEF RowsOK
  <2>3. \A u \in Tokens : (MayHaveRun(u)' /\ ~attempt'[u].retried) =>
          /\ row[attempt'[u].item].state \notin {"pending", "absent"}
          /\ row[attempt'[u].item].state = "claimed" => row[attempt'[u].item].token = u
    BY <1>1, <1>4 DEF RowsOK
  <2> QED BY <1>2, <2>1, <2>2, <2>3 DEF RowsOK
<1>8. CallsOK'
  BY <1>1, <1>3 DEF CallsOK
<1>9. NoUndecidedReplay'
  BY <1>1, <1>4 DEF NoUndecidedReplay
<1> QED BY <1>6, <1>7, <1>8, <1>9

\* The one step that gives a live submission up on purpose.
LEMMA ReconcileStep ==
  ASSUME DeliveryInv, TypeOK', ServeReconcile
  PROVE  DeliveryInv'
<1> USE DEF DeliveryInv
<1> DEFINE p == request.item  t == request.token
<1>1. /\ p \in Prompts /\ t \in Tokens /\ attempt[t].item = p
      /\ row[p].state = "claimed" /\ row[p].token = t
  <2>1. request \in Request
    BY DEF ServeReconcile, TypeOK
  <2>2. p \in Prompts  BY <2>1 DEF Request, ServeReconcile
  <2>3. row[p].state = "claimed" /\ row[p].token = t
    BY DEF ServeReconcile, ReconcileClaim, HoldsClaim
  <2> QED BY <2>2, <2>3 DEF RowsOK
<1>2. /\ row'[p].state = IF request.kind = "accepted" THEN "handled" ELSE "pending"
      /\ \A q \in Prompts \ {p} : /\ row'[q].state = row[q].state
                                  /\ row'[q].token = row[q].token
                                  /\ row'[q].delivery = row[q].delivery
  <2> DEFINE x == IF request.kind = "accepted" THEN "handled" ELSE "pending"
             y == IF request.kind = "accepted" THEN "accepted" ELSE "unsent"
             new == [row[p] EXCEPT !.state = x, !.delivery = y,
                                   !.revision = row[p].revision + 1, !.token = None]
  <2>1. row' = Renumbered([row EXCEPT ![p] = new], request.session)
    BY DEF ServeReconcile, ReconcileClaim
  <2>2. row[p] \in Row
    BY <1>1 DEF TypeOK, StoreTypeOK
  <2>3. x \in RowStates /\ y \in DeliveryStates /\ row[p].revision + 1 \in Nat
    BY <2>2, FieldValues DEF Row
  <2>4. new \in Row /\ new.state = x
    <3> HIDE DEF x, y
    <3> QED BY <2>2, <2>3 DEF Row
  <2> HIDE DEF new, p
  <2>5. [row EXCEPT ![p] = new] \in [Prompts -> Row]
    BY <2>4 DEF TypeOK, StoreTypeOK
  <2> DEFINE table == [row EXCEPT ![p] = new]
  <2>6. table[p].state = x /\ \A q \in Prompts \ {p} : table[q] = row[q]
    BY <1>1, <2>4 DEF TypeOK, StoreTypeOK
  <2> HIDE DEF table, x
  <2>7. row' = Renumbered(table, request.session) /\ table \in [Prompts -> Row]
    BY <2>1, <2>5 DEF table
  <2>8. row'[p].state = x
    BY <1>1, <2>6, <2>7, RenumberedRow
  <2>9. \A q \in Prompts \ {p} : /\ row'[q].state = row[q].state
                                 /\ row'[q].token = row[q].token
                                 /\ row'[q].delivery = row[q].delivery
    BY <2>6, <2>7, RenumberedRow
  <2> QED BY <2>8, <2>9 DEF x
<1>3. /\ attempt'[t].item = p /\ attempt'[t].fate = attempt[t].fate
      /\ request.kind # "accepted" => attempt'[t].retried
      /\ attempt[t].retried => attempt'[t].retried
      /\ \A u \in Tokens \ {t} : attempt'[u] = attempt[u]
  <2>1. request.kind \in {"acknowledge", "accepted", "retry"} /\ request.kind # "acknowledge"
    BY DEF ServeReconcile, TypeOK, Request
  <2>2. attempt[t] \in Attempt
    BY <1>1 DEF TypeOK
  <2> DEFINE r == attempt[t].retried \/ request.kind = "retry"
  <2>3. attempt' = [attempt EXCEPT ![t] = [attempt[t] EXCEPT !.retried = r]]
    BY DEF ServeReconcile
  <2>4. r = IF attempt[t].retried \/ request.kind = "retry" THEN TRUE ELSE FALSE
    BY <2>2 DEF Attempt
  <2> HIDE DEF r
  <2>5. /\ attempt'[t].item = attempt[t].item /\ attempt'[t].fate = attempt[t].fate
        /\ attempt'[t].retried = r
    BY <1>1, <2>2, <2>3 DEF Attempt, TypeOK
  <2>6. \A u \in Tokens \ {t} : attempt'[u] = attempt[u]
    BY <2>3 DEF TypeOK
  <2> QED BY <1>1, <2>1, <2>4, <2>5, <2>6
<1>4. call' = call
  BY DEF ServeReconcile
<1> HIDE DEF p, t
<1>5. LedgerOK'
  BY <1>1, <1>3 DEF LedgerOK
<1>6. \A u \in Tokens \ {t} : attempt[u].item = p => attempt[u].retried \/ ~MayHaveRun(u)
  BY <1>1 DEF RowsOK
<1>7. RowsOK'
  BY <1>1, <1>2, <1>3, <1>6 DEF RowsOK, MayHaveRun, LedgerOK
<1>8. CallsOK'
  BY <1>1, <1>3, <1>4 DEF CallsOK
<1>9. NoUndecidedReplay'
  BY <1>1, <1>3 DEF NoUndecidedReplay, MayHaveRun
<1> QED BY <1>5, <1>7, <1>8, <1>9

LEMMA CallerStepDelivery ==
  ASSUME DeliveryInv, NEW c \in Callers, CallerStep(c)
  PROVE  DeliveryInv'
<1>1. TypeOK /\ TypeOK'
  BY CallerStepType DEF DeliveryInv
<1>2. ASSUME row' = row, attempt' = attempt, QuietCalls PROVE DeliveryInv'
  <2>1. QuietRows
    BY <1>2 DEF QuietRows
  <2> QED BY <1>1, <1>2, <2>1, QuietStep
<1>3. call[c].pc \in PastClaim => call[c].item \in Prompts /\ call[c].token \in Tokens
  BY DEF DeliveryInv, CallsOK
<1>4. CASE ProbeReady(c)
  BY <1>1, <1>2, <1>4, Phase, GotoIsQuiet DEF ProbeReady
<1>5. CASE ReadinessFails(c) \/ NothingToClaim(c) \/ Finish(c) \/ Uncertain(c)
  BY <1>1, <1>2, <1>5, LeaveIsQuiet DEF ReadinessFails, NothingToClaim, Finish, Uncertain
<1>6. ASSUME NEW p \in Prompts, NEW t \in Tokens, Claim(c, p, t) PROVE DeliveryInv'
  BY <1>1, <1>6, ClaimStep
<1>7. CASE PassGate(c)
  BY <1>1, <1>2, <1>7, GotoIsQuiet DEF PassGate
<1>8. CASE RefusedAtGate(c) \/ AdapterFails(c) \/ SendRefused(c) \/ Rejected(c)
  <2>1. attempt' = attempt /\ Leave(c)
    BY <1>8 DEF RefusedAtGate, AdapterFails, SendRefused, Rejected
  <2>2. call[c].pc \in PastClaim
    BY <1>8, Phase DEF RefusedAtGate, AdapterFails, SendRefused, Rejected
  <2>3. ~MayHaveRun(call[c].token)
    BY <1>8, <2>2 DEF RefusedAtGate, AdapterFails, SendRefused, Rejected, DeliveryInv, CallsOK, MayHaveRun
  <2>4. PICK certainty : ReleaseRejectedClaim(call[c].session, call[c].item, call[c].token, certainty)
    BY <1>8 DEF RefusedAtGate, AdapterFails, SendRefused, Rejected
  <2> QED BY <1>1, <1>3, <2>1, <2>2, <2>3, <2>4, LeaveIsQuiet, ReleaseStep
<1>9. CASE Send(c)
  BY <1>1, <1>9, SendStep
<1>10. CASE Accepted(c)
  BY <1>1, <1>10, AcceptedStep
<1>11. CASE Complete(c)
  BY <1>1, <1>11, CompleteStep
<1> QED BY <1>4, <1>5, <1>6, <1>7, <1>8, <1>9, <1>10, <1>11 DEF CallerStep

LEMMA EnterIsQuiet ==
  ASSUME TypeOK, NEW c \in Callers, NEW s, NEW pc \in {"probe", "ready"}, Enter(c, s, pc)
  PROVE  QuietCalls
<1>1. call'[c].pc = pc /\ \A d \in Callers \ {c} : call'[d] = call[d]
  BY DEF TypeOK, Enter, Idle
<1> QED BY <1>1, Phase DEF QuietCalls

\* reorderQueue, on its own or after one row left the queue, is quiet.
LEMMA RouteStepDelivery ==
  ASSUME DeliveryInv, RouteStep
  PROVE  DeliveryInv'
<1>1. TypeOK /\ TypeOK'
  BY RouteStepType DEF DeliveryInv
<1>2. row \in [Prompts -> Row]
  BY <1>1 DEF TypeOK, StoreTypeOK
<1>3. ASSUME QuietRows, attempt' = attempt, call' = call PROVE DeliveryInv'
  BY <1>1, <1>3, QuietStep DEF QuietCalls
<1>4. ASSUME NEW s \in Sessions, NEW p \in Prompts, NEW k \in Keys \cup {None}, OwnerAdds(s, p, k)
      PROVE  DeliveryInv'
  <2>1. QuietRows
    BY <1>2, <1>4 DEF OwnerAdds, AddPrompt, QuietRows
  <2> QED BY <1>3, <1>4, <2>1 DEF OwnerAdds, proc
<1>5. ASSUME NEW s \in Sessions, NEW p \in Prompts, OwnerEdits(s, p) PROVE DeliveryInv'
  <2>1. QuietRows
    BY <1>2, <1>5 DEF OwnerEdits, UpdatePromptContent, QuietRows, Row
  <2> QED BY <1>3, <1>5, <2>1 DEF OwnerEdits, proc
<1>6. ASSUME NEW s \in Sessions, NEW p \in Prompts, OwnerDeletes(s, p) PROVE DeliveryInv'
  <2>1. QuietRows
    BY <1>2, <1>6 DEF OwnerDeletes, DeletePromptById, Empty, QuietRows
  <2> QED BY <1>3, <1>6, <2>1 DEF OwnerDeletes
<1>7. ASSUME \/ \E s \in Sessions, p \in Prompts, kind \in {"acknowledge", "accepted", "retry"} :
                  ListQueue(s, p, kind)
             \/ PostRequest \/ DropRequest
      PROVE  DeliveryInv'
  <2>1. row' = row /\ attempt' = attempt /\ call' = call
    BY <1>7 DEF ListQueue, PostRequest, DropRequest
  <2> QED BY <1>3, <2>1 DEF QuietRows
<1>8. CASE ServeAcknowledge
  <2> DEFINE p == request.item  table == [row EXCEPT ![p].state = "handled"]
  <2>1. row' = Renumbered(table, request.session)
    BY <1>8 DEF ServeAcknowledge, AcknowledgePrompt
  <2>2. p \in Prompts
    BY <1>1, <1>8 DEF ServeAcknowledge, TypeOK, Request
  <2>3. /\ table \in [Prompts -> Row] /\ table[p].state = "handled"
        /\ \A q \in Prompts \ {p} : table[q] = row[q]
    <3>1. [row[p] EXCEPT !.state = "handled"] \in Row
      BY <1>2, <2>2, FieldValues DEF Row
    <3>2. [row[p] EXCEPT !.state = "handled"].state = "handled"
      BY <1>2, <2>2 DEF Row
    <3>3. table = [row EXCEPT ![p] = [row[p] EXCEPT !.state = "handled"]]
      OBVIOUS
    <3> QED BY <1>2, <2>2, <3>1, <3>2, <3>3
  <2> HIDE DEF table, p
  <2>4. QuietRows
    BY <2>1, <2>2, <2>3, RenumberedRow DEF QuietRows
  <2> QED BY <1>3, <1>8, <2>4 DEF ServeAcknowledge
<1>9. CASE ServeReconcile
  BY <1>1, <1>9, ReconcileStep
<1> QED BY <1>4, <1>5, <1>6, <1>7, <1>8, <1>9 DEF RouteStep

LEMMA OtherStepsDelivery ==
  ASSUME DeliveryInv
  PROVE  /\ \A c \in Callers, s \in Sessions : AutoBegin(c, s) \/ ManualBegin(c, s) => DeliveryInv'
         /\ BoundaryStep => DeliveryInv'
         /\ HousekeepingStep => DeliveryInv'
<1>1. TypeOK
  BY DEF DeliveryInv
<1>2. row \in [Prompts -> Row]
  BY <1>1 DEF TypeOK, StoreTypeOK
<1>3. ASSUME NEW c \in Callers, NEW s \in Sessions, AutoBegin(c, s) \/ ManualBegin(c, s)
      PROVE  DeliveryInv'
  <2>1. row' = row /\ attempt' = attempt
    BY <1>3 DEF AutoBegin, ManualBegin
  <2>2. QuietCalls
    BY <1>1, <1>3, EnterIsQuiet DEF AutoBegin, ManualBegin
  <2>3. TypeOK'
    BY <1>1, <1>3, OtherStepsType
  <2> QED BY <2>1, <2>2, <2>3, QuietStep DEF QuietRows
<1>4. ASSUME TypeOK', QuietRows, attempt' = attempt, call' = call PROVE DeliveryInv'
  BY <1>4, QuietStep DEF QuietCalls
<1>5. ASSUME BoundaryStep PROVE DeliveryInv'
  <2>1. TypeOK' /\ attempt' = attempt /\ call' = call
    BY <1>1, <1>5, OtherStepsType
       DEF BoundaryStep, CaptureBoundary, RetryBoundary, RunRetire, RunReorder
  <2>2. ASSUME \/ \E g \in Triggers, s \in Sessions : CaptureBoundary(g, s)
               \/ \E g \in Triggers : RetryBoundary(g)
        PROVE  QuietRows
    BY <2>2 DEF CaptureBoundary, RetryBoundary, QuietRows
  <2>3. ASSUME RunRetire PROVE QuietRows
    <3>1. ASSUME NEW q \in Prompts
          PROVE  \/ row'[q] = row[q]
                 \/ row'[q] = [row[q] EXCEPT !.state = "superseded", !.revision = @ + 1]
      BY <2>3 DEF RunRetire, RetireForFreshHumanTrigger
    <3>2. \A q \in Prompts : [row[q] EXCEPT !.state = "superseded", !.revision = @ + 1].state = "superseded"
      BY <1>2 DEF Row
    <3> QED BY <3>1, <3>2 DEF QuietRows
  <2>4. ASSUME RunReorder PROVE QuietRows
    BY <1>2, <2>4, RenumberedRow DEF RunReorder, ReorderQueue, QuietRows
  <2> QED BY <1>4, <1>5, <2>1, <2>2, <2>3, <2>4 DEF BoundaryStep
<1>6. ASSUME HousekeepingStep PROVE DeliveryInv'
  <2>1. TypeOK'
    BY <1>1, <1>6, OtherStepsType
  <2>2. ASSUME NEW s \in Sessions, DedicatedRecovery(s) PROVE DeliveryInv'
    <3>1. ASSUME NEW q \in Prompts
          PROVE  \/ row'[q] = row[q]
                 \/ row'[q] = [row[q] EXCEPT !.state = "superseded", !.revision = @ + 1]
      BY <2>2 DEF DedicatedRecovery, SupersedeDedicatedPending
    <3>2. \A q \in Prompts : [row[q] EXCEPT !.state = "superseded", !.revision = @ + 1].state = "superseded"
      BY <1>2 DEF Row
    <3> QED BY <1>4, <2>1, <2>2, <3>1, <3>2 DEF QuietRows, DedicatedRecovery, proc
  <2>3. ASSUME \/ \E s \in Sessions : SessionStops(s) \/ SessionStarts(s)
               \/ SetDrain
        PROVE  DeliveryInv'
    <3>1. row' = row /\ attempt' = attempt /\ call' = call
      BY <2>3 DEF SessionStops, SessionStarts, SetDrain, proc
    <3> QED BY <1>4, <2>1, <3>1 DEF QuietRows
  <2>4. ASSUME NEW p \in Prompts, Retention(p) PROVE DeliveryInv'
    <3>1. QuietRows
      BY <1>2, <2>4 DEF Retention, PruneHistory, Empty, QuietRows
    <3> QED BY <1>4, <2>1, <2>4, <3>1 DEF Retention, proc
  <2>5. ASSUME NEW pair \in Rebinds, Rebind(pair[1], pair[2]) PROVE DeliveryInv'
    <3>1. ASSUME NEW q \in Prompts
          PROVE  row'[q] \in {row[q], [row[q] EXCEPT !.session = pair[2]]}
      BY <1>2, <2>5 DEF Rebind, RebindSession
    <3>2. ASSUME NEW q \in Prompts
          PROVE  /\ row'[q].state = row[q].state /\ row'[q].token = row[q].token
                 /\ row'[q].delivery = row[q].delivery
      BY <1>2, <3>1 DEF Row
    <3>3. QuietRows
      BY <3>2 DEF QuietRows
    <3> QED BY <1>4, <2>1, <2>5, <3>3 DEF Rebind, proc
  <2>6. CASE Crash
    <3>1. QuietRows /\ QuietCalls /\ attempt' = attempt
      BY <2>6, Phase DEF Crash, QuietRows, QuietCalls
    <3> QED BY <2>1, <3>1, QuietStep
  <2> QED BY <1>6, <2>2, <2>3, <2>4, <2>5, <2>6 DEF HousekeepingStep
<1> QED BY <1>3, <1>5, <1>6

\* Conclusions
LEMMA InitDelivery == Init => DeliveryInv
<1> SUFFICES ASSUME Init PROVE DeliveryInv
  OBVIOUS
<1>1. TypeOK
  BY InitType
<1>2. LedgerOK /\ NoUndecidedReplay
  BY DEF Init, Unminted, LedgerOK, NoUndecidedReplay, MayHaveRun
<1>3. RowsOK
  BY DEF Init, StoreInit, Empty, Unminted, RowsOK, MayHaveRun
<1>4. CallsOK
  BY Phase DEF Init, CallsOK
<1> QED BY <1>1, <1>2, <1>3, <1>4 DEF DeliveryInv

LEMMA NextDelivery == DeliveryInv /\ [Next]_vars => DeliveryInv'
<1> SUFFICES ASSUME DeliveryInv, [Next]_vars PROVE DeliveryInv'
  OBVIOUS
<1>1. ASSUME NEW c \in Callers, NEW s \in Sessions, AutoBegin(c, s) \/ ManualBegin(c, s)
      PROVE  DeliveryInv'
  BY <1>1, OtherStepsDelivery
<1>2. ASSUME NEW c \in Callers, CallerStep(c) PROVE DeliveryInv'
  BY <1>2, CallerStepDelivery
<1>3. ASSUME NEW t \in Tokens, AgentStep(t) PROVE DeliveryInv'
  <2>1. PICK fate, reply :
          /\ <<fate, reply>> \in {<<"run", "ok">>, <<"run", "error">>, <<"refused", "refused">>,
                                  <<"dropped", "error">>}
          /\ Answer(t, fate, reply)
    BY <1>3 DEF AgentStep, AgentAccepts, AgentRefuses, AgentFails
  <2>2. fate \in Fates /\ reply \in Replies
    BY <2>1 DEF Fates, Replies
  <2> QED BY <2>1, <2>2, AnswerType, AnswerStep DEF DeliveryInv
<1>4. CASE RouteStep
  BY <1>4, RouteStepDelivery
<1>5. CASE BoundaryStep \/ HousekeepingStep
  BY <1>5, OtherStepsDelivery
<1>6. CASE UNCHANGED vars
  BY <1>6 DEF vars, DeliveryInv, TypeOK, StoreTypeOK, LedgerOK, RowsOK, CallsOK, NoUndecidedReplay,
              MayHaveRun
<1> QED BY <1>1, <1>2, <1>3, <1>4, <1>5, <1>6 DEF Next

\* The inductive invariant: through every dispatch, answer, decision, boundary,
\* rebind and crash, the queue rows, the claim tokens and the activations tell
\* one consistent story of what was sent.
THEOREM DeliveryInvariant == Spec => []DeliveryInv
<1>1. Init => DeliveryInv
  BY InitDelivery
<1>2. DeliveryInv /\ [Next]_vars => DeliveryInv'
  BY NextDelivery
<1> QED BY <1>1, <1>2, PTL DEF Spec

\* Every variable keeps the shape the code's types give it.
THEOREM TypeCorrect == Spec => []TypeOK
<1>1. DeliveryInv => TypeOK
  BY DEF DeliveryInv
<1> QED BY <1>1, DeliveryInvariant, PTL

\* dispatchNextQueuedPromptForSession, maybeAutoDispatchQueuedPrompt and a restart
\* never resubmit on their own a prompt that the agent may already have run.
THEOREM NoReplay == Spec => []NoUndecidedReplay
<1>1. DeliveryInv => NoUndecidedReplay
  BY DEF DeliveryInv
<1> QED BY <1>1, DeliveryInvariant, PTL

\* completeClaim and recordClaimAcceptance only ever record what the agent
\* accepted under that claim token.
THEOREM DispatchedAccepted == Spec => []DispatchedMeansAccepted
<1>1. DeliveryInv => DispatchedMeansAccepted
  BY DEF DeliveryInv, RowsOK, DispatchedMeansAccepted
<1> QED BY <1>1, DeliveryInvariant, PTL

\* markClaimSending commits before the submission leaves the process, so no crash
\* makes a prompt that may have run look unsent.
THEOREM SentRecorded == Spec => []SentIsRecordedFirst
<1>1. DeliveryInv => SentIsRecordedFirst
  <2> SUFFICES ASSUME DeliveryInv, NEW t \in Tokens, MayHaveRun(t), ~attempt[t].retried
               PROVE  /\ row[attempt[t].item].state # "pending"
                      /\ ~(row[attempt[t].item].state = "claimed"
                             /\ row[attempt[t].item].delivery = "unsent")
    BY DEF SentIsRecordedFirst
  <2>1. /\ row[attempt[t].item].state \notin {"pending", "absent"}
        /\ row[attempt[t].item].state = "claimed" => row[attempt[t].item].token = t
        /\ attempt[t].item \in Prompts
    BY DEF DeliveryInv, RowsOK, LedgerOK, MayHaveRun
  <2> QED BY <2>1 DEF DeliveryInv, RowsOK, MayHaveRun
<1> QED BY <1>1, DeliveryInvariant, PTL
=============================================================================

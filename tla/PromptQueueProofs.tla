-------------------------- MODULE PromptQueueProofs --------------------------
(***************************************************************************)
(* More theorems about PromptDispatch: the order of a queue, the claim     *)
(* that blocks it, its dedupe keys, and who may take a prompt out of it.   *)
(* Every constant is arbitrary but where a theorem says otherwise.         *)
(***************************************************************************)
EXTENDS PromptDispatchProofs

-----------------------------------------------------------------------------
(* Renumbering a queue *)

ActiveIn(table, s) == {p \in Prompts : table[p].session = s /\ table[p].state \in ActiveStates}
Earlier(table, p, q) == \/ table[p].order < table[q].order
                        \/ table[p].order = table[q].order /\ table[p].rowid < table[q].rowid

LEMMA PromptSets ==
  ASSUME NEW S \in SUBSET Prompts, NEW T \in SUBSET S
  PROVE  /\ IsFiniteSet(S) /\ Cardinality(S) \in Nat /\ Cardinality(T) \in Nat
         /\ Cardinality(T) <= Cardinality(S)
         /\ T # S => Cardinality(T) + 1 <= Cardinality(S)
<1>1. IsFiniteSet(S) /\ IsFiniteSet(T)
  BY StoreAssumption, FS_Subset
<1>2. Cardinality(S) \in Nat /\ Cardinality(T) \in Nat
  BY <1>1, FS_CardinalityType
<1>3. Cardinality(T) <= Cardinality(S) /\ (Cardinality(S) = Cardinality(T) => S = T)
  BY <1>1, FS_Subset
<1> QED BY <1>1, <1>2, <1>3

\* reorderQueue numbers the rows of a queue from 1 to their number, in the order
\* they had, and leaves all others alone.
LEMMA RenumberedOrder ==
  ASSUME NEW table \in [Prompts -> Row], NEW s
  PROVE  /\ \A p \in Prompts \ ActiveIn(table, s) : Renumbered(table, s)[p] = table[p]
         /\ \A p \in ActiveIn(table, s) :
              /\ Renumbered(table, s)[p].order \in Nat
              /\ Renumbered(table, s)[p].order <= Cardinality(ActiveIn(table, s))
         /\ \A p, q \in ActiveIn(table, s) :
              Earlier(table, p, q) => Renumbered(table, s)[p].order < Renumbered(table, s)[q].order
<1> DEFINE A == ActiveIn(table, s)
           before(p) == {q \in A : Earlier(table, q, p)}
           rank(p) == Cardinality(before(p)) + 1
<1>1. Renumbered(table, s) =
        [p \in Prompts |-> IF p \in A THEN [table[p] EXCEPT !.order = rank(p)] ELSE table[p]]
  BY DEF Renumbered, ActiveIn, Earlier
<1>2. A \in SUBSET Prompts
  BY DEF ActiveIn
<1>3. \A p \in A : table[p].order \in Nat /\ table[p].rowid \in Nat
  BY <1>2 DEF Row
<1>4. \A p \in A : before(p) \in SUBSET A /\ p \notin before(p)
  BY <1>3 DEF Earlier
<1>5. \A p \in A : rank(p) \in Nat /\ rank(p) <= Cardinality(A)
  <2> SUFFICES ASSUME NEW p \in A PROVE rank(p) \in Nat /\ rank(p) <= Cardinality(A)
    OBVIOUS
  <2>1. before(p) \in SUBSET A /\ before(p) # A
    BY <1>4
  <2> HIDE DEF A, before
  <2> QED BY <1>2, <2>1, PromptSets
<1>6. ASSUME NEW p \in A, NEW q \in A, Earlier(table, p, q) PROVE rank(p) < rank(q)
  <2>1. before(p) \in SUBSET before(q)
    BY <1>3, <1>6 DEF Earlier
  <2>2. p \in before(q) /\ p \notin before(p)
    BY <1>4, <1>6
  <2>3. before(q) \in SUBSET Prompts
    BY <1>2
  <2> HIDE DEF A, before
  <2>4. /\ Cardinality(before(p)) \in Nat /\ Cardinality(before(q)) \in Nat
        /\ Cardinality(before(p)) + 1 <= Cardinality(before(q))
    BY <2>1, <2>2, <2>3, PromptSets
  <2> QED BY <2>4
<1> HIDE DEF A, before, rank
<1>7. \A p \in A : [table[p] EXCEPT !.order = rank(p)].order = rank(p)
  BY <1>2 DEF Row
<1>8. \A p \in A : Renumbered(table, s)[p].order = rank(p)
  BY <1>1, <1>2, <1>7
<1>9. \A p \in Prompts \ A : Renumbered(table, s)[p] = table[p]
  BY <1>1
<1> QED BY <1>5, <1>6, <1>8, <1>9 DEF A

-----------------------------------------------------------------------------
(* What the statements may do to a row *)

\* A row keeps its session, its key and its place in the order of arrival; it
\* does not come back once it has left its queue.
KeptRow(a, b) ==
  /\ b.state = "absent" <=> a.state = "absent"
  /\ b.state \in ActiveStates => a.state \in ActiveStates
  /\ b.state # "deleted" => /\ a.state # "deleted" /\ b.session = a.session
                            /\ b.key = a.key /\ b.rowid = a.rowid
  /\ a.state = "deleted" => b.state = "deleted"
  /\ a.state \in TerminalStates => b.state \in {a.state, "deleted"}
  /\ b.rowid <= a.rowid

\* It is not claimed.
UnclaimedRow(a, b) ==
  b.state = "claimed" => /\ a.state = "claimed" /\ b.token = a.token
                         /\ b.delivery = "unsent" => a.delivery = "unsent"

\* It is neither consumed nor retired nor decided about.
GentleRow(a, b) ==
  /\ b.state \in {"handled", "superseded"} => a.state = b.state
  /\ a.state = "claimed" /\ b.state = "pending" => b.revision = a.revision

Kept(old, new)      == \A q \in Prompts : KeptRow(old[q], new[q])
Unclaimed(old, new) == \A q \in Prompts : UnclaimedRow(old[q], new[q])
Gentle(old, new)    == \A q \in Prompts : GentleRow(old[q], new[q])
SameOrder(old, new) == \A q \in Prompts : new[q].state \in ActiveStates => new[q].order = old[q].order
Stays(old, new)     == \A q \in Prompts : old[q].state \in ActiveStates => new[q].state \in ActiveStates
Settled(old, new)   == Kept(old, new) /\ Unclaimed(old, new) /\ SameOrder(old, new)

LEMMA SameRows ==
  ASSUME NEW old \in [Prompts -> Row]
  PROVE  Settled(old, old) /\ Gentle(old, old) /\ Stays(old, old)
<1>1. \A q \in Prompts : old[q].rowid <= old[q].rowid
  BY DEF Row
<1> QED BY <1>1 DEF Settled, Kept, Unclaimed, Gentle, SameOrder, Stays, KeptRow, UnclaimedRow, GentleRow

LEMMA OneRow ==
  ASSUME NEW old \in [Prompts -> Row], NEW p \in Prompts, NEW new \in Row, NEW table,
         table = [old EXCEPT ![p] = new]
  PROVE  /\ table \in [Prompts -> Row]
         /\ KeptRow(old[p], new) => Kept(old, table)
         /\ UnclaimedRow(old[p], new) => Unclaimed(old, table)
         /\ GentleRow(old[p], new) => Gentle(old, table)
         /\ (new.state \in ActiveStates => new.order = old[p].order) => SameOrder(old, table)
         /\ (old[p].state \in ActiveStates => new.state \in ActiveStates) => Stays(old, table)
<1>1. table[p] = new /\ \A q \in Prompts \ {p} : table[q] = old[q]
  OBVIOUS
<1>2. \A q \in Prompts : KeptRow(old[q], old[q]) /\ UnclaimedRow(old[q], old[q]) /\ GentleRow(old[q], old[q])
  BY SameRows DEF Settled, Kept, Unclaimed, Gentle
<1> QED BY <1>1, <1>2 DEF Kept, Unclaimed, Gentle, SameOrder, Stays

LEMMA StateSets ==
  /\ ActiveStates = {"pending", "claimed"}
  /\ TerminalStates = {"dispatched", "handled", "superseded"}
BY DEF ActiveStates, TerminalStates

\* Statements about one prompt.
LEMMA PromptStatements ==
  ASSUME row \in [Prompts -> Row], NEW p \in Prompts, NEW s
  PROVE  /\ UpdatePromptContent(s, p) => Settled(row, row') /\ Gentle(row, row') /\ Stays(row, row')
         /\ DeletePromptById(s, p) => Settled(row, row') /\ Gentle(row, row')
         /\ MarkClaimSending(p) => Settled(row, row') /\ Gentle(row, row') /\ Stays(row, row')
         /\ RecordClaimAcceptance(p) => Settled(row, row') /\ Gentle(row, row') /\ Stays(row, row')
         /\ \A t : HoldsClaim(s, p, t) /\ CompleteClaim(p) => Settled(row, row') /\ Gentle(row, row')
         /\ \A t : \A certainty \in {"unsent", "rejected"} : ReleaseRejectedClaim(s, p, t, certainty) =>
              Settled(row, row') /\ Gentle(row, row') /\ Stays(row, row')
         /\ PruneHistory(p) => Settled(row, row') /\ Gentle(row, row') /\ Stays(row, row')
<1>1. row[p] \in Row /\ row[p].rowid \in Nat /\ row[p].revision \in Nat
  BY DEF Row
<1>2. Empty("deleted") \in Row /\ Empty("deleted").state = "deleted" /\ Empty("deleted").rowid = 0
  BY FieldValues DEF Empty, Row
<1>3. ASSUME UpdatePromptContent(s, p) PROVE Settled(row, row') /\ Gentle(row, row') /\ Stays(row, row')
  <2> DEFINE new == [row[p] EXCEPT !.revision = row[p].revision + 1]
  <2>1. row' = [row EXCEPT ![p] = new] /\ row[p].state = "pending"
    BY <1>3 DEF UpdatePromptContent
  <2>2. new \in Row /\ new.state = "pending" /\ new.order = row[p].order /\ new.session = row[p].session
        /\ new.key = row[p].key /\ new.rowid = row[p].rowid
    BY <1>1, <2>1 DEF Row
  <2> HIDE DEF new
  <2>3. KeptRow(row[p], new) /\ UnclaimedRow(row[p], new) /\ GentleRow(row[p], new)
    BY <1>1, <2>1, <2>2, StateSets DEF KeptRow, UnclaimedRow, GentleRow
  <2> QED BY <2>1, <2>2, <2>3, OneRow, StateSets DEF Settled
<1>4. ASSUME DeletePromptById(s, p) \/ PruneHistory(p)
      PROVE  Settled(row, row') /\ Gentle(row, row') /\ (PruneHistory(p) => Stays(row, row'))
  <2>1. row' = [row EXCEPT ![p] = Empty("deleted")] /\ row[p].state \in {"pending", "dispatched", "handled", "superseded"}
        /\ (PruneHistory(p) => row[p].state # "pending")
    BY <1>4, StateSets DEF DeletePromptById, PruneHistory
  <2>2. /\ KeptRow(row[p], Empty("deleted")) /\ UnclaimedRow(row[p], Empty("deleted"))
        /\ GentleRow(row[p], Empty("deleted"))
    BY <1>1, <1>2, <2>1, StateSets DEF KeptRow, UnclaimedRow, GentleRow
  <2> QED BY <1>2, <2>1, <2>2, OneRow, StateSets DEF Settled
<1>5. ASSUME MarkClaimSending(p) \/ RecordClaimAcceptance(p)
      PROVE  Settled(row, row') /\ Gentle(row, row') /\ Stays(row, row')
  <2>1. PICK delivery \in {"uncertain", "accepted"} : row' = [row EXCEPT ![p] = [row[p] EXCEPT !.delivery = delivery]]
    BY <1>5 DEF MarkClaimSending, RecordClaimAcceptance
  <2> DEFINE new == [row[p] EXCEPT !.delivery = delivery]
  <2>2. new \in Row /\ new.state = row[p].state /\ new.order = row[p].order /\ new.session = row[p].session
        /\ new.key = row[p].key /\ new.rowid = row[p].rowid /\ new.token = row[p].token
        /\ new.revision = row[p].revision /\ new.delivery # "unsent"
    BY <1>1, FieldValues DEF Row
  <2> HIDE DEF new
  <2>3. KeptRow(row[p], new) /\ UnclaimedRow(row[p], new) /\ GentleRow(row[p], new)
    BY <1>1, <2>2, StateSets DEF KeptRow, UnclaimedRow, GentleRow
  <2> QED BY <2>1, <2>2, <2>3, OneRow DEF Settled, new
<1>6. ASSUME NEW t, HoldsClaim(s, p, t), CompleteClaim(p) PROVE Settled(row, row') /\ Gentle(row, row')
  <2> DEFINE new == [row[p] EXCEPT !.state = "dispatched", !.delivery = "accepted"]
  <2>1. row' = [row EXCEPT ![p] = new] /\ row[p].state = "claimed"
    BY <1>6 DEF HoldsClaim, CompleteClaim
  <2>2. new \in Row /\ new.state = "dispatched" /\ new.session = row[p].session
        /\ new.key = row[p].key /\ new.rowid = row[p].rowid
    BY <1>1, FieldValues DEF Row
  <2> HIDE DEF new
  <2>3. KeptRow(row[p], new) /\ UnclaimedRow(row[p], new) /\ GentleRow(row[p], new)
    BY <1>1, <2>1, <2>2, StateSets DEF KeptRow, UnclaimedRow, GentleRow
  <2> QED BY <2>1, <2>2, <2>3, OneRow, StateSets DEF Settled
<1>7. ASSUME NEW t, NEW certainty \in {"unsent", "rejected"}, ReleaseRejectedClaim(s, p, t, certainty)
      PROVE  Settled(row, row') /\ Gentle(row, row') /\ Stays(row, row')
  <2>1. CASE ~HoldsClaim(s, p, t)
    BY <1>7, <2>1, SameRows DEF ReleaseRejectedClaim
  <2>2. CASE HoldsClaim(s, p, t)
    <3> DEFINE new == [row[p] EXCEPT !.state = "pending", !.delivery = certainty, !.token = None]
    <3>1. row' = [row EXCEPT ![p] = new] /\ row[p].state = "claimed"
      BY <1>7, <2>2 DEF HoldsClaim, ReleaseRejectedClaim
    <3>2. new \in Row /\ new.state = "pending" /\ new.session = row[p].session /\ new.order = row[p].order
          /\ new.key = row[p].key /\ new.rowid = row[p].rowid /\ new.revision = row[p].revision
      BY <1>1, FieldValues DEF Row
    <3> HIDE DEF new
    <3>3. KeptRow(row[p], new) /\ UnclaimedRow(row[p], new) /\ GentleRow(row[p], new)
      BY <1>1, <3>1, <3>2, StateSets DEF KeptRow, UnclaimedRow, GentleRow
    <3> QED BY <3>1, <3>2, <3>3, OneRow, StateSets DEF Settled
  <2> QED BY <2>1, <2>2
<1> QED BY <1>3, <1>4, <1>5, <1>6, <1>7

\* A prompt that leaves its queue with a decision, and the queue renumbered.
LEMMA HandledTable ==
  ASSUME row \in [Prompts -> Row], NEW p \in Prompts, NEW new \in Row, NEW table,
         table = [row EXCEPT ![p] = new], row[p].state \in ActiveStates,
         new.state \in {"pending", "handled"}, new.session = row[p].session,
         new.key = row[p].key, new.rowid = row[p].rowid, new.order = row[p].order
  PROVE  /\ table \in [Prompts -> Row] /\ Settled(row, table)
         /\ \A u : u # row[p].session => ActiveIn(table, u) = ActiveIn(row, u)
<1>1. row[p] \in Row /\ row[p].rowid \in Nat
  BY DEF Row
<1>2. KeptRow(row[p], new) /\ UnclaimedRow(row[p], new)
  BY <1>1, StateSets DEF KeptRow, UnclaimedRow
<1>3. table \in [Prompts -> Row] /\ Settled(row, table)
  BY <1>2, OneRow DEF Settled
<1>4. \A u : u # row[p].session => ActiveIn(table, u) = ActiveIn(row, u)
  BY DEF ActiveIn
<1> QED BY <1>3, <1>4

Decided(p, s, table) ==
  /\ row[p].session = s
  /\ row' = Renumbered(table, s) /\ Settled(row, table)
  /\ \A u : u # s => ActiveIn(table, u) = ActiveIn(row, u)
  /\ table[p].state \in {"pending", "handled"}
  /\ \A q \in Prompts \ {p} : table[q] = row[q]

LEMMA DecisionStatements ==
  ASSUME row \in [Prompts -> Row], NEW p \in Prompts, NEW s, NEW n, NEW t, NEW resolution,
         AcknowledgePrompt(s, p, n) \/ ReconcileClaim(s, p, n, t, resolution)
  PROVE  \E table \in [Prompts -> Row] : Decided(p, s, table)
<1>1. row[p] \in Row /\ row[p].revision + 1 \in Nat
  BY DEF Row
<1>2. CASE AcknowledgePrompt(s, p, n)
  <2> DEFINE new == [row[p] EXCEPT !.state = "handled"]
             table == [row EXCEPT ![p] = new]
  <2>1. row' = Renumbered(table, s) /\ row[p].session = s /\ row[p].state = "pending"
    BY <1>2 DEF AcknowledgePrompt
  <2>2. /\ new \in Row /\ new.state = "handled" /\ new.session = row[p].session
        /\ new.key = row[p].key /\ new.rowid = row[p].rowid /\ new.order = row[p].order
    BY <1>1, FieldValues DEF Row
  <2>3. table[p] = new /\ \A q \in Prompts \ {p} : table[q] = row[q]
    OBVIOUS
  <2> HIDE DEF new
  <2>4. table = [row EXCEPT ![p] = new]
    OBVIOUS
  <2> HIDE DEF table
  <2>5. /\ table \in [Prompts -> Row] /\ Settled(row, table)
        /\ \A u : u # row[p].session => ActiveIn(table, u) = ActiveIn(row, u)
    <3>1. row[p].state \in ActiveStates /\ new.state \in {"pending", "handled"}
      BY <2>1, <2>2, StateSets
    <3> QED BY <2>2, <2>4, <3>1, HandledTable
  <2> QED BY <2>1, <2>2, <2>3, <2>5 DEF Decided
<1>3. CASE ReconcileClaim(s, p, n, t, resolution)
  <2> DEFINE x == IF resolution = "accepted" THEN "handled" ELSE "pending"
             y == IF resolution = "accepted" THEN "accepted" ELSE "unsent"
             new == [row[p] EXCEPT !.state = x, !.delivery = y,
                                   !.revision = row[p].revision + 1, !.token = None]
             table == [row EXCEPT ![p] = new]
  <2>1. row' = Renumbered(table, s) /\ row[p].session = s /\ row[p].state = "claimed"
    BY <1>3 DEF ReconcileClaim, HoldsClaim
  <2>2. x \in {"handled", "pending"} /\ x \in RowStates /\ y \in DeliveryStates
    BY FieldValues
  <2> HIDE DEF x, y
  <2>3. /\ new \in Row /\ new.state = x /\ new.session = row[p].session
        /\ new.key = row[p].key /\ new.rowid = row[p].rowid /\ new.order = row[p].order
    BY <1>1, <2>2 DEF Row
  <2>4. table[p] = new /\ \A q \in Prompts \ {p} : table[q] = row[q]
    OBVIOUS
  <2> HIDE DEF new
  <2>5. table = [row EXCEPT ![p] = new]
    OBVIOUS
  <2> HIDE DEF table
  <2>6. /\ table \in [Prompts -> Row] /\ Settled(row, table)
        /\ \A u : u # row[p].session => ActiveIn(table, u) = ActiveIn(row, u)
    <3>1. row[p].state \in ActiveStates /\ new.state \in {"pending", "handled"}
      BY <2>1, <2>2, <2>3, StateSets
    <3> QED BY <2>3, <2>5, <3>1, HandledTable
  <2> QED BY <2>1, <2>2, <2>3, <2>4, <2>6 DEF Decided
<1> QED BY <1>2, <1>3

\* Retiring rows of a queue.
LEMMA RetireStatements ==
  ASSUME row \in [Prompts -> Row], NEW s,
         \/ \E snapshot : RetireForFreshHumanTrigger(s, snapshot)
         \/ SupersedeDedicatedPending(s)
  PROVE  /\ Settled(row, row')
         /\ \A u : u # s => Active(u)' = Active(u)
         /\ SupersedeDedicatedPending(s) => Active(s)' = {}
<1>1. \A q \in Prompts : row[q] \in Row /\ row[q].rowid \in Nat /\ row[q].revision + 1 \in Nat
  BY DEF Row
<1> DEFINE gone(q) == [row[q] EXCEPT !.state = "superseded", !.revision = row[q].revision + 1]
<1>2. \A q \in Prompts : /\ gone(q).state = "superseded" /\ gone(q).session = row[q].session
                         /\ gone(q).key = row[q].key /\ gone(q).rowid = row[q].rowid
  BY <1>1 DEF Row
<1>3. \A q \in Prompts : row'[q] = row[q] \/ (q \in Active(s) /\ row'[q] = gone(q))
  BY DEF RetireForFreshHumanTrigger, SupersedeDedicatedPending
<1>4. SupersedeDedicatedPending(s) => \A q \in Active(s) : row'[q] = gone(q)
  BY DEF SupersedeDedicatedPending, Active
<1> HIDE DEF gone
<1>5. \A q \in Prompts : \/ row'[q] = row[q]
                         \/ /\ row[q].session = s /\ row[q].state \in {"pending", "claimed"}
                            /\ row'[q].state = "superseded" /\ row'[q].session = row[q].session
                            /\ row'[q].key = row[q].key /\ row'[q].rowid = row[q].rowid
  BY <1>2, <1>3, StateSets DEF Active
<1>6. Kept(row, row') /\ Unclaimed(row, row') /\ SameOrder(row, row')
  <2>1. ASSUME NEW q \in Prompts
        PROVE  /\ KeptRow(row[q], row'[q]) /\ UnclaimedRow(row[q], row'[q])
               /\ row'[q].state \in ActiveStates => row'[q].order = row[q].order
    <3>1. CASE row'[q] = row[q]
      BY <1>1, <3>1 DEF KeptRow, UnclaimedRow
    <3>2. CASE row'[q] # row[q]
      BY <1>1, <1>5, <3>2, StateSets DEF KeptRow, UnclaimedRow
    <3> QED BY <3>1, <3>2
  <2> QED BY <2>1 DEF Kept, Unclaimed, SameOrder
<1>7. ASSUME NEW u, u # s PROVE Active(u)' = Active(u)
  BY <1>5, <1>7 DEF Active
<1>8. SupersedeDedicatedPending(s) => Active(s)' = {}
  <2>1. SupersedeDedicatedPending(s) => \A q \in Prompts : row[q].session = s /\ row[q].state \in ActiveStates => row'[q].state = "superseded"
    BY <1>2, <1>4 DEF Active
  <2> QED BY <1>5, <2>1, StateSets DEF Active
<1> QED BY <1>6, <1>7, <1>8 DEF Settled

\* Renumbering settles nothing further.
LEMMA RenumberedSettles ==
  ASSUME row \in [Prompts -> Row], NEW table \in [Prompts -> Row], NEW s,
         row' = Renumbered(table, s), Kept(row, table), Unclaimed(row, table)
  PROVE  /\ Kept(row, row') /\ Unclaimed(row, row')
         /\ \A u : Active(u)' = ActiveIn(table, u)
<1>1. \A q \in Prompts :
        /\ row'[q].state = table[q].state /\ row'[q].session = table[q].session
        /\ row'[q].token = table[q].token /\ row'[q].delivery = table[q].delivery
        /\ row'[q].key = table[q].key /\ row'[q].rowid = table[q].rowid
  BY RenumberedRow
<1>2. Kept(row, row') /\ Unclaimed(row, row')
  BY <1>1 DEF Kept, Unclaimed, KeptRow, UnclaimedRow
<1>3. \A u : Active(u)' = ActiveIn(table, u)
  BY <1>1 DEF Active, ActiveIn
<1> QED BY <1>2, <1>3

-----------------------------------------------------------------------------
(* What every step does to the queues *)

\* Rows stay where they are, and a queue that loses one is to be renumbered.
QueuesKept ==
  /\ SameOrder(row, row')
  /\ \A u \in Sessions : \/ owed' = Reorder(u)
                         \/ Active(u)' = {}
                         \/ Active(u)' = Active(u) /\ owed # Reorder(u)

\* One queue is renumbered.
QueueRenumbered ==
  \E s : \E table \in [Prompts -> Row] :
    /\ row' = Renumbered(table, s) /\ Settled(row, table)
    /\ \A u \in Sessions : u # s => ActiveIn(table, u) = ActiveIn(row, u) /\ owed # Reorder(u)

QueueStep == Kept(row, row') /\ Unclaimed(row, row') /\ (QueuesKept \/ QueueRenumbered)

LEMMA NotOwed ==
  /\ EventLoopFree => owed = Nothing
  /\ \A u : Nothing # Reorder(u)
  /\ \A s, u : Reorder(s) = Reorder(u) => s = u
BY DEF EventLoopFree, Nothing, Reorder

LEMMA StaysActive ==
  ASSUME NEW old \in [Prompts -> Row], NEW new \in [Prompts -> Row], Kept(old, new), Stays(old, new)
  PROVE  \A u : ActiveIn(new, u) = ActiveIn(old, u)
<1>1. \A q \in Prompts : new[q].state \in ActiveStates <=> old[q].state \in ActiveStates
  BY DEF Kept, KeptRow, Stays
<1>2. \A q \in Prompts : new[q].state \in ActiveStates => new[q].session = old[q].session
  BY StateSets DEF Kept, KeptRow
<1> QED BY <1>1, <1>2 DEF ActiveIn

\* Statements that leave every queue its members.
LEMMA StayingStep ==
  ASSUME row \in [Prompts -> Row], row' \in [Prompts -> Row], owed = Nothing,
         Settled(row, row'), Stays(row, row')
  PROVE  QueueStep
<1>1. \A u : ActiveIn(row', u) = ActiveIn(row, u)
  BY StaysActive DEF Settled
<1>2. \A u : Active(u)' = Active(u)
  BY <1>1 DEF Active, ActiveIn
<1> QED BY <1>2, NotOwed DEF Settled, QueueStep, QueuesKept

\* Statements that take one row out of its queue, when the renumbering is noted.
LEMMA LeavingStep ==
  ASSUME row \in [Prompts -> Row], row' \in [Prompts -> Row], owed = Nothing,
         Settled(row, row'), NEW s, owed' = Reorder(s),
         \A u : u # s => Active(u)' = Active(u)
  PROVE  QueueStep
BY NotOwed DEF Settled, QueueStep, QueuesKept

LEMMA OneRowQueues ==
  ASSUME row \in [Prompts -> Row], NEW p \in Prompts,
         \A q \in Prompts \ {p} : row'[q] = row[q],
         row'[p].state \notin ActiveStates
  PROVE  \A u : u # row[p].session => Active(u)' = Active(u)
BY DEF Active

LEMMA CallerStepQueues ==
  ASSUME DeliveryInv, NEW c \in Callers, CallerStep(c)
  PROVE  /\ \/ \E p \in Prompts, t \in Tokens : Claim(c, p, t)
            \/ QueueStep
         /\ Gentle(row, row')
<1>1. TypeOK /\ TypeOK'
  BY CallerStepType DEF DeliveryInv
<1>2. row \in [Prompts -> Row] /\ row' \in [Prompts -> Row]
  BY <1>1 DEF TypeOK, StoreTypeOK
<1>3. call[c].pc \in PastClaim => call[c].item \in Prompts /\ call[c].token \in Tokens
  BY DEF DeliveryInv, CallsOK
<1>4. /\ row' = row /\ owed = Nothing => QueueStep
      /\ row' = row => Gentle(row, row')
  BY <1>2, SameRows, StayingStep
<1>5. ASSUME \/ ProbeReady(c) \/ ReadinessFails(c) \/ NothingToClaim(c) \/ PassGate(c)
             \/ Finish(c) \/ Uncertain(c)
      PROVE  QueueStep /\ Gentle(row, row')
  <2>1. row' = row /\ owed = Nothing
    BY <1>5, NotOwed DEF ProbeReady, ReadinessFails, NothingToClaim, PassGate, Finish, Uncertain
  <2> QED BY <2>1, <1>4
<1>6. ASSUME NEW p \in Prompts, NEW t \in Tokens, Claim(c, p, t) PROVE Gentle(row, row')
  <2> DEFINE new == [row[p] EXCEPT !.state = "claimed", !.token = t, !.delivery = "unsent"]
  <2>1. row' = [row EXCEPT ![p] = new] /\ row[p].state = "pending"
    BY <1>6 DEF Claim, ClaimNextPrompt
  <2>2. row[p] \in Row
    BY <1>2
  <2>3. new \in Row /\ new.state = "claimed"
    BY <2>2, FieldValues DEF Row
  <2> HIDE DEF new
  <2>4. GentleRow(row[p], new)
    BY <2>1, <2>3 DEF GentleRow
  <2> QED BY <1>2, <2>1, <2>3, <2>4, OneRow
<1>7. ASSUME RefusedAtGate(c) \/ AdapterFails(c) \/ SendRefused(c) \/ Rejected(c)
      PROVE  QueueStep /\ Gentle(row, row')
  <2>1. call[c].pc \in PastClaim /\ owed = Nothing
    BY <1>7, Phase, NotOwed DEF RefusedAtGate, AdapterFails, SendRefused, Rejected
  <2>2. PICK certainty \in {"unsent", "rejected"} :
          ReleaseRejectedClaim(call[c].session, call[c].item, call[c].token, certainty)
    BY <1>7 DEF RefusedAtGate, AdapterFails, SendRefused, Rejected
  <2>3. Settled(row, row') /\ Gentle(row, row') /\ Stays(row, row')
    BY <1>2, <1>3, <2>1, <2>2, PromptStatements
  <2> QED BY <1>2, <2>1, <2>3, StayingStep
<1>8. ASSUME Send(c) PROVE QueueStep /\ Gentle(row, row')
  <2>1. call[c].pc \in PastClaim /\ owed = Nothing /\ MarkClaimSending(call[c].item)
    BY <1>8, Phase, NotOwed DEF Send
  <2>2. Settled(row, row') /\ Gentle(row, row') /\ Stays(row, row')
    BY <1>2, <1>3, <2>1, PromptStatements
  <2> QED BY <1>2, <2>1, <2>2, StayingStep
<1>9. ASSUME Accepted(c) PROVE QueueStep /\ Gentle(row, row')
  <2>1. call[c].pc \in PastClaim /\ owed = Nothing
    BY <1>9, Phase, NotOwed DEF Accepted
  <2>2. row' = row \/ RecordClaimAcceptance(call[c].item)
    BY <1>9 DEF Accepted
  <2>3. RecordClaimAcceptance(call[c].item) => Settled(row, row') /\ Gentle(row, row') /\ Stays(row, row')
    BY <1>2, <1>3, <2>1, PromptStatements
  <2> QED BY <1>2, <1>4, <2>1, <2>2, <2>3, StayingStep
<1>10. ASSUME Complete(c) PROVE QueueStep /\ Gentle(row, row')
  <2> DEFINE s == call[c].session  p == call[c].item  t == call[c].token
  <2>1. call[c].pc \in PastClaim /\ owed = Nothing
    BY <1>10, Phase DEF Complete
  <2>2. CASE ~HoldsClaim(s, p, t)
    BY <1>4, <1>10, <2>1, <2>2 DEF Complete
  <2>3. CASE HoldsClaim(s, p, t)
    <3>1. CompleteClaim(p) /\ owed' = Reorder(s)
      BY <1>10, <2>3 DEF Complete
    <3>2. p \in Prompts /\ row[p].session = s
      BY <1>3, <2>1, <2>3 DEF HoldsClaim
    <3>3. Settled(row, row') /\ Gentle(row, row')
      BY <1>2, <2>3, <3>1, <3>2, PromptStatements
    <3>4. /\ \A q \in Prompts \ {p} : row'[q] = row[q]
          /\ row'[p].state = "dispatched"
      BY <1>2, <3>1, <3>2 DEF CompleteClaim, Row
    <3>5. \A u : u # s => Active(u)' = Active(u)
      BY <1>2, <3>2, <3>4, OneRowQueues, StateSets
    <3> QED BY <1>2, <2>1, <3>1, <3>3, <3>5, LeavingStep
  <2> QED BY <2>2, <2>3
<1> QED BY <1>5, <1>6, <1>7, <1>8, <1>9, <1>10 DEF CallerStep

LEMMA RouteStepQueues ==
  ASSUME DeliveryInv, RouteStep
  PROVE  /\ \/ \E s \in Sessions, p \in Prompts, k \in Keys \cup {None} : OwnerAdds(s, p, k)
            \/ QueueStep
         /\ \/ ServeAcknowledge
            \/ ServeReconcile
            \/ Gentle(row, row')
<1>1. TypeOK /\ TypeOK'
  BY RouteStepType DEF DeliveryInv
<1>2. row \in [Prompts -> Row] /\ row' \in [Prompts -> Row]
  BY <1>1 DEF TypeOK, StoreTypeOK
<1>3. ASSUME NEW s \in Sessions, NEW p \in Prompts, NEW k \in Keys \cup {None}, OwnerAdds(s, p, k)
      PROVE  Gentle(row, row')
  <2>1. row[p].state = "absent" /\ row'[p].state = "pending" /\ \A q \in Prompts \ {p} : row'[q] = row[q]
    BY <1>2, <1>3 DEF OwnerAdds, AddPrompt
  <2> QED BY <2>1 DEF Gentle, GentleRow
<1>4. ASSUME NEW s \in Sessions, NEW p \in Prompts, OwnerEdits(s, p)
      PROVE  QueueStep /\ Gentle(row, row')
  <2>1. owed = Nothing /\ UpdatePromptContent(s, p)
    BY <1>4, NotOwed DEF OwnerEdits
  <2>2. Settled(row, row') /\ Gentle(row, row') /\ Stays(row, row')
    BY <1>2, <2>1, PromptStatements
  <2> QED BY <1>2, <2>1, <2>2, StayingStep
<1>5. ASSUME NEW s \in Sessions, NEW p \in Prompts, OwnerDeletes(s, p)
      PROVE  QueueStep /\ Gentle(row, row')
  <2>1. owed = Nothing /\ owed' = Reorder(s) /\ DeletePromptById(s, p)
    BY <1>5, NotOwed DEF OwnerDeletes
  <2>2. Settled(row, row') /\ Gentle(row, row')
    BY <1>2, <2>1, PromptStatements
  <2>3. row[p].session = s /\ \A q \in Prompts \ {p} : row'[q] = row[q]
    BY <1>2, <2>1 DEF DeletePromptById
  <2>4. row'[p].state = "deleted"
    BY <1>2, <2>1 DEF DeletePromptById, Empty
  <2>5. \A u : u # s => Active(u)' = Active(u)
    BY <1>2, <2>3, <2>4, OneRowQueues, StateSets
  <2> QED BY <1>2, <2>1, <2>2, <2>5, LeavingStep
<1>6. ASSUME \/ \E s \in Sessions, p \in Prompts, kind \in {"acknowledge", "accepted", "retry"} :
                  ListQueue(s, p, kind)
             \/ PostRequest \/ DropRequest
      PROVE  QueueStep /\ Gentle(row, row')
  <2>1. row' = row /\ owed = Nothing
    BY <1>6, NotOwed DEF ListQueue, PostRequest, DropRequest
  <2> QED BY <1>2, <2>1, SameRows, StayingStep
<1>7. ASSUME ServeAcknowledge \/ ServeReconcile PROVE QueueStep
  <2>1. owed = Nothing /\ request.item \in Prompts
    BY <1>1, <1>7, NotOwed DEF ServeAcknowledge, ServeReconcile, TypeOK, Request
  <2> DEFINE s == request.session  p == request.item  n == request.revision
             t == request.token  kind == request.kind
  <2>2. AcknowledgePrompt(s, p, n) \/ ReconcileClaim(s, p, n, t, kind)
    BY <1>7 DEF ServeAcknowledge, ServeReconcile
  <2>0. p \in Prompts
    BY <2>1
  <2> HIDE DEF s, p, n, t, kind
  <2>9. PICK table \in [Prompts -> Row] : Decided(p, s, table)
    BY <1>2, <2>0, <2>2, DecisionStatements
  <2>3. /\ row' = Renumbered(table, s) /\ Settled(row, table)
        /\ \A u : u # s => ActiveIn(table, u) = ActiveIn(row, u)
    BY <2>9 DEF Decided
  <2>4. Kept(row, row') /\ Unclaimed(row, row')
    BY <1>2, <2>3, RenumberedSettles DEF Settled
  <2>5. \A u : owed # Reorder(u)
    BY <2>1, NotOwed
  <2>6. QueueRenumbered
    BY <2>3, <2>5 DEF QueueRenumbered
  <2> QED BY <2>4, <2>6 DEF QueueStep
<1> QED BY <1>3, <1>4, <1>5, <1>6, <1>7 DEF RouteStep

LEMMA RetireQueues ==
  ASSUME TypeOK, RunRetire
  PROVE  QueueStep
<1>1. row \in [Prompts -> Row]
  BY DEF TypeOK, StoreTypeOK
<1> DEFINE s == owed.session  g == owed.trigger
<1>2. owed.op = "retire" /\ owed' = Reorder(s)
  BY DEF RunRetire
<1>3. row' = row \/ RetireForFreshHumanTrigger(s, cut[g].rows)
  BY DEF RunRetire
<1>4. /\ Settled(row, row')
      /\ \A u : u # s => Active(u)' = Active(u)
  <2>1. CASE row' = row
    BY <1>1, <2>1, SameRows DEF Active
  <2>2. CASE RetireForFreshHumanTrigger(s, cut[g].rows)
    BY <1>1, <2>2, RetireStatements
  <2> QED BY <1>3, <2>1, <2>2
<1>5. \A u : owed # Reorder(u)
  BY <1>2 DEF Reorder
<1> HIDE DEF s
<1>6. QueuesKept
  BY <1>2, <1>4, <1>5 DEF QueuesKept, Settled
<1> QED BY <1>4, <1>6 DEF Settled, QueueStep

LEMMA ReorderQueues ==
  ASSUME TypeOK, RunReorder
  PROVE  QueueStep /\ Gentle(row, row')
<1>1. row \in [Prompts -> Row]
  BY DEF TypeOK, StoreTypeOK
<1>2. PICK s : owed = Reorder(s) /\ owed.session = s
  BY DEF TypeOK, Owed, RunReorder, Nothing, Reorder
<1>3. row' = Renumbered(row, s)
  BY <1>2 DEF RunReorder, ReorderQueue
<1>4. \A u : u # s => owed # Reorder(u)
  BY <1>2, NotOwed
<1>5. Settled(row, row) /\ Gentle(row, row)
  BY <1>1, SameRows
<1>6. QueueRenumbered
  BY <1>1, <1>3, <1>4, <1>5 DEF QueueRenumbered
<1>7. Kept(row, row') /\ Unclaimed(row, row')
  BY <1>1, <1>3, <1>5, RenumberedSettles DEF Settled
<1>8. \A q \in Prompts : row'[q].state = row[q].state /\ row'[q].revision = row[q].revision
  BY <1>1, <1>3, RenumberedRow
<1>9. Gentle(row, row')
  BY <1>8 DEF Gentle, GentleRow
<1> QED BY <1>6, <1>7, <1>9 DEF QueueStep

LEMMA RebindRows ==
  ASSUME row \in [Prompts -> Row], NEW src, NEW dst, RebindSession(src, dst)
  PROVE  \A q \in Prompts :
           /\ row'[q].state = row[q].state /\ row'[q].key = row[q].key
           /\ row'[q].revision = row[q].revision
           /\ row'[q].token = row[q].token /\ row'[q].delivery = row[q].delivery
           /\ row'[q].order = row[q].order /\ row'[q].rowid = row[q].rowid
           /\ row'[q].session = IF row[q].session = src THEN dst ELSE row[q].session
<1>1. \A q \in Prompts : row'[q] = IF row[q].session = src THEN [row[q] EXCEPT !.session = dst] ELSE row[q]
  BY DEF RebindSession
<1>2. \A q \in Prompts : /\ [row[q] EXCEPT !.session = dst].state = row[q].state
                         /\ [row[q] EXCEPT !.session = dst].key = row[q].key
                         /\ [row[q] EXCEPT !.session = dst].revision = row[q].revision
                         /\ [row[q] EXCEPT !.session = dst].token = row[q].token
                         /\ [row[q] EXCEPT !.session = dst].delivery = row[q].delivery
                         /\ [row[q] EXCEPT !.session = dst].order = row[q].order
                         /\ [row[q] EXCEPT !.session = dst].rowid = row[q].rowid
                         /\ [row[q] EXCEPT !.session = dst].session = dst
  BY DEF Row
<1> QED BY <1>1, <1>2

LEMMA HousekeepingQueues ==
  ASSUME DeliveryInv, HousekeepingStep
  PROVE  /\ \/ \E pair \in Rebinds : Rebind(pair[1], pair[2])
            \/ Crash
            \/ QueueStep
         /\ \/ \E s \in Sessions : DedicatedRecovery(s)
            \/ Gentle(row, row')
<1>1. TypeOK /\ TypeOK'
  BY OtherStepsType DEF DeliveryInv
<1>2. row \in [Prompts -> Row] /\ row' \in [Prompts -> Row]
  BY <1>1 DEF TypeOK, StoreTypeOK
<1>3. ASSUME NEW s \in Sessions, DedicatedRecovery(s) PROVE QueueStep
  <2>1. owed = Nothing /\ owed' = owed /\ SupersedeDedicatedPending(s)
    BY <1>3, NotOwed DEF DedicatedRecovery, proc
  <2>2. Settled(row, row') /\ \A u : u # s => Active(u)' = Active(u)
    BY <1>2, <2>1, RetireStatements
  <2>3. Active(s)' = {}
    BY <1>2, <2>1, RetireStatements
  <2>4. QueuesKept
    BY <2>1, <2>2, <2>3, NotOwed DEF QueuesKept, Settled
  <2> QED BY <2>2, <2>4 DEF QueueStep, Settled
<1>4. ASSUME NEW s \in Sessions, SessionStops(s) \/ SessionStarts(s) PROVE QueueStep /\ Gentle(row, row')
  <2>1. row' = row /\ owed = Nothing
    BY <1>4, NotOwed DEF SessionStops, SessionStarts
  <2> QED BY <1>2, <2>1, SameRows, StayingStep
<1>5. ASSUME NEW p \in Prompts, Retention(p) PROVE QueueStep /\ Gentle(row, row')
  <2>1. owed = Nothing /\ PruneHistory(p)
    BY <1>5, NotOwed DEF Retention
  <2>2. Settled(row, row') /\ Gentle(row, row') /\ Stays(row, row')
    BY <1>2, <2>1, PromptStatements
  <2> QED BY <1>2, <2>1, <2>2, StayingStep
<1>6. CASE SetDrain
  <2>1. row' = row /\ owed = Nothing
    BY <1>6, NotOwed DEF SetDrain
  <2> QED BY <1>2, <2>1, SameRows, StayingStep
<1>7. ASSUME NEW pair \in Rebinds, Rebind(pair[1], pair[2]) PROVE Gentle(row, row')
  <2>1. RebindSession(pair[1], pair[2])
    BY <1>7 DEF Rebind
  <2>2. \A q \in Prompts : row'[q].state = row[q].state /\ row'[q].revision = row[q].revision
    BY <1>2, <2>1, RebindRows
  <2> QED BY <2>2 DEF Gentle, GentleRow
<1>8. Crash => Gentle(row, row')
  BY <1>2, SameRows DEF Crash
<1> QED BY <1>3, <1>4, <1>5, <1>6, <1>7, <1>8 DEF HousekeepingStep

\* Every step adds a prompt, claims one, rebinds a queue, is a crash, or moves the
\* rows of the queues in no other way than QueueStep says.
LEMMA NextQueues ==
  ASSUME DeliveryInv, Next
  PROVE  /\ \/ \E s \in Sessions, p \in Prompts, k \in Keys \cup {None} : OwnerAdds(s, p, k)
            \/ \E c \in Callers, p \in Prompts, t \in Tokens : Claim(c, p, t)
            \/ \E pair \in Rebinds : Rebind(pair[1], pair[2])
            \/ Crash
            \/ QueueStep
         /\ \/ RunRetire
            \/ \E s \in Sessions : DedicatedRecovery(s)
            \/ ServeAcknowledge
            \/ ServeReconcile
            \/ Gentle(row, row')
<1>1. TypeOK /\ row \in [Prompts -> Row]
  BY DEF DeliveryInv, TypeOK, StoreTypeOK
<1>2. row' = row /\ owed = Nothing => QueueStep /\ Gentle(row, row')
  BY <1>1, SameRows, StayingStep
<1>3. ASSUME NEW c \in Callers, NEW s \in Sessions, AutoBegin(c, s) \/ ManualBegin(c, s)
      PROVE  QueueStep /\ Gentle(row, row')
  <2>1. row' = row /\ owed = Nothing
    BY <1>3, NotOwed DEF AutoBegin, ManualBegin
  <2> QED BY <1>2, <2>1
<1>4. ASSUME NEW c \in Callers, CallerStep(c)
      PROVE  /\ \/ \E p \in Prompts, t \in Tokens : Claim(c, p, t)
                \/ QueueStep
             /\ Gentle(row, row')
  BY <1>4, CallerStepQueues
<1>5. ASSUME NEW t \in Tokens, AgentStep(t)
      PROVE  QueueStep /\ Gentle(row, row')
  <2>1. row' = row /\ owed' = owed
    BY <1>5 DEF AgentStep, AgentAccepts, AgentRefuses, AgentFails, Answer
  <2>2. Settled(row, row') /\ Gentle(row, row')
    BY <1>1, <2>1, SameRows
  <2>3. \A u \in Sessions : owed' = Reorder(u) \/ (Active(u)' = Active(u) /\ owed # Reorder(u))
    BY <2>1 DEF Active
  <2> QED BY <2>2, <2>3 DEF QueueStep, QueuesKept, Settled
<1>6. CASE RouteStep
  BY <1>6, RouteStepQueues
<1>7. CASE BoundaryStep
  <2>1. ASSUME \/ \E g \in Triggers, s \in Sessions : CaptureBoundary(g, s)
               \/ \E g \in Triggers : RetryBoundary(g)
        PROVE  QueueStep /\ Gentle(row, row')
    <3>1. row' = row /\ owed = Nothing
      BY <2>1, NotOwed DEF CaptureBoundary, RetryBoundary
    <3>2. Settled(row, row') /\ Gentle(row, row')
      BY <1>1, <3>1, SameRows
    <3>3. \A u \in Sessions : Active(u)' = Active(u)
      BY <3>1 DEF Active
    <3> QED BY <3>1, <3>2, <3>3, NotOwed DEF QueueStep, QueuesKept, Settled
  <2>2. RunRetire => QueueStep
    BY <1>1, RetireQueues
  <2>3. RunReorder => QueueStep /\ Gentle(row, row')
    BY <1>1, ReorderQueues
  <2> QED BY <1>7, <2>1, <2>2, <2>3 DEF BoundaryStep
<1>8. CASE HousekeepingStep
  BY <1>8, HousekeepingQueues
<1>9. ASSUME NEW c \in Callers, CallerStep(c)
      PROVE \/ \E d \in Callers, p \in Prompts, t \in Tokens : Claim(d, p, t)
            \/ QueueStep
  BY <1>4, <1>9
<1> QED BY <1>3, <1>4, <1>5, <1>6, <1>7, <1>8, <1>9 DEF Next

-----------------------------------------------------------------------------
(* What holds whatever the environment does *)

\* A prompt that left the queue as dispatched, handled or superseded never comes
\* back: a late release, answer or decision finds its WHERE clause empty
\* (releaseRejectedClaim, completeClaim, reconcileClaim), and retention only
\* deletes (prunePromptQueueHistory).
THEOREM TerminalStaysFinal == Spec => TerminalIsFinal
<1>1. DeliveryInv /\ [Next]_vars =>
        [\A p \in Prompts : row[p].state \in TerminalStates =>
           row'[p].state \in {row[p].state, "deleted"}]_vars
  <2> SUFFICES ASSUME DeliveryInv, Next, NEW p \in Prompts, row[p].state \in TerminalStates
               PROVE  row'[p].state \in {row[p].state, "deleted"}
    OBVIOUS
  <2>1. row \in [Prompts -> Row]
    BY DEF DeliveryInv, TypeOK, StoreTypeOK
  <2>2. ASSUME NEW s \in Sessions, NEW q \in Prompts, NEW k \in Keys \cup {None}, OwnerAdds(s, q, k)
        PROVE  row'[p] = row[p]
    BY <2>1, <2>2, StateSets DEF OwnerAdds, AddPrompt
  <2>3. ASSUME NEW c \in Callers, NEW q \in Prompts, NEW t \in Tokens, Claim(c, q, t)
        PROVE  row'[p] = row[p]
    BY <2>1, <2>3, StateSets DEF Claim, ClaimNextPrompt
  <2>4. ASSUME NEW pair \in Rebinds, Rebind(pair[1], pair[2]) PROVE row'[p].state = row[p].state
    BY <2>1, <2>4, RebindRows DEF Rebind
  <2>5. Crash => row'[p] = row[p]
    BY DEF Crash
  <2>6. QueueStep => row'[p].state \in {row[p].state, "deleted"}
    BY DEF QueueStep, Kept, KeptRow
  <2> QED BY <2>2, <2>3, <2>4, <2>5, <2>6, NextQueues
<1> QED BY <1>1, DeliveryInvariant, PTL DEF Spec, TerminalIsFinal

\* Whoever acknowledges or consumes a prompt names the revision that was read, so
\* an edit made meanwhile is not lost (acknowledgePrompt, consumePrompt).
THEOREM ConsumesWhatWasRead == Spec => ConsumesOnlyWhatWasRead
<1>1. DeliveryInv /\ [Next]_vars =>
        [\A p \in Prompts : (row[p].state = "pending" /\ row'[p].state = "handled")
           => /\ request # None
              /\ request.item = p
              /\ request.revision = row[p].revision]_vars
  <2> SUFFICES ASSUME DeliveryInv, Next, NEW p \in Prompts,
                      row[p].state = "pending", row'[p].state = "handled"
               PROVE  request # None /\ request.item = p /\ request.revision = row[p].revision
    OBVIOUS
  <2>1. row \in [Prompts -> Row] /\ TypeOK
    BY DEF DeliveryInv, TypeOK, StoreTypeOK
  <2>2. ~Gentle(row, row')
    BY DEF Gentle, GentleRow
  <2>3. ~RunRetire /\ \A s \in Sessions : ~DedicatedRecovery(s)
    <3>1. row'[p] # row[p] /\ [row[p] EXCEPT !.state = "superseded", !.revision = @ + 1].state # "handled"
      BY <2>1 DEF Row
    <3> QED BY <2>1, <3>1 DEF RunRetire, RetireForFreshHumanTrigger, DedicatedRecovery,
                              SupersedeDedicatedPending
  <2>4. ASSUME ServeAcknowledge \/ ServeReconcile
        PROVE  /\ request.item = p
               /\ row[request.item].state = "pending" => ServeAcknowledge
    <3> DEFINE s == request.session  q == request.item  n == request.revision
               t == request.token  kind == request.kind
    <3>1. AcknowledgePrompt(s, q, n) \/ ReconcileClaim(s, q, n, t, kind)
      BY <2>4 DEF ServeAcknowledge, ServeReconcile
    <3>2. q \in Prompts
      BY <2>1, <2>4 DEF ServeAcknowledge, ServeReconcile, TypeOK, Request
    <3>3. ServeReconcile => row[q].state = "claimed"
      BY DEF ServeReconcile, ReconcileClaim, HoldsClaim
    <3> HIDE DEF s, q, n, t, kind
    <3>4. PICK table \in [Prompts -> Row] : Decided(q, s, table)
      BY <2>1, <3>1, <3>2, DecisionStatements
    <3>5. row'[p].state = table[p].state
      BY <3>4, RenumberedRow DEF Decided
    <3>6. q = p
      BY <3>4, <3>5 DEF Decided
    <3> QED BY <2>4, <3>3, <3>6 DEF q
  <2>5. ServeAcknowledge /\ request.item = p
    BY <2>2, <2>3, <2>4, NextQueues
  <2> QED BY <2>5 DEF ServeAcknowledge, AcknowledgePrompt
<1> QED BY <1>1, DeliveryInvariant, PTL DEF Spec, ConsumesOnlyWhatWasRead

\* The rest of a boundary is owed only for a trigger whose snapshot was saved.
RetireOK == owed.op = "retire" => owed.trigger \in Triggers /\ cut[owed.trigger] # None

LEMMA BoundaryMoves ==
  ASSUME TypeOK, RetireOK, [Next]_vars
  PROVE  /\ \A g \in Triggers : cut[g] # None => cut'[g] = cut[g]
         /\ RetireOK'
<1>1. ASSUME NEW g \in Triggers, NEW s \in Sessions, CaptureBoundary(g, s)
      PROVE  /\ \A h \in Triggers : cut[h] # None => cut'[h] = cut[h]
             /\ RetireOK'
  <2>1. owed'.trigger = g /\ cut[g] = None
    BY <1>1 DEF CaptureBoundary
  <2>2. cut'[g] = [session |-> s, rows |-> FreshHumanCutoff(s)] /\ \A h \in Triggers \ {g} : cut'[h] = cut[h]
    BY <1>1 DEF CaptureBoundary, TypeOK
  <2>3. FreshHumanCutoff(s) \in SUBSET (Prompts \X Nat)
    BY DEF TypeOK, StoreTypeOK, Row, Active, FreshHumanCutoff
  <2>4. cut'[g] # None
    BY <2>2, <2>3, CutAssumption DEF Cut
  <2> QED BY <2>1, <2>2, <2>4 DEF RetireOK
<1>2. ASSUME NEW g \in Triggers, RetryBoundary(g)
      PROVE  cut' = cut /\ RetireOK'
  BY <1>2 DEF RetryBoundary, Retire, RetireOK
<1>3. ASSUME RunRetire \/ RunReorder \/ Crash \/ (\E s \in Sessions, p \in Prompts : OwnerDeletes(s, p))
             \/ \E c \in Callers : Complete(c)
      PROVE  cut' = cut /\ RetireOK'
  <2>1. cut' = cut /\ (owed' = owed \/ owed' = Nothing \/ \E s : owed' = Reorder(s))
    BY <1>3 DEF RunRetire, RunReorder, Crash, OwnerDeletes, Complete
  <2> QED BY <2>1 DEF RetireOK, Nothing, Reorder
<1>4. ASSUME cut' = cut, owed' = owed PROVE RetireOK'
  BY <1>4 DEF RetireOK
<1>5. ASSUME NEW c \in Callers, CallerStep(c), ~Complete(c) PROVE cut' = cut /\ owed' = owed
  BY <1>5 DEF CallerStep, ProbeReady, ReadinessFails, Claim, NothingToClaim, PassGate, RefusedAtGate,
              AdapterFails, Send, SendRefused, Accepted, Finish, Rejected, Uncertain
<1>6. ASSUME \/ UNCHANGED vars
             \/ \E c \in Callers, s \in Sessions : AutoBegin(c, s) \/ ManualBegin(c, s)
             \/ \E t \in Tokens : AgentStep(t)
      PROVE  cut' = cut /\ owed' = owed
  BY <1>6 DEF vars, AutoBegin, ManualBegin, AgentStep, AgentAccepts, AgentRefuses, AgentFails, Answer
<1>7. ASSUME RouteStep, \A s \in Sessions, p \in Prompts : ~OwnerDeletes(s, p)
      PROVE  cut' = cut /\ owed' = owed
  BY <1>7 DEF RouteStep, OwnerAdds, OwnerEdits, ListQueue, PostRequest, ServeAcknowledge, ServeReconcile,
              DropRequest, proc
<1>8. ASSUME HousekeepingStep, ~Crash PROVE cut' = cut /\ owed' = owed
  BY <1>8 DEF HousekeepingStep, DedicatedRecovery, SessionStops, SessionStarts, Retention, SetDrain, Rebind,
              proc
<1> QED BY <1>1, <1>2, <1>3, <1>4, <1>5, <1>6, <1>7, <1>8 DEF Next, BoundaryStep

\* A fresh-human boundary retires exactly captured text, once per trigger
\* (captureFreshHumanCutoff, retireForFreshHumanTrigger): prompts that arrive or
\* are edited after the trigger was first seen survive its retries.
THEOREM BoundaryRetiresCaptured == Spec => BoundaryRetiresOnlyCaptured
<1>1. Init => RetireOK
  BY DEF Init, Nothing, RetireOK
<1>2. TypeOK /\ RetireOK /\ [Next]_vars => RetireOK'
  BY BoundaryMoves
<1>3. Spec => []RetireOK
  BY <1>1, <1>2, TypeCorrect, PTL DEF Spec
<1>4. DeliveryInv /\ RetireOK /\ [Next]_vars =>
        [/\ \A g \in Triggers : cut[g] # None => cut'[g] = cut[g]
         /\ \A p \in Prompts :
              (row[p].state \in ActiveStates /\ row'[p].state = "superseded"
                 /\ row[p].session \notin Dedicated)
                => \E g \in Triggers \ retired :
                     cut[g] # None /\ <<p, row[p].revision>> \in cut[g].rows]_vars
  <2> SUFFICES ASSUME DeliveryInv, RetireOK, Next
               PROVE  /\ \A g \in Triggers : cut[g] # None => cut'[g] = cut[g]
                      /\ \A p \in Prompts :
                           (row[p].state \in ActiveStates /\ row'[p].state = "superseded"
                              /\ row[p].session \notin Dedicated)
                             => \E g \in Triggers \ retired :
                                  cut[g] # None /\ <<p, row[p].revision>> \in cut[g].rows
    OBVIOUS
  <2>1. row \in [Prompts -> Row] /\ TypeOK
    BY DEF DeliveryInv, TypeOK, StoreTypeOK
  <2>2. \A g \in Triggers : cut[g] # None => cut'[g] = cut[g]
    BY <2>1, BoundaryMoves
  <2>3. ASSUME NEW p \in Prompts, row[p].state \in ActiveStates, row'[p].state = "superseded",
               row[p].session \notin Dedicated
        PROVE  \E g \in Triggers \ retired : cut[g] # None /\ <<p, row[p].revision>> \in cut[g].rows
    <3>1. ~Gentle(row, row') /\ row'[p] # row[p]
      BY <2>3, StateSets DEF Gentle, GentleRow
    <3>2. \A s \in Sessions : ~DedicatedRecovery(s)
      BY <2>1, <2>3, <3>1 DEF DedicatedRecovery, SupersedeDedicatedPending, Active
    <3>3. ~ServeAcknowledge /\ ~ServeReconcile
      <4> SUFFICES ASSUME ServeAcknowledge \/ ServeReconcile PROVE FALSE
        OBVIOUS
      <4> DEFINE s == request.session  q == request.item  n == request.revision
                 t == request.token  kind == request.kind
      <4>1. AcknowledgePrompt(s, q, n) \/ ReconcileClaim(s, q, n, t, kind)
        BY DEF ServeAcknowledge, ServeReconcile
      <4>2. q \in Prompts
        BY <2>1 DEF ServeAcknowledge, ServeReconcile, TypeOK, Request
      <4> HIDE DEF s, q, n, t, kind
      <4>3. PICK table \in [Prompts -> Row] : Decided(q, s, table)
        BY <2>1, <4>1, <4>2, DecisionStatements
      <4>4. row'[p].state = table[p].state
        BY <4>3, RenumberedRow DEF Decided
      <4> QED BY <2>3, <4>3, <4>4, StateSets DEF Decided
    <3>4. RunRetire
      BY <3>1, <3>2, <3>3, NextQueues
    <3>5. owed.trigger \notin retired /\ <<p, row[p].revision>> \in cut[owed.trigger].rows
      BY <2>1, <3>1, <3>4 DEF RunRetire, RetireForFreshHumanTrigger
    <3>6. owed.trigger \in Triggers /\ cut[owed.trigger] # None
      BY <3>4 DEF RunRetire, RetireOK
    <3> QED BY <3>5, <3>6
  <2> QED BY <2>2, <2>3
<1> QED BY <1>3, <1>4, DeliveryInvariant, PTL DEF Spec, BoundaryRetiresOnlyCaptured

\* No two active prompts of a session share a dedupe key: the unique index that
\* addPrompt and rebindSession meet, and claims given back do not disturb.
THEOREM KeysAreUnique == Spec => []OneActivePerKey
<1>1. Init => OneActivePerKey
  BY DEF Init, StoreInit, Empty, Active, ActiveStates, OneActivePerKey
<1>2. DeliveryInv /\ OneActivePerKey /\ [Next]_vars => OneActivePerKey'
  <2> SUFFICES ASSUME DeliveryInv, OneActivePerKey, [Next]_vars,
                      NEW s \in Sessions, NEW p \in Active(s)', NEW q \in Active(s)', p # q,
                      row'[p].key # None
               PROVE  row'[p].key # row'[q].key
    BY DEF OneActivePerKey
  <2>1. row \in [Prompts -> Row] /\ p \in Prompts /\ q \in Prompts
    BY DEF DeliveryInv, TypeOK, StoreTypeOK, Active
  <2>2. ASSUME p \in Active(s), q \in Active(s), row'[p].key = row[p].key, row'[q].key = row[q].key
        PROVE  row'[p].key # row'[q].key
    BY <2>2 DEF OneActivePerKey
  <2>3. ASSUME row' = row PROVE row'[p].key # row'[q].key
    BY <2>2, <2>3 DEF Active
  <2>4. ASSUME NEW u \in Sessions, NEW a \in Prompts, NEW k \in Keys \cup {None}, OwnerAdds(u, a, k)
        PROVE  row'[p].key # row'[q].key
    <3>1. /\ row[a].state = "absent" /\ row'[a].key = k /\ row'[a].session = u
          /\ k # None => \A r \in Active(u) : row[r].key # k
          /\ \A r \in Prompts \ {a} : row'[r] = row[r]
      BY <2>1, <2>4 DEF OwnerAdds, AddPrompt
    <3>2. \A r \in Active(s)' \ {a} : r \in Active(s)
      BY <3>1 DEF Active
    <3> QED BY <2>1, <2>2, <3>1, <3>2 DEF Active
  <2>5. ASSUME NEW c \in Callers, NEW a \in Prompts, NEW t \in Tokens, Claim(c, a, t)
        PROVE  row'[p].key # row'[q].key
    <3> DEFINE new == [row[a] EXCEPT !.state = "claimed", !.token = t, !.delivery = "unsent"]
    <3>1. row' = [row EXCEPT ![a] = new] /\ row[a].state = "pending" /\ row[a] \in Row
      BY <2>1, <2>5 DEF Claim, ClaimNextPrompt
    <3>2. new.session = row[a].session /\ new.key = row[a].key
      BY <3>1 DEF Row
    <3> HIDE DEF new
    <3>3. \A r \in Active(s)' : r \in Active(s) /\ row'[r].key = row[r].key
      BY <2>1, <3>1, <3>2, StateSets DEF Active
    <3> QED BY <2>2, <3>3
  <2>6. ASSUME NEW pair \in Rebinds, Rebind(pair[1], pair[2]) PROVE row'[p].key # row'[q].key
    <3> DEFINE src == pair[1]  dst == pair[2]
    <3>1. /\ src # dst
          /\ \A a \in Active(src), b \in Active(dst) : row[a].key # None => row[a].key # row[b].key
          /\ RebindSession(src, dst)
      BY <2>6 DEF Rebind, RebindSession
    <3> HIDE DEF src, dst
    <3>2. \A r \in Prompts : /\ row'[r].state = row[r].state /\ row'[r].key = row[r].key
                             /\ row'[r].session = IF row[r].session = src THEN dst ELSE row[r].session
      BY <2>1, <3>1, RebindRows
    <3>3. \A r \in Active(s)' : \/ r \in Active(s)
                                \/ s = dst /\ r \in Active(src)
      BY <3>2 DEF Active
    <3>4. src \in Sessions
      BY <2>6, DispatchAssumption DEF src
    <3>5. CASE p \in Active(s) /\ q \in Active(s)
      BY <2>1, <2>2, <3>2, <3>5
    <3>6. CASE p \in Active(src) /\ q \in Active(src)
      BY <2>1, <3>2, <3>4, <3>6 DEF OneActivePerKey
    <3>7. ASSUME s = dst, \/ (p \in Active(src) /\ q \in Active(s))
                          \/ (q \in Active(src) /\ p \in Active(s))
          PROVE  row'[p].key # row'[q].key
      BY <2>1, <3>1, <3>2, <3>7
    <3>8. /\ p \in Active(s) \/ (s = dst /\ p \in Active(src))
          /\ q \in Active(s) \/ (s = dst /\ q \in Active(src))
      BY <3>3
    <3> QED BY <3>5, <3>6, <3>7, <3>8
  <2>7. ASSUME QueueStep PROVE row'[p].key # row'[q].key
    <3>1. \A r \in Active(s)' : r \in Active(s) /\ row'[r].key = row[r].key
      BY <2>7, StateSets DEF QueueStep, Kept, KeptRow, Active
    <3> QED BY <2>2, <3>1
  <2>8. UNCHANGED vars \/ Crash => row' = row
    BY DEF vars, Crash
  <2> QED BY <2>3, <2>4, <2>5, <2>6, <2>7, <2>8, NextQueues
<1> QED BY <1>1, <1>2, DeliveryInvariant, PTL DEF Spec

-----------------------------------------------------------------------------
(* What every step does to the activations *)

CallKept(d) == /\ call'[d].session = call[d].session
               /\ call'[d].item = call[d].item /\ call'[d].token = call[d].token

\* An activation enters a session that none is in.
CallEnters ==
  \E c \in Callers, s \in Sessions, pc \in {"probe", "ready"} :
    call[c] = Idle /\ s \notin inFlight /\ Enter(c, s, pc) /\ row' = row

\* One leaves.
CallLeaves == \E c \in Callers : Busy(c) /\ Leave(c)

\* One goes on where it is.
CallGoes(c) ==
  /\ Busy(c) /\ inFlight' = inFlight
  /\ Busy(c)' /\ call'[c].session = call[c].session
  /\ \A d \in Callers \ {c} : call'[d] = call[d]

\* None moves.
CallsRest ==
  /\ inFlight' = inFlight
  /\ \A d \in Callers : call'[d].pc = call[d].pc /\ CallKept(d)

LEMMA CallerMoves ==
  ASSUME DeliveryInv, NEW c \in Callers, CallerStep(c)
  PROVE  \/ CallLeaves
         \/ /\ CallGoes(c)
            /\ \/ \E p \in Prompts, t \in Tokens : Claim(c, p, t)
               \/ CallKept(c) /\ (call'[c].pc \in PastClaim => call[c].pc \in PastClaim)
<1>1. TypeOK /\ call[c] \in Call
  BY DEF DeliveryInv, TypeOK
<1>2. CASE CallLeaves
  BY <1>2
<1>3. CASE Busy(c) /\ Leave(c)
  BY <1>3 DEF CallLeaves
<1>4. ASSUME NEW pc, Busy(c), Goto(c, pc), pc # "idle", pc \in PastClaim => call[c].pc \in PastClaim
      PROVE  /\ CallGoes(c) /\ CallKept(c)
             /\ call'[c].pc \in PastClaim => call[c].pc \in PastClaim
  <2>1. /\ call'[c].pc = pc /\ call'[c].session = call[c].session
        /\ call'[c].item = call[c].item /\ call'[c].token = call[c].token
        /\ \A d \in Callers \ {c} : call'[d] = call[d]
    BY <1>1, <1>4 DEF Goto, TypeOK, Call
  <2> QED BY <1>4, <2>1 DEF Goto, CallGoes, CallKept, Busy
<1>5. CASE ProbeReady(c)
  <2>1. Busy(c) /\ Goto(c, "ready")
    BY <1>5 DEF ProbeReady, Busy
  <2> QED BY <1>4, <2>1, Phase
<1>6. CASE \/ ReadinessFails(c) \/ NothingToClaim(c) \/ RefusedAtGate(c) \/ AdapterFails(c)
           \/ SendRefused(c) \/ Finish(c) \/ Rejected(c) \/ Uncertain(c)
  BY <1>3, <1>6 DEF ReadinessFails, NothingToClaim, RefusedAtGate, AdapterFails, SendRefused, Finish,
                    Rejected, Uncertain, Busy
<1>7. ASSUME NEW p \in Prompts, NEW t \in Tokens, Claim(c, p, t) PROVE CallGoes(c)
  <2>1. call' = [call EXCEPT ![c].pc = "gate", ![c].item = p, ![c].token = t] /\ inFlight' = inFlight
        /\ call[c].pc = "ready"
    BY <1>7 DEF Claim
  <2>2. /\ call'[c].pc = "gate" /\ call'[c].session = call[c].session
        /\ \A d \in Callers \ {c} : call'[d] = call[d]
    BY <1>1, <2>1 DEF TypeOK, Call
  <2> QED BY <2>1, <2>2 DEF CallGoes, Busy
<1>8. CASE PassGate(c)
  <2>1. Busy(c) /\ Goto(c, "adapter") /\ call[c].pc = "gate"
    BY <1>8 DEF PassGate, Busy
  <2> QED BY <1>4, <2>1, Phase
<1>9. CASE Send(c)
  <2>1. call' = [call EXCEPT ![c].pc = "sent", ![c].reply = "none"] /\ inFlight' = inFlight
        /\ call[c].pc = "adapter"
    BY <1>9 DEF Send
  <2>2. /\ call'[c].pc = "sent" /\ CallKept(c)
        /\ \A d \in Callers \ {c} : call'[d] = call[d]
    BY <1>1, <2>1 DEF TypeOK, Call, CallKept
  <2> QED BY <2>1, <2>2, Phase DEF CallGoes, Busy, CallKept
<1>10. CASE Accepted(c)
  <2>1. Busy(c) /\ call[c].pc \in PastClaim /\ (Goto(c, "complete") \/ Leave(c))
    BY <1>10, Phase DEF Accepted, Busy
  <2> QED BY <1>3, <1>4, <2>1
<1>11. CASE Complete(c)
  <2>1. Busy(c) /\ call[c].pc \in PastClaim /\ (Goto(c, "sync") \/ Leave(c))
    BY <1>11, Phase DEF Complete, Busy
  <2> QED BY <1>3, <1>4, <2>1
<1> QED BY <1>5, <1>6, <1>7, <1>8, <1>9, <1>10, <1>11 DEF CallerStep

LEMMA NextCalls ==
  ASSUME DeliveryInv, Next
  PROVE  \/ CallEnters
         \/ CallLeaves
         \/ \E c \in Callers : CallGoes(c) /\ CallerStep(c)
         \/ CallsRest
         \/ Crash
<1>1. TypeOK
  BY DEF DeliveryInv
<1>2. call' = call /\ inFlight' = inFlight => CallsRest
  BY DEF CallsRest, CallKept
<1>3. ASSUME NEW c \in Callers, NEW s \in Sessions, AutoBegin(c, s) \/ ManualBegin(c, s)
      PROVE  CallEnters
  BY <1>3 DEF AutoBegin, ManualBegin, CallEnters
<1>4. ASSUME NEW c \in Callers, CallerStep(c)
      PROVE  CallLeaves \/ (CallGoes(c) /\ CallerStep(c))
  BY <1>4, CallerMoves
<1>5. ASSUME NEW t \in Tokens, AgentStep(t) PROVE CallsRest
  <2>1. PICK fate, reply : Answer(t, fate, reply)
    BY <1>5 DEF AgentStep, AgentAccepts, AgentRefuses, AgentFails
  <2>2. inFlight' = inFlight /\ \A d \in Callers : call'[d] \in {call[d], [call[d] EXCEPT !.reply = reply]}
    BY <2>1 DEF Answer
  <2>3. \A d \in Callers : /\ [call[d] EXCEPT !.reply = reply].pc = call[d].pc
                           /\ [call[d] EXCEPT !.reply = reply].session = call[d].session
                           /\ [call[d] EXCEPT !.reply = reply].item = call[d].item
                           /\ [call[d] EXCEPT !.reply = reply].token = call[d].token
    BY <1>1 DEF TypeOK, Call
  <2> QED BY <2>2, <2>3 DEF CallsRest, CallKept
<1>6. RouteStep => call' = call /\ inFlight' = inFlight
  BY DEF RouteStep, OwnerAdds, OwnerEdits, OwnerDeletes, ListQueue, PostRequest, ServeAcknowledge,
         ServeReconcile, DropRequest, proc
<1>7. BoundaryStep => call' = call /\ inFlight' = inFlight
  BY DEF BoundaryStep, CaptureBoundary, RetryBoundary, RunRetire, RunReorder
<1>8. HousekeepingStep => Crash \/ (call' = call /\ inFlight' = inFlight)
  BY DEF HousekeepingStep, DedicatedRecovery, SessionStops, SessionStarts, Retention, SetDrain, Rebind, proc
<1> QED BY <1>2, <1>3, <1>4, <1>5, <1>6, <1>7, <1>8 DEF Next

\* At most one activation works on a session, whichever of the two entry points
\* it came through and whatever it is awaiting, and the session is in flight until
\* its finally block has run (queueDispatchInFlight).
THEOREM OneAttempt == Spec => []OneAttemptPerSession
<1>1. Init => OneAttemptPerSession
  BY DEF Init, Idle, Busy, OneAttemptPerSession
<1>2. DeliveryInv /\ OneAttemptPerSession /\ [Next]_vars => OneAttemptPerSession'
  <2> SUFFICES ASSUME DeliveryInv, OneAttemptPerSession, [Next]_vars PROVE OneAttemptPerSession'
    OBVIOUS
  <2>1. call \in [Callers -> Call]
    BY DEF DeliveryInv, TypeOK
  <2>2. CASE CallEnters
    <3>1. PICK c \in Callers, s \in Sessions, pc \in {"probe", "ready"} :
            call[c] = Idle /\ s \notin inFlight /\ Enter(c, s, pc)
      BY <2>2 DEF CallEnters
    <3>2. /\ call'[c].session = s /\ \A d \in Callers \ {c} : call'[d] = call[d]
          /\ inFlight' = inFlight \cup {s}
      BY <2>1, <3>1 DEF Enter, Idle
    <3> QED BY <3>1, <3>2 DEF OneAttemptPerSession, Busy
  <2>3. CASE CallLeaves
    <3>1. PICK c \in Callers : Busy(c) /\ Leave(c)
      BY <2>3 DEF CallLeaves
    <3>2. /\ call'[c].pc = "idle" /\ \A d \in Callers \ {c} : call'[d] = call[d]
          /\ inFlight' = inFlight \ {call[c].session}
      BY <2>1, <3>1 DEF Leave, Idle
    <3> QED BY <3>1, <3>2 DEF OneAttemptPerSession, Busy
  <2>4. ASSUME NEW c \in Callers, CallGoes(c) PROVE OneAttemptPerSession'
    BY <2>4 DEF CallGoes, OneAttemptPerSession, Busy
  <2>5. CASE CallsRest
    BY <2>5 DEF CallsRest, CallKept, OneAttemptPerSession, Busy
  <2>6. CASE Crash
    BY <2>6 DEF Crash, Idle, OneAttemptPerSession, Busy
  <2>7. CASE UNCHANGED vars
    BY <2>7 DEF vars, OneAttemptPerSession, Busy
  <2> QED BY <2>2, <2>3, <2>4, <2>5, <2>6, <2>7, NextCalls
<1> QED BY <1>1, <1>2, DeliveryInvariant, PTL DEF Spec

-----------------------------------------------------------------------------
(* Where no queue is taken from under an attempt *)

\* What a rebind must not do: move the rows of a session that is in flight.
IdleSource == \A pair \in Rebinds : Rebind(pair[1], pair[2]) => pair[1] \notin inFlight

LEMMA RebindPairs == \A pair \in Rebinds : pair[1] \in Sessions /\ pair[2] \in Sessions
BY DispatchAssumption

\* A prompt of a session in flight keeps it for as long as it is there.
RowBound(table, p, s) == \/ table[p].state = "deleted"
                         \/ table[p].state # "absent" /\ table[p].session = s

\* An activation past its claim works on a prompt of its own session.
BoundOK ==
  \A c \in Callers : call[c].pc \in PastClaim => RowBound(row, call[c].item, call[c].session)

\* Before its claim it holds no token.
TokenOK == \A c \in Callers : call[c].pc \in {"probe", "ready"} => call[c].token = None

LEMMA BoundStays ==
  ASSUME DeliveryInv, [Next]_vars, [IdleSource]_vars,
         NEW p \in Prompts, NEW s \in inFlight, RowBound(row, p, s)
  PROVE  RowBound(row', p, s)
<1>1. row \in [Prompts -> Row]
  BY DEF DeliveryInv, TypeOK, StoreTypeOK
<1>2. ASSUME NEW u \in Sessions, NEW a \in Prompts, NEW k \in Keys \cup {None}, OwnerAdds(u, a, k)
      PROVE  row'[p] = row[p] \/ (row[p].state = "absent" /\ p = a)
  BY <1>1, <1>2 DEF OwnerAdds, AddPrompt
<1>3. ASSUME NEW c \in Callers, NEW a \in Prompts, NEW t \in Tokens, Claim(c, a, t)
      PROVE  RowBound(row', p, s)
  <2> DEFINE new == [row[a] EXCEPT !.state = "claimed", !.token = t, !.delivery = "unsent"]
  <2>1. row' = [row EXCEPT ![a] = new] /\ row[a].state = "pending" /\ row[a] \in Row
    BY <1>1, <1>3 DEF Claim, ClaimNextPrompt
  <2>2. new.session = row[a].session /\ new.state = "claimed"
    BY <2>1 DEF Row
  <2> HIDE DEF new
  <2>3. row'[p] = row[p] \/ (p = a /\ row'[p] = new)
    BY <1>1, <2>1
  <2> QED BY <2>1, <2>2, <2>3 DEF RowBound
<1>4. QueueStep => RowBound(row', p, s)
  BY DEF QueueStep, Kept, KeptRow, RowBound
<1>5. UNCHANGED vars \/ Crash => row' = row
  BY DEF vars, Crash
<1>6. row[p].state # "absent"
  BY DEF RowBound
<1>7. ASSUME NEW pair \in Rebinds, Rebind(pair[1], pair[2]), IdleSource PROVE RowBound(row', p, s)
  <2>1. pair[1] \notin inFlight /\ RebindSession(pair[1], pair[2])
    BY <1>7 DEF IdleSource, Rebind
  <2>2. row'[p].state = row[p].state /\ (row[p].session # pair[1] => row'[p].session = row[p].session)
    BY <1>1, <2>1, RebindRows
  <2> QED BY <2>1, <2>2 DEF RowBound
<1> QED BY <1>2, <1>3, <1>4, <1>5, <1>6, <1>7, NextQueues DEF RowBound

LEMMA BoundMoves ==
  ASSUME DeliveryInv, OneAttemptPerSession, BoundOK, TokenOK, [Next]_vars, [IdleSource]_vars
  PROVE  BoundOK' /\ TokenOK'
<1>1. call \in [Callers -> Call] /\ row \in [Prompts -> Row]
  BY DEF DeliveryInv, TypeOK, StoreTypeOK
<1>2. \A c \in Callers : call[c].pc \in PastClaim => call[c].item \in Prompts
  BY DEF DeliveryInv, CallsOK
<1>3. ASSUME NEW d \in Callers, call[d].pc \in PastClaim, CallKept(d)
      PROVE  RowBound(row', call'[d].item, call'[d].session)
  <2> DEFINE p == call[d].item  s == call[d].session
  <2>1. RowBound(row, p, s) /\ p \in Prompts
    BY <1>2, <1>3 DEF BoundOK
  <2>2. call'[d].item = p /\ call'[d].session = s
    BY <1>3 DEF CallKept
  <2>3. s \in inFlight
    BY <1>3, Phase DEF OneAttemptPerSession, Busy
  <2> HIDE DEF p, s
  <2>4. RowBound(row', p, s)
    BY <2>1, <2>3, BoundStays
  <2> QED BY <2>2, <2>4
<1>4. \A d \in Callers : call'[d] = call[d] => CallKept(d)
  BY DEF CallKept
<1>5. \A d \in Callers : call[d].pc \in {"probe", "ready"} => call[d].token = None
  BY DEF TokenOK
<1>6. CASE CallEnters
  <2>1. PICK c \in Callers, s \in Sessions, pc \in {"probe", "ready"} : Enter(c, s, pc)
    BY <1>6 DEF CallEnters
  <2>2. /\ call'[c].pc = pc /\ call'[c].token = None
        /\ \A d \in Callers \ {c} : call'[d] = call[d]
    BY <1>1, <2>1 DEF Enter, Idle
  <2>3. pc \notin PastClaim
    BY <2>1, Phase
  <2>4. BoundOK'
    BY <1>3, <1>4, <2>2, <2>3 DEF BoundOK
  <2>5. TokenOK'
    BY <1>5, <2>2 DEF TokenOK
  <2> QED BY <2>4, <2>5
<1>7. CASE CallLeaves
  <2>1. PICK c \in Callers : Leave(c)
    BY <1>7 DEF CallLeaves
  <2>2. call'[c].pc = "idle" /\ \A d \in Callers \ {c} : call'[d] = call[d]
    BY <1>1, <2>1 DEF Leave, Idle
  <2>3. BoundOK'
    BY <1>3, <1>4, <2>2, Phase DEF BoundOK
  <2>4. TokenOK'
    BY <1>5, <2>2 DEF TokenOK
  <2> QED BY <2>3, <2>4
<1>8. ASSUME NEW c \in Callers, CallGoes(c), CallerStep(c) PROVE BoundOK' /\ TokenOK'
  <2>1. \A d \in Callers \ {c} : call'[d] = call[d]
    BY <1>8 DEF CallGoes
  <2>2. ASSUME NEW p \in Prompts, NEW t \in Tokens, Claim(c, p, t)
        PROVE  BoundOK' /\ TokenOK'
    <3>1. /\ call' = [call EXCEPT ![c].pc = "gate", ![c].item = p, ![c].token = t]
          /\ row[p].session = call[c].session /\ row[p].state = "pending"
      BY <2>2 DEF Claim, ClaimNextPrompt, IsHead, Active
    <3>2. call'[c].pc = "gate" /\ call'[c].item = p /\ call'[c].session = call[c].session
      BY <1>1, <3>1 DEF Call
    <3>3. RowBound(row, p, call[c].session)
      BY <3>1 DEF RowBound
    <3> DEFINE s == call[c].session
    <3>4. RowBound(row, p, s) /\ s \in inFlight
      BY <1>8, <3>3 DEF CallGoes, OneAttemptPerSession
    <3> HIDE DEF s
    <3>5. RowBound(row', p, s)
      BY <3>4, BoundStays
    <3>6. BoundOK'
      BY <1>3, <1>4, <2>1, <3>2, <3>5 DEF BoundOK, s
    <3>7. TokenOK'
      BY <1>5, <2>1, <3>2 DEF TokenOK
    <3> QED BY <3>6, <3>7
  <2>3. ASSUME CallKept(c), call'[c].pc \in PastClaim => call[c].pc \in PastClaim,
               call[c].pc \in PastClaim => call'[c].pc \notin {"probe", "ready"}
        PROVE  BoundOK' /\ TokenOK'
    <3>1. BoundOK'
      BY <1>3, <1>4, <2>1, <2>3 DEF BoundOK
    <3>2. call[c].pc \in PastClaim \/ call[c].pc \in {"idle", "probe", "ready"}
      BY <1>1 DEF Call, Phases, PastClaim
    <3>3. call[c].pc # "idle"
      BY <1>8 DEF CallGoes, Busy
    <3>4. TokenOK'
      BY <1>5, <2>1, <2>3, <3>2, <3>3 DEF TokenOK, CallKept
    <3> QED BY <3>1, <3>4
  <2>4. call[c].pc \in PastClaim => call'[c].pc \notin {"probe", "ready"}
    <3>1. ASSUME NEW pc, Goto(c, pc) PROVE call'[c].pc = pc
      BY <1>1, <3>1 DEF Goto
    <3>2. Leave(c) => call'[c].pc = "idle"
      BY <1>1 DEF Leave, Idle
    <3>3. ProbeReady(c) \/ ReadinessFails(c) \/ NothingToClaim(c) => call[c].pc \notin PastClaim
      BY Phase DEF ProbeReady, ReadinessFails, NothingToClaim
    <3>4. \A p \in Prompts, t \in Tokens : Claim(c, p, t) => call[c].pc \notin PastClaim
      BY Phase DEF Claim
    <3>5. Send(c) => call'[c].pc = "sent"
      BY <1>1 DEF Send
    <3> QED BY <1>8, <3>1, <3>2, <3>3, <3>4, <3>5
            DEF CallerStep, PassGate, RefusedAtGate, AdapterFails, SendRefused, Accepted, Complete, Finish,
                Rejected, Uncertain
  <2> QED BY <1>7, <1>8, <2>2, <2>3, <2>4, CallerMoves
<1>9. CASE CallsRest
  <2>1. BoundOK'
    BY <1>3, <1>9 DEF BoundOK, CallsRest
  <2>2. TokenOK'
    BY <1>5, <1>9 DEF TokenOK, CallsRest, CallKept
  <2> QED BY <2>1, <2>2
<1>10. CASE Crash
  BY <1>10, Phase DEF Crash, Idle, BoundOK, TokenOK
<1>11. CASE UNCHANGED vars
  BY <1>11 DEF vars, BoundOK, TokenOK
<1> QED BY <1>6, <1>7, <1>8, <1>9, <1>10, <1>11, NextCalls

LEMMA BoundAlways == Spec /\ [][IdleSource]_vars => [](BoundOK /\ TokenOK)
<1>1. Init => BoundOK /\ TokenOK
  BY Phase DEF Init, Idle, BoundOK, TokenOK
<1>2. DeliveryInv /\ OneAttemptPerSession /\ (BoundOK /\ TokenOK) /\ [Next]_vars /\ [IdleSource]_vars
        => (BoundOK /\ TokenOK)'
  BY BoundMoves
<1> QED BY <1>1, <1>2, OneAttempt, DeliveryInvariant, PTL DEF Spec

\* An operator's decision about a claim waits for the attempt that works on it:
\* the reconcile route refuses a session in flight, before and after it has read
\* its body.  As long as no session in flight is rebound: a stopped session's queue
\* may move under an attempt that still awaits its answer, and the replacement is
\* not in flight.
THEOREM DecisionWaits == Spec /\ [][IdleSource]_vars => DecisionAwaitsAttempt
<1>1. DeliveryInv /\ OneAttemptPerSession /\ BoundOK /\ TokenOK /\ [Next]_vars =>
        [\A p \in Prompts :
           (row[p].state = "claimed" /\ row'[p].state \in {"handled", "pending"}
              /\ row'[p].revision # row[p].revision)
             => \A c \in Callers : Busy(c) => call[c].token # row[p].token]_vars
  <2> SUFFICES ASSUME DeliveryInv, OneAttemptPerSession, BoundOK, TokenOK, Next,
                      NEW p \in Prompts, row[p].state = "claimed",
                      row'[p].state \in {"handled", "pending"}, row'[p].revision # row[p].revision,
                      NEW c \in Callers, Busy(c), call[c].token = row[p].token
               PROVE  FALSE
    OBVIOUS
  <2>1. row \in [Prompts -> Row] /\ TypeOK /\ call[c] \in Call
    BY DEF DeliveryInv, TypeOK, StoreTypeOK
  <2>2. ~Gentle(row, row')
    BY DEF Gentle, GentleRow
  <2>3. ~RunRetire /\ \A s \in Sessions : ~DedicatedRecovery(s)
    <3>1. /\ row'[p] # row[p]
          /\ [row[p] EXCEPT !.state = "superseded", !.revision = @ + 1].state \notin {"handled", "pending"}
      BY <2>1 DEF Row
    <3> QED BY <2>1, <3>1 DEF RunRetire, RetireForFreshHumanTrigger, DedicatedRecovery,
                              SupersedeDedicatedPending
  <2>4. ServeAcknowledge \/ ServeReconcile
    BY <2>2, <2>3, NextQueues
  <2> DEFINE s == request.session  q == request.item  n == request.revision
             t == request.token  kind == request.kind
  <2>5. AcknowledgePrompt(s, q, n) \/ ReconcileClaim(s, q, n, t, kind)
    BY <2>4 DEF ServeAcknowledge, ServeReconcile
  <2>6. q \in Prompts
    BY <2>1, <2>4 DEF ServeAcknowledge, ServeReconcile, TypeOK, Request
  <2>7. ServeAcknowledge => row[q].state = "pending"
    BY DEF ServeAcknowledge, AcknowledgePrompt
  <2>8. ServeReconcile => s \notin inFlight
    BY DEF ServeReconcile
  <2> HIDE DEF s, q, n, t, kind
  <2>9. PICK table \in [Prompts -> Row] : Decided(q, s, table)
    BY <2>1, <2>5, <2>6, DecisionStatements
  <2>10. row'[p].state = table[p].state
    BY <2>9, RenumberedRow DEF Decided
  <2>11. q = p /\ row[p].session = s
    BY <2>9, <2>10 DEF Decided
  <2>12. s \notin inFlight
    BY <2>4, <2>7, <2>8, <2>11
  <2>13. row[p].token \in Tokens /\ attempt[row[p].token].item = p
    BY DEF DeliveryInv, RowsOK
  <2>14. call[c].pc \in PastClaim
    <3>1. call[c].token # None
      BY <2>13, StoreAssumption
    <3>2. call[c].pc \notin {"probe", "ready"}
      BY <3>1 DEF TokenOK
    <3> QED BY <2>1, <3>2 DEF Call, Phases, PastClaim, Busy
  <2>15. call[c].item = p
    BY <2>13, <2>14 DEF DeliveryInv, CallsOK
  <2>16. call[c].session = s
    BY <2>11, <2>14, <2>15 DEF BoundOK, RowBound
  <2> QED BY <2>12, <2>16 DEF OneAttemptPerSession
<1>2. Spec /\ [][IdleSource]_vars => [](BoundOK /\ TokenOK)
  BY BoundAlways
<1> QED BY <1>1, <1>2, OneAttempt, DeliveryInvariant, PTL DEF Spec, DecisionAwaitsAttempt

-----------------------------------------------------------------------------
(* Claims on which nothing was sent *)

UnsentClaim(table, p) == table[p].state = "claimed" /\ table[p].delivery = "unsent"

\* An activation that will still send the prompt or give its claim back.
Holds(c, p) == /\ call[c].pc \in {"gate", "adapter"} /\ call[c].item = p
               /\ call[c].token = row[p].token /\ call[c].session = row[p].session

UnsentOK == \A p \in Prompts : UnsentClaim(row, p) => \E c \in Callers : Holds(c, p)

\* It lets go of the claim only by sending or releasing it.
LEMMA HolderStep ==
  ASSUME DeliveryInv, NEW c \in Callers, CallerStep(c), NEW p \in Prompts, Holds(c, p),
         UnsentClaim(row', p)
  PROVE  call'[c].pc \in {"gate", "adapter"} /\ CallKept(c)
<1>1. row \in [Prompts -> Row] /\ call \in [Callers -> Call] /\ call[c] \in Call
  BY DEF DeliveryInv, TypeOK, StoreTypeOK
<1>2. ASSUME NEW certainty, ReleaseRejectedClaim(call[c].session, call[c].item, call[c].token, certainty)
      PROVE  row[p].state # "claimed"
  <2>1. CASE HoldsClaim(call[c].session, call[c].item, call[c].token)
    <3>1. row'[p].state = "pending"
      BY <1>1, <1>2, <2>1 DEF Holds, ReleaseRejectedClaim, Row
    <3> QED BY <3>1 DEF UnsentClaim
  <2>2. CASE ~HoldsClaim(call[c].session, call[c].item, call[c].token)
    BY <2>2 DEF Holds, HoldsClaim
  <2> QED BY <2>1, <2>2
<1>3. CASE row' = row
  <2>1. row[p].state = "claimed" /\ row[p].delivery = "unsent"
    BY <1>3 DEF UnsentClaim
  <2>2. MayMarkSending(call[c].session, call[c].item, call[c].token)
    BY <2>1 DEF Holds, MayMarkSending, HoldsClaim
  <2>3. ASSUME PassGate(c) PROVE call'[c].pc \in {"gate", "adapter"} /\ CallKept(c)
    BY <1>1, <2>3 DEF PassGate, Goto, Call, CallKept
  <2>4. ~RefusedAtGate(c) /\ ~AdapterFails(c) /\ ~SendRefused(c)
    BY <1>2, <2>1 DEF RefusedAtGate, AdapterFails, SendRefused
  <2>5. ~Send(c)
    <3> SUFFICES ASSUME Send(c) PROVE FALSE
      OBVIOUS
    <3>1. row' = [row EXCEPT ![p] = [row[p] EXCEPT !.delivery = "uncertain"]]
      BY DEF Send, Holds, MarkClaimSending
    <3>2. row'[p].delivery = "uncertain"
      BY <1>1, <3>1 DEF Row
    <3> QED BY <3>2 DEF UnsentClaim
  <2> QED BY <2>3, <2>4, <2>5 DEF Holds, CallerStep, ProbeReady, ReadinessFails, Claim, NothingToClaim,
             Accepted, Complete, Finish, Rejected, Uncertain
<1>4. CASE row' # row
  <2>1. ASSUME RefusedAtGate(c) \/ AdapterFails(c) \/ SendRefused(c) PROVE FALSE
    <3>1. PICK certainty : ReleaseRejectedClaim(call[c].session, call[c].item, call[c].token, certainty)
      BY <2>1 DEF RefusedAtGate, AdapterFails, SendRefused
    <3>2. HoldsClaim(call[c].session, call[c].item, call[c].token)
      BY <1>4, <3>1 DEF ReleaseRejectedClaim
    <3>3. row[p].state = "claimed"
      BY <3>2 DEF HoldsClaim, Holds
    <3> QED BY <1>2, <3>1, <3>3
  <2>2. ASSUME Send(c) PROVE FALSE
    <3>1. row' = [row EXCEPT ![p] = [row[p] EXCEPT !.delivery = "uncertain"]]
      BY <2>2 DEF Send, Holds, MarkClaimSending
    <3>2. row'[p].delivery = "uncertain"
      BY <1>1, <3>1 DEF Row
    <3> QED BY <3>2 DEF UnsentClaim
  <2> QED BY <1>4, <2>1, <2>2 DEF Holds, CallerStep, ProbeReady, ReadinessFails, Claim, NothingToClaim,
             PassGate, Accepted, Complete, Finish, Rejected, Uncertain
<1> QED BY <1>3, <1>4

LEMMA OtherCallers ==
  ASSUME TypeOK, NEW c \in Callers, CallerStep(c)
  PROVE  \A d \in Callers \ {c} : call'[d] = call[d]
<1>1. Leave(c) => \A d \in Callers \ {c} : call'[d] = call[d]
  BY DEF TypeOK, Leave
<1>2. \A pc : Goto(c, pc) => \A d \in Callers \ {c} : call'[d] = call[d]
  BY DEF TypeOK, Goto
<1>3. \A p \in Prompts, t \in Tokens : Claim(c, p, t) => \A d \in Callers \ {c} : call'[d] = call[d]
  BY DEF TypeOK, Claim
<1>4. Send(c) => \A d \in Callers \ {c} : call'[d] = call[d]
  BY DEF TypeOK, Send
<1> QED BY <1>1, <1>2, <1>3, <1>4
        DEF CallerStep, ProbeReady, ReadinessFails, NothingToClaim, PassGate, RefusedAtGate, AdapterFails,
            SendRefused, Accepted, Complete, Finish, Rejected, Uncertain

LEMMA HolderStays ==
  ASSUME DeliveryInv, Next, ~Crash, NEW c \in Callers, NEW p \in Prompts, Holds(c, p),
         UnsentClaim(row', p)
  PROVE  call'[c].pc \in {"gate", "adapter"} /\ CallKept(c)
<1>1. TypeOK
  BY DEF DeliveryInv
<1>2. call'[c] = call[c] => call'[c].pc \in {"gate", "adapter"} /\ CallKept(c)
  BY DEF Holds, CallKept
<1>3. ASSUME NEW d \in Callers, NEW s \in Sessions, AutoBegin(d, s) \/ ManualBegin(d, s)
      PROVE  call'[c] = call[c]
  BY <1>1, <1>3 DEF AutoBegin, ManualBegin, Enter, TypeOK, Holds, Idle
<1>4. ASSUME NEW d \in Callers, CallerStep(d)
      PROVE  call'[c].pc \in {"gate", "adapter"} /\ CallKept(c)
  BY <1>1, <1>2, <1>4, HolderStep, OtherCallers
<1>5. ASSUME NEW t \in Tokens, AgentStep(t) PROVE call'[c] = call[c]
  <2>1. PICK fate, reply : Answer(t, fate, reply)
    BY <1>5 DEF AgentStep, AgentAccepts, AgentRefuses, AgentFails
  <2> QED BY <2>1 DEF Answer, Holds
<1>6. RouteStep \/ BoundaryStep \/ HousekeepingStep => call' = call
  BY DEF RouteStep, OwnerAdds, OwnerEdits, OwnerDeletes, ListQueue, PostRequest, ServeAcknowledge,
         ServeReconcile, DropRequest, BoundaryStep, CaptureBoundary, RetryBoundary, RunRetire, RunReorder,
         HousekeepingStep, DedicatedRecovery, SessionStops, SessionStarts, Retention, SetDrain, Rebind, proc
<1> QED BY <1>2, <1>3, <1>4, <1>5, <1>6 DEF Next

LEMMA UnsentMoves ==
  ASSUME DeliveryInv, OneAttemptPerSession, UnsentOK, [Next]_vars, ~Crash, [IdleSource]_vars
  PROVE  UnsentOK'
<1> SUFFICES ASSUME NEW p \in Prompts, UnsentClaim(row', p)
             PROVE  \E c \in Callers : /\ call'[c].pc \in {"gate", "adapter"} /\ call'[c].item = p
                                       /\ call'[c].token = row'[p].token
                                       /\ call'[c].session = row'[p].session
  BY DEF UnsentOK, UnsentClaim, Holds
<1>1. row \in [Prompts -> Row] /\ call \in [Callers -> Call]
  BY DEF DeliveryInv, TypeOK, StoreTypeOK
<1>2. ASSUME Next, UnsentClaim(row, p), row'[p].token = row[p].token, row'[p].session = row[p].session
      PROVE  \E c \in Callers : /\ call'[c].pc \in {"gate", "adapter"} /\ call'[c].item = p
                                /\ call'[c].token = row'[p].token
                                /\ call'[c].session = row'[p].session
  <2>1. PICK c \in Callers : Holds(c, p)
    BY <1>2 DEF UnsentOK
  <2>2. call'[c].pc \in {"gate", "adapter"} /\ CallKept(c)
    BY <1>2, <2>1, HolderStays
  <2> QED BY <1>2, <2>1, <2>2 DEF Holds, CallKept
<1>3. CASE UNCHANGED vars
  <2>1. row' = row /\ call' = call
    BY <1>3 DEF vars
  <2>2. UnsentClaim(row, p)
    BY <2>1
  <2> QED BY <2>1, <2>2 DEF UnsentOK, Holds
<1>4. ASSUME NEW s \in Sessions, NEW a \in Prompts, NEW k \in Keys \cup {None}, OwnerAdds(s, a, k)
      PROVE  UnsentClaim(row, p) /\ row'[p] = row[p]
  <2>1. row'[a].state = "pending" /\ \A q \in Prompts \ {a} : row'[q] = row[q]
    BY <1>1, <1>4 DEF OwnerAdds, AddPrompt
  <2> QED BY <2>1 DEF UnsentClaim
<1>5. ASSUME NEW c \in Callers, NEW a \in Prompts, NEW t \in Tokens, Claim(c, a, t), p # a
      PROVE  UnsentClaim(row, p) /\ row'[p] = row[p]
  BY <1>1, <1>5 DEF Claim, ClaimNextPrompt, UnsentClaim
<1>6. ASSUME NEW c \in Callers, NEW t \in Tokens, Claim(c, p, t)
      PROVE  /\ call'[c].pc \in {"gate", "adapter"} /\ call'[c].item = p
             /\ call'[c].token = row'[p].token /\ call'[c].session = row'[p].session
  <2>1. /\ row' = [row EXCEPT ![p].state = "claimed", ![p].token = t, ![p].delivery = "unsent"]
        /\ call' = [call EXCEPT ![c].pc = "gate", ![c].item = p, ![c].token = t]
        /\ row[p].session = call[c].session
    BY <1>6 DEF Claim, ClaimNextPrompt, IsHead, Active
  <2>2. row[p] \in Row /\ call[c] \in Call
    BY <1>1
  <2>3. row'[p].token = t /\ row'[p].session = row[p].session
    BY <1>1, <2>1, <2>2 DEF Row
  <2>4. /\ call'[c].pc = "gate" /\ call'[c].item = p /\ call'[c].token = t
        /\ call'[c].session = call[c].session
    BY <1>1, <2>1, <2>2 DEF Call
  <2> QED BY <2>1, <2>3, <2>4
<1>7. QueueStep => UnsentClaim(row, p) /\ row'[p].token = row[p].token /\ row'[p].session = row[p].session
  BY DEF QueueStep, Kept, KeptRow, Unclaimed, UnclaimedRow, UnsentClaim
<1>8. ASSUME NEW pair \in Rebinds, Rebind(pair[1], pair[2]), IdleSource
      PROVE  /\ UnsentClaim(row, p) /\ row'[p].token = row[p].token
             /\ row'[p].session = row[p].session
  <2>1. pair[1] \notin inFlight /\ RebindSession(pair[1], pair[2])
    BY <1>8 DEF IdleSource, Rebind
  <2>2. /\ row'[p].state = row[p].state /\ row'[p].delivery = row[p].delivery
        /\ row'[p].token = row[p].token
        /\ row[p].session # pair[1] => row'[p].session = row[p].session
    BY <1>1, <2>1, RebindRows
  <2>3. PICK c \in Callers : Holds(c, p)
    BY <2>2 DEF UnsentOK, UnsentClaim
  <2>4. row[p].session \in inFlight
    BY <2>3 DEF Holds, OneAttemptPerSession, Busy
  <2> QED BY <2>1, <2>2, <2>4 DEF UnsentClaim
<1> QED BY <1>2, <1>3, <1>4, <1>5, <1>6, <1>7, <1>8, NextQueues

\* While the process lives a claim on which nothing was sent is in the hands of an
\* activation that will send or release it: no error path between claimNextPrompt
\* and markClaimSending forgets it.  For a process that does not go down, and as
\* long as no rebind takes the claim from under its activation.
THEOREM UnsentHeld == Spec /\ [][~Crash /\ IdleSource]_vars => []UnsentClaimIsHeld
<1>1. Init => UnsentOK
  BY DEF Init, StoreInit, Empty, UnsentClaim, UnsentOK
<1>2. DeliveryInv /\ OneAttemptPerSession /\ UnsentOK /\ [Next]_vars /\ [~Crash /\ IdleSource]_vars
        => UnsentOK'
  <2> SUFFICES ASSUME DeliveryInv, OneAttemptPerSession, UnsentOK, [Next]_vars,
                      [~Crash /\ IdleSource]_vars
               PROVE  UnsentOK'
    OBVIOUS
  <2>1. UNCHANGED vars => ~Crash
    BY DEF vars, Crash, DeliveryInv, TypeOK
  <2> QED BY <2>1, UnsentMoves
<1>3. UnsentOK => UnsentClaimIsHeld
  BY DEF UnsentOK, UnsentClaim, Holds, UnsentClaimIsHeld
<1> QED BY <1>1, <1>2, <1>3, OneAttempt, DeliveryInvariant, PTL DEF Spec

-----------------------------------------------------------------------------
(* The order of a queue, where no crash falls between a commit and its
   renumbering and no queue is merged into another *)

\* What a rebind must not do: move rows into a queue that has rows of its own.
EmptyTarget == \A pair \in Rebinds : Rebind(pair[1], pair[2]) => Active(pair[2]) = {}

\* What a crash must not do: fall between a commit and its reorderQueue.
WholeReorder == Crash => owed.op # "reorder"

InOrder(table, s) ==
  \A p, q \in ActiveIn(table, s) :
    table[p].rowid < table[q].rowid => table[p].order < table[q].order

Blocked(table, s) ==
  \A p \in ActiveIn(table, s) : table[p].state = "claimed" =>
    \A q \in ActiveIn(table, s) \ {p} : table[q].state = "pending" /\ Earlier(table, p, q)

Distinct(table, s) ==
  \A p, q \in ActiveIn(table, s) : p # q => table[p].rowid # table[q].rowid

Sorted(table, s) == InOrder(table, s) /\ Blocked(table, s) /\ Distinct(table, s)

\* Positions run up to the number of rows unless a renumbering is due.
Bounded(table, s) == \A p \in ActiveIn(table, s) : table[p].order <= Cardinality(ActiveIn(table, s))

Inserted(table) == {p \in Prompts : table[p].state # "absent"}

OrderInv ==
  /\ \A s \in Sessions : Sorted(row, s)
  /\ \A s \in Sessions : owed # Reorder(s) => Bounded(row, s)
  /\ \A p \in Prompts : row[p].rowid <= Cardinality(Inserted(row))

LEMMA ActiveRows == \A s : Active(s) = ActiveIn(row, s) /\ Active(s)' = ActiveIn(row', s)
BY DEF Active, ActiveIn

LEMMA SettledSorted ==
  ASSUME NEW old, NEW new, Settled(old, new), NEW s, Sorted(old, s)
  PROVE  Sorted(new, s)
<1>1. \A p \in ActiveIn(new, s) :
        /\ p \in ActiveIn(old, s) /\ new[p].rowid = old[p].rowid /\ new[p].order = old[p].order
        /\ new[p].state = "claimed" => old[p].state = "claimed"
        /\ new[p].state \in {"pending", "claimed"}
  BY StateSets DEF Settled, Kept, KeptRow, Unclaimed, UnclaimedRow, SameOrder, ActiveIn
<1>2. InOrder(new, s) /\ Distinct(new, s)
  BY <1>1 DEF Sorted, InOrder, Distinct
<1>3. Blocked(new, s)
  <2> SUFFICES ASSUME NEW p \in ActiveIn(new, s), new[p].state = "claimed",
                      NEW q \in ActiveIn(new, s) \ {p}
               PROVE  new[q].state = "pending" /\ Earlier(new, p, q)
    BY DEF Blocked
  <2>1. old[q].state = "pending" /\ Earlier(old, p, q)
    BY <1>1 DEF Sorted, Blocked
  <2>2. Earlier(new, p, q)
    BY <1>1, <2>1 DEF Earlier
  <2>3. new[q].state = "pending"
    BY <1>1, <2>1
  <2> QED BY <2>2, <2>3
<1> QED BY <1>2, <1>3 DEF Sorted

LEMMA RenumberedSorted ==
  ASSUME NEW table \in [Prompts -> Row], NEW s, NEW u, Sorted(table, u), NEW new, new = Renumbered(table, s)
  PROVE  /\ ActiveIn(new, u) = ActiveIn(table, u)
         /\ Sorted(new, u)
         /\ u = s => Bounded(new, u)
         /\ u # s /\ Bounded(table, u) => Bounded(new, u)
<1>1. \A p \in Prompts : /\ new[p].state = table[p].state /\ new[p].session = table[p].session
                         /\ new[p].rowid = table[p].rowid
  BY RenumberedRow
<1>2. ActiveIn(new, u) = ActiveIn(table, u) /\ ActiveIn(table, u) \subseteq Prompts
  BY <1>1 DEF ActiveIn
<1>3. CASE u # s
  <2>1. \A p \in ActiveIn(table, u) : p \notin ActiveIn(table, s)
    BY <1>3 DEF ActiveIn
  <2>2. \A p \in ActiveIn(table, u) : new[p] = table[p]
    BY <1>2, <2>1, RenumberedOrder
  <2>3. Sorted(new, u)
    BY <1>2, <2>2 DEF Sorted, InOrder, Blocked, Distinct, Earlier
  <2>4. Bounded(table, u) => Bounded(new, u)
    BY <1>2, <2>2 DEF Bounded
  <2> QED BY <1>2, <1>3, <2>3, <2>4
<1>4. CASE u = s
  <2>1. \A p, q \in ActiveIn(table, u) : Earlier(table, p, q) => new[p].order < new[q].order
    BY <1>4, RenumberedOrder
  <2>2. Bounded(new, u)
    BY <1>2, <1>4, RenumberedOrder DEF Bounded
  <2>3. InOrder(new, u)
    BY <1>1, <1>2, <2>1 DEF Sorted, InOrder, Earlier
  <2>4. Blocked(new, u)
    BY <1>1, <1>2, <2>1 DEF Sorted, Blocked, Earlier
  <2>5. Distinct(new, u)
    BY <1>1, <1>2 DEF Sorted, Distinct
  <2> QED BY <1>2, <1>4, <2>2, <2>3, <2>4, <2>5 DEF Sorted
<1> QED BY <1>3, <1>4

LEMMA QueueStepOrder ==
  ASSUME TypeOK, TypeOK', OrderInv, QueueStep
  PROVE  OrderInv'
<1>1. row \in [Prompts -> Row] /\ row' \in [Prompts -> Row]
  BY DEF TypeOK, StoreTypeOK
<1>2. \A p \in Prompts : row'[p].rowid <= Cardinality(Inserted(row'))
  <2>1. Inserted(row') = Inserted(row)
    BY DEF QueueStep, Kept, KeptRow, Inserted
  <2>2. Cardinality(Inserted(row)) \in Nat
    BY PromptSets DEF Inserted
  <2>3. \A p \in Prompts : row'[p].rowid <= row[p].rowid /\ row[p].rowid <= Cardinality(Inserted(row))
    BY DEF QueueStep, Kept, KeptRow, OrderInv
  <2>4. \A p \in Prompts : row'[p].rowid \in Nat /\ row[p].rowid \in Nat
    BY <1>1 DEF Row
  <2> QED BY <2>1, <2>2, <2>3, <2>4
<1>3. CASE QueuesKept
  <2>1. Settled(row, row')
    BY <1>3 DEF QueueStep, QueuesKept, Settled
  <2>2. \A s \in Sessions : Sorted(row', s)
    BY <2>1, SettledSorted DEF OrderInv
  <2>3. ASSUME NEW u \in Sessions, owed' # Reorder(u) PROVE Bounded(row', u)
    <3>1. CASE Active(u)' = {}
      BY <3>1, ActiveRows DEF Bounded
    <3>2. CASE Active(u)' = Active(u) /\ owed # Reorder(u)
      <4>1. Bounded(row, u) /\ ActiveIn(row', u) = ActiveIn(row, u)
        BY <3>2, ActiveRows DEF OrderInv
      <4>2. \A p \in ActiveIn(row', u) : row'[p].order = row[p].order
        BY <2>1 DEF Settled, SameOrder, ActiveIn
      <4> QED BY <4>1, <4>2 DEF Bounded
    <3> QED BY <1>3, <2>3, <3>1, <3>2 DEF QueuesKept
  <2> QED BY <1>2, <2>2, <2>3 DEF OrderInv
<1>4. CASE QueueRenumbered
  <2>1. PICK s : \E table \in [Prompts -> Row] :
          /\ row' = Renumbered(table, s) /\ Settled(row, table)
          /\ \A u \in Sessions : u # s => ActiveIn(table, u) = ActiveIn(row, u) /\ owed # Reorder(u)
    BY <1>4 DEF QueueRenumbered
  <2>2. PICK table \in [Prompts -> Row] :
          /\ row' = Renumbered(table, s) /\ Settled(row, table)
          /\ \A u \in Sessions : u # s => ActiveIn(table, u) = ActiveIn(row, u) /\ owed # Reorder(u)
    BY <2>1
  <2>3. \A u \in Sessions : Sorted(table, u)
    BY <2>2, SettledSorted DEF OrderInv
  <2>4. ASSUME NEW u \in Sessions, u # s PROVE Bounded(table, u)
    <3>1. Bounded(row, u) /\ ActiveIn(table, u) = ActiveIn(row, u)
      BY <2>2, <2>4 DEF OrderInv
    <3>2. \A p \in ActiveIn(table, u) : table[p].order = row[p].order
      BY <2>2 DEF Settled, SameOrder, ActiveIn
    <3> QED BY <3>1, <3>2 DEF Bounded
  <2>5. \A u \in Sessions : Sorted(row', u) /\ Bounded(row', u)
    BY <2>2, <2>3, <2>4, RenumberedSorted
  <2> QED BY <1>2, <2>5 DEF OrderInv
<1> QED BY <1>3, <1>4 DEF QueueStep

\* A prompt is put behind all others of its queue.
LEMMA AddOrder ==
  ASSUME TypeOK, OrderInv, NEW s \in Sessions, NEW p \in Prompts, NEW k \in Keys \cup {None},
         OwnerAdds(s, p, k)
  PROVE  OrderInv'
<1>1. row \in [Prompts -> Row] /\ owed = Nothing /\ owed' = owed
  BY NotOwed DEF TypeOK, StoreTypeOK, OwnerAdds, proc
<1> DEFINE n == Cardinality(ActiveIn(row, s))
           m == Cardinality(Inserted(row))
<1>2. /\ row[p].state = "absent"
      /\ row'[p].state = "pending" /\ row'[p].session = s
      /\ row'[p].order = n + 1 /\ row'[p].rowid = m + 1
      /\ \A q \in Prompts \ {p} : row'[q] = row[q]
  BY <1>1, ActiveRows DEF OwnerAdds, AddPrompt, QueueCount, Inserted
<1>3. /\ ActiveIn(row, s) \in SUBSET Prompts /\ Inserted(row) \in SUBSET Prompts
      /\ ActiveIn(row, s) \in SUBSET ActiveIn(row', s) /\ Inserted(row) \in SUBSET Inserted(row')
      /\ ActiveIn(row', s) \in SUBSET Prompts /\ Inserted(row') \in SUBSET Prompts
      /\ p \in ActiveIn(row', s) /\ p \notin ActiveIn(row, s)
      /\ p \in Inserted(row') /\ p \notin Inserted(row)
  BY <1>2, StateSets DEF ActiveIn, Inserted
<1>4. /\ n \in Nat /\ Cardinality(ActiveIn(row', s)) \in Nat /\ n + 1 <= Cardinality(ActiveIn(row', s))
      /\ m \in Nat /\ Cardinality(Inserted(row')) \in Nat /\ m + 1 <= Cardinality(Inserted(row'))
  BY <1>3, PromptSets
<1>5. /\ \A q \in ActiveIn(row', s) : q = p \/ q \in ActiveIn(row, s)
      /\ \A u : u # s => ActiveIn(row', u) = ActiveIn(row, u)
      /\ \A u : \A q \in ActiveIn(row, u) : row'[q] = row[q] /\ q # p /\ q \in Prompts
  BY <1>2, StateSets DEF ActiveIn
<1>6. \A q \in Prompts : row[q].order \in Nat /\ row[q].rowid \in Nat
  BY <1>1 DEF Row
<1>7. \A q \in Prompts : row[q].rowid <= m
  BY DEF OrderInv
<1>8. \A q \in ActiveIn(row, s) : row[q].order <= n
  BY <1>1, NotOwed DEF OrderInv, Bounded
<1> HIDE DEF n, m
<1>9. \A q \in Prompts : row'[q].rowid <= Cardinality(Inserted(row'))
  BY <1>2, <1>4, <1>6, <1>7
<1>10. ASSUME NEW u \in Sessions, u # s PROVE Sorted(row', u) /\ Bounded(row', u)
  <2>1. Sorted(row, u) /\ Bounded(row, u)
    BY <1>1, NotOwed DEF OrderInv
  <2> QED BY <1>5, <1>10, <2>1 DEF Sorted, InOrder, Blocked, Distinct, Bounded, Earlier
<1>11. Sorted(row, s)
  BY DEF OrderInv
<1>12. \A q \in ActiveIn(row, s) : /\ row'[q] = row[q] /\ row'[q].order < row'[p].order
                                   /\ row'[q].rowid < row'[p].rowid
                                   /\ row'[q].rowid \in Nat /\ row'[q].order \in Nat
  BY <1>2, <1>4, <1>5, <1>6, <1>7, <1>8
<1>13. row'[p].rowid \in Nat /\ row'[p].order \in Nat
  BY <1>2, <1>4
<1>14. InOrder(row', s) /\ Distinct(row', s)
  BY <1>5, <1>11, <1>12, <1>13 DEF Sorted, InOrder, Distinct
<1>15. Blocked(row', s)
  BY <1>2, <1>5, <1>11, <1>12 DEF Sorted, Blocked, Earlier
<1>16. Bounded(row', s)
  BY <1>2, <1>4, <1>5, <1>6, <1>8 DEF Bounded
<1> QED BY <1>9, <1>10, <1>14, <1>15, <1>16 DEF OrderInv, Sorted

\* Only the head is claimed, and only while it is pending.
LEMMA ClaimOrder ==
  ASSUME TypeOK, OrderInv, NEW c \in Callers, NEW p \in Prompts, NEW t \in Tokens, Claim(c, p, t)
  PROVE  OrderInv'
<1>1. row \in [Prompts -> Row] /\ row[p] \in Row /\ owed' = owed
  BY DEF TypeOK, StoreTypeOK, Claim
<1> DEFINE new == [row[p] EXCEPT !.state = "claimed", !.token = t, !.delivery = "unsent"]
           s == call[c].session
<1>2. /\ row' = [row EXCEPT ![p] = new] /\ row[p].state = "pending"
      /\ p \in ActiveIn(row, s) /\ \A q \in ActiveIn(row, s) \ {p} : Earlier(row, p, q)
  BY <1>1, ActiveRows DEF Claim, ClaimNextPrompt, IsHead, Before, Earlier
<1>3. /\ new.state = "claimed" /\ new.session = row[p].session /\ new.order = row[p].order
      /\ new.rowid = row[p].rowid
  BY <1>1 DEF Row
<1> HIDE DEF new, s
<1>4. /\ \A u : ActiveIn(row', u) = ActiveIn(row, u)
      /\ \A q \in Prompts : row'[q].order = row[q].order /\ row'[q].rowid = row[q].rowid
      /\ \A q \in Prompts \ {p} : row'[q] = row[q]
      /\ row'[p].state = "claimed"
  BY <1>1, <1>2, <1>3, StateSets DEF ActiveIn
<1>5. \A q \in Prompts : row[q].order \in Nat /\ row[q].rowid \in Nat
  BY <1>1 DEF Row
<1>6. \A u : ActiveIn(row, u) \subseteq Prompts
  BY DEF ActiveIn
<1>7. ASSUME NEW u \in Sessions PROVE InOrder(row', u) /\ Distinct(row', u) /\ (Bounded(row, u) => Bounded(row', u))
  <2>1. Sorted(row, u)
    BY DEF OrderInv
  <2> QED BY <1>4, <1>6, <2>1 DEF Sorted, InOrder, Distinct, Bounded
<1>8. ASSUME NEW u \in Sessions PROVE Blocked(row', u)
  <2>1. Blocked(row, u)
    BY DEF OrderInv, Sorted
  <2>2. CASE u # s
    <3>1. p \notin ActiveIn(row, u)
      BY <1>2, <2>2 DEF ActiveIn
    <3>2. \A q \in ActiveIn(row, u) : row'[q] = row[q]
      BY <1>4, <1>6, <3>1
    <3> QED BY <1>4, <2>1, <3>2 DEF Blocked, Earlier
  <2>3. CASE u = s
    <3>1. ASSUME NEW q \in ActiveIn(row, u) \ {p} PROVE row[q].state = "pending"
      <4>1. Earlier(row, p, q)
        BY <1>2, <2>3
      <4>2. ~Earlier(row, q, p)
        BY <1>2, <1>5, <1>6, <4>1 DEF Earlier
      <4>3. row[q].state # "claimed"
        BY <1>2, <2>1, <2>3, <4>2 DEF Blocked
      <4> QED BY <4>3, StateSets DEF ActiveIn
    <3>2. ASSUME NEW q \in ActiveIn(row', u), row'[q].state = "claimed" PROVE q = p
      BY <1>4, <1>6, <3>1, <3>2
    <3>3. ASSUME NEW q \in ActiveIn(row', u) \ {p}
          PROVE  row'[q].state = "pending" /\ Earlier(row', p, q)
      <4>1. q \in ActiveIn(row, u) \ {p} /\ q \in Prompts
        BY <1>4, <1>6, <3>3
      <4>2. row'[q].state = "pending"
        BY <1>4, <3>1, <4>1
      <4>3. Earlier(row, p, q)
        BY <1>2, <2>3, <4>1
      <4>4. Earlier(row', p, q)
        BY <1>4, <4>1, <4>3 DEF Earlier
      <4> QED BY <4>2, <4>4
    <3> QED BY <3>2, <3>3 DEF Blocked
  <2> QED BY <2>2, <2>3
<1>9. Inserted(row') = Inserted(row)
  BY <1>2, <1>4 DEF Inserted
<1> QED BY <1>1, <1>4, <1>7, <1>8, <1>9 DEF OrderInv, Sorted

\* An empty queue takes over the rows of another as they stand.
LEMMA RebindOrder ==
  ASSUME TypeOK, OrderInv, NEW src \in Sessions, NEW dst \in Sessions, Rebind(src, dst),
         Active(dst) = {}
  PROVE  OrderInv'
<1>1. row \in [Prompts -> Row] /\ owed = Nothing /\ owed' = owed /\ RebindSession(src, dst)
  BY NotOwed DEF TypeOK, StoreTypeOK, Rebind, proc
<1>2. \A q \in Prompts :
        /\ row'[q].state = row[q].state
        /\ row'[q].order = row[q].order /\ row'[q].rowid = row[q].rowid
        /\ row'[q].session = IF row[q].session = src THEN dst ELSE row[q].session
  BY <1>1, RebindRows
<1>3. src # dst /\ ActiveIn(row, dst) = {}
  BY <1>1, ActiveRows DEF RebindSession
<1>4. /\ ActiveIn(row', src) = {}
      /\ ActiveIn(row', dst) = ActiveIn(row, src)
      /\ \A u : u # src /\ u # dst => ActiveIn(row', u) = ActiveIn(row, u)
      /\ \A u : ActiveIn(row, u) \subseteq Prompts
  BY <1>2, <1>3 DEF ActiveIn
<1>5. Inserted(row') = Inserted(row)
  BY <1>2 DEF Inserted
<1>6. ASSUME NEW u \in Sessions, NEW v \in Sessions, ActiveIn(row', u) = ActiveIn(row, v)
      PROVE  Sorted(row', u) /\ Bounded(row', u)
  <2>1. Sorted(row, v) /\ Bounded(row, v)
    BY <1>1, NotOwed DEF OrderInv
  <2> QED BY <1>2, <1>4, <1>6, <2>1 DEF Sorted, InOrder, Blocked, Distinct, Bounded, Earlier
<1>7. Sorted(row', src) /\ Bounded(row', src)
  BY <1>4 DEF Sorted, InOrder, Blocked, Distinct, Bounded
<1>8. \A u \in Sessions : Sorted(row', u) /\ Bounded(row', u)
  BY <1>4, <1>6, <1>7
<1> QED BY <1>2, <1>5, <1>8 DEF OrderInv

LEMMA InitOrder == Init => OrderInv
<1> SUFFICES ASSUME Init PROVE OrderInv
  OBVIOUS
<1>1. \A p \in Prompts : row[p].state = "absent" /\ row[p].rowid = 0
  BY DEF Init, StoreInit, Empty
<1>2. \A s : ActiveIn(row, s) = {}
  BY <1>1, StateSets DEF ActiveIn
<1>3. Cardinality(Inserted(row)) \in Nat
  BY PromptSets DEF Inserted
<1> QED BY <1>1, <1>2, <1>3 DEF OrderInv, Sorted, InOrder, Blocked, Distinct, Bounded

LEMMA OrderAlways == Spec /\ [][WholeReorder /\ EmptyTarget]_vars => []OrderInv
<1>1. DeliveryInv /\ DeliveryInv' /\ OrderInv /\ [Next]_vars /\ [WholeReorder /\ EmptyTarget]_vars
        => OrderInv'
  <2> SUFFICES ASSUME DeliveryInv, DeliveryInv', OrderInv, [Next]_vars,
                      [WholeReorder /\ EmptyTarget]_vars
               PROVE  OrderInv'
    OBVIOUS
  <2>1. TypeOK /\ TypeOK'
    BY DEF DeliveryInv
  <2>2. CASE UNCHANGED vars
    BY <2>2 DEF vars, OrderInv, Sorted, InOrder, Blocked, Distinct, Bounded, Earlier, ActiveIn, Inserted, Reorder
  <2>3. CASE Crash /\ WholeReorder
    <3>1. row' = row /\ owed.op # "reorder"
      BY <2>3 DEF Crash, WholeReorder
    <3>2. \A s : owed # Reorder(s)
      BY <3>1 DEF Reorder
    <3> QED BY <3>1, <3>2 DEF OrderInv, Sorted, InOrder, Blocked, Distinct, Bounded, Earlier, ActiveIn, Inserted
  <2>4. ASSUME NEW pair \in Rebinds, Rebind(pair[1], pair[2]), EmptyTarget PROVE OrderInv'
    <3>1. Active(pair[2]) = {}
      BY <2>4 DEF EmptyTarget
    <3> QED BY <2>1, <2>4, <3>1, RebindPairs, RebindOrder
  <2> QED BY <2>1, <2>2, <2>3, <2>4, NextQueues, QueueStepOrder, AddOrder, ClaimOrder
<1> QED BY <1>1, InitOrder, DeliveryInvariant, PTL DEF Spec

\* Queue positions follow arrival through edits, deletions, acknowledgements,
\* boundaries, explicit retries and restarts (addPrompt, reorderQueue).  As long as
\* no crash falls between a commit and the reorderQueue it is followed by, and no
\* rebind merges two queues, which it does by position.
THEOREM QueueInOrder ==
  Spec /\ [][WholeReorder /\ EmptyTarget]_vars => []QueueOrderIsArrivalOrder
<1>1. OrderInv => QueueOrderIsArrivalOrder
  BY ActiveRows DEF OrderInv, Sorted, InOrder, QueueOrderIsArrivalOrder
<1> QED BY <1>1, OrderAlways, PTL

\* Nothing overtakes an unresolved claim: it is the head of its queue and the only
\* claim in it (claimNextPrompt takes the head or nothing).  With the same two
\* exceptions.
THEOREM ClaimBlocks ==
  Spec /\ [][WholeReorder /\ EmptyTarget]_vars => []UnresolvedClaimBlocksQueue
<1>1. OrderInv => UnresolvedClaimBlocksQueue
  BY ActiveRows DEF OrderInv, Sorted, Blocked, Earlier, Before, UnresolvedClaimBlocksQueue
<1> QED BY <1>1, OrderAlways, PTL
=============================================================================

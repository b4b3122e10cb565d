------------------------- MODULE CompletedTurnsProofs -------------------------
(***************************************************************************)
(* What the completed-turn service keeps for any number of hosts,          *)
(* requests, sessions and crashes.  Everything rests on two invariants.    *)
(*                                                                         *)
(* QueueInv is about the rows, the transcript and the retirement: the      *)
(* sequence numbers are 1 to the number of accepted requests, an attempt   *)
(* is only ever made for the front of the queue, and a saved boundary is   *)
(* the place in the transcript where that request is, or would be next.    *)
(* HostOK says what an attempt under way knows of them.                    *)
(*                                                                         *)
(* NativeInv is about the sessions: an attempt that still has its claim    *)
(* works from the session that is bound, so the native conversation that   *)
(* the binding leads to never changes, and once an abandonment has begun   *)
(* no attempt can reach a session of its process launched since.           *)
(***************************************************************************)
EXTENDS CompletedTurns, FunctionTheorems, FiniteSetTheorems, SequenceTheorems, TLAPS

-----------------------------------------------------------------------------
(* The shape of the state, the counters unbounded                          *)

Statuses == Working \cup {"absent", "completed", "abandoned"}
ReceiptShape ==
  [seq : Nat, status : Statuses, claim : (Hosts \X {"run", "stop"}) \cup {None},
   held : BOOLEAN, sender : (Hosts \X {"run"}) \cup {None}, session : Sessions \cup {None},
   mark : Nat \cup {None}, missing : BOOLEAN, reply : Nat]
SessionShape ==
  [state : {"none", "live", "stopped"}, host : Hosts \cup {None},
   parent : Sessions \cup {None}, native : Sessions \cup {None}, recorded : BOOLEAN]
TurnShape == [turn : Receipts, session : Sessions, state : {"running", "done", "failed"}]
Places == {"idle", "claim", "reclaim", "binding", "prepare", "launch", "bind", "ready",
           "mark", "submit", "sent", "recover"}
ExecShape ==
  [pc : Places, head : Receipts \cup {None}, x : Sessions \cup {None},
   mark : Nat, entry : Nat, rec : BOOLEAN]
StopShape == [head : Receipts \cup {None}, left : SUBSET Sessions]

Tables == [Receipts -> ReceiptShape]

Shape ==
  /\ receipt \in Tables
  /\ bound \in Sessions \cup {None}
  /\ retired \in BOOLEAN
  /\ deleted \in BOOLEAN
  /\ session \in [Sessions -> SessionShape]
  /\ journal \in Seq(TurnShape)
  /\ exec \in [Hosts -> ExecShape]
  /\ stop \in [Hosts -> StopShape]
  /\ crashes \in 0 .. MaxCrashes

-----------------------------------------------------------------------------
(* Rows, transcript and retirement                                         *)

\* r is accepted and every request accepted before it has its answer
Front(t, r) ==
  /\ t[r].seq # 0
  /\ \A o \in Receipts : t[o].seq # 0 /\ t[o].seq < t[r].seq => t[o].status = "completed"

AcceptedIn(t) == {r \in Receipts : t[r].seq # 0}

Unsettled(t) == {r \in Receipts : t[r].status \in Working}

SeqOK(t) ==
  /\ \A r \in Receipts : t[r].seq = 0 <=> t[r].status = "absent"
  /\ \A r, o \in Receipts : t[r].seq # 0 /\ t[r].seq = t[o].seq => r = o
  /\ \A r \in Receipts : t[r].seq <= Cardinality(AcceptedIn(t))
  /\ \A n \in 1 .. Cardinality(AcceptedIn(t)) : \E r \in Receipts : t[r].seq = n

ReplyOK(t, j) ==
  \A r \in Receipts :
    /\ t[r].status = "completed" => t[r].reply \in 1 .. Len(j) /\ j[t[r].reply].turn = r
    /\ t[r].status # "completed" => t[r].reply = 0

\* the saved boundary of a prompt is its place in the transcript
JournalOK(t, j) == \A i \in 1 .. Len(j) : t[j[i].turn].mark = i - 1

MarkOK(t, j) ==
  \A r \in Receipts : t[r].mark # None =>
    /\ Front(t, r)
    /\ t[r].status \notin {"absent", "queued", "preparing"}
    /\ t[r].mark <= Len(j)
    /\ t[r].mark < Len(j) => j[t[r].mark + 1].turn = r

BacklogOK(t) == Unsettled(t) # {} => \E r \in Unsettled(t) : Front(t, r)

AbandonedOK(t, ret) ==
  (\E r \in Receipts : t[r].status = "abandoned") => ret /\ Unsettled(t) = {}

Stopping(t) == \E r \in Receipts : t[r].status = "abandoning" /\ Front(t, r)

RetiredOK(t, ret) == ret => Stopping(t) \/ Unsettled(t) = {}

RowsInv(t, j) == SeqOK(t) /\ ReplyOK(t, j) /\ JournalOK(t, j) /\ MarkOK(t, j) /\ BacklogOK(t)
QueueInv(t, j, ret) == RowsInv(t, j) /\ AbandonedOK(t, ret) /\ RetiredOK(t, ret)

\* what an attempt e knows: it is for the front, and its boundary is current
HostOK(t, j, e) ==
  /\ e.pc = "idle" => e = Idle
  /\ e.pc # "idle" =>
       /\ e.head \in Receipts
       /\ Front(t, e.head)
       /\ e.mark <= Len(j)
       /\ e.entry <= Len(j)
       /\ e.pc \notin {"claim", "reclaim", "binding", "prepare", "recover"} => e.x \in Sessions
       /\ e.pc = "submit" => t[e.head].mark = Len(j)
       /\ e.pc = "mark" /\ t[e.head].mark = None => e.mark = Len(j)
       /\ e.pc = "sent" => e.entry \in 1 .. Len(j) /\ j[e.entry].turn = e.head

ExecOK(t, j, es) ==
  /\ \A h \in Hosts : HostOK(t, j, es[h])
  /\ \A h, k \in Hosts : es[h].pc = "submit" /\ es[k].pc = "submit" => h = k

StopsRetire == \A h \in Hosts : stop[h].head # None => retired

TurnInv ==
  /\ QueueInv(receipt, journal, retired)
  /\ ExecOK(receipt, journal, exec)
  /\ StopsRetire
  /\ deleted => Unsettled(receipt) = {}

-----------------------------------------------------------------------------
(* What a step does to a row                                               *)

\* it stays what it was to the queue: unaccepted, unsettled, answered or given up
SoftRow(a, b) ==
  /\ b.seq = a.seq
  /\ b.mark = a.mark
  /\ b.reply = a.reply
  /\ b.status = "absent" <=> a.status = "absent"
  /\ b.status = "completed" <=> a.status = "completed"
  /\ b.status = "abandoned" <=> a.status = "abandoned"
  /\ a.status = "abandoning" => b.status = "abandoning"
  /\ b.status \in {"queued", "preparing"} => a.status \in {"queued", "preparing"}

Soft(t, u) == \A o \in Receipts : SoftRow(t[o], u[o])

\* only turns' states differ
SameTurns(j, k) ==
  /\ Len(k) = Len(j)
  /\ \A i \in 1 .. Len(j) :
       /\ k[i].turn = j[i].turn
       /\ k[i].session = j[i].session
       /\ k[i].state = "running" => j[i].state = "running"

LEMMA PutRow ==
  ASSUME NEW t \in Tables, NEW r \in Receipts, NEW row \in ReceiptShape
  PROVE  /\ [t EXCEPT ![r] = row] \in Tables
         /\ [t EXCEPT ![r] = row][r] = row
         /\ \A o \in Receipts : o # r => [t EXCEPT ![r] = row][o] = t[o]
BY DEF Tables

LEMMA RowFields ==
  ASSUME NEW t \in Tables, NEW r \in Receipts
  PROVE  /\ t[r] \in ReceiptShape
         /\ t[r].seq \in Nat
         /\ t[r].status \in Statuses
         /\ t[r].mark \in Nat \cup {None}
         /\ t[r].reply \in Nat
         /\ t[r].session \in Sessions \cup {None}
<1>1. t[r] \in ReceiptShape  BY DEF Tables
<1> QED  BY <1>1 DEF ReceiptShape

LEMMA TurnFields ==
  ASSUME NEW j \in Seq(TurnShape), NEW i \in 1 .. Len(j)
  PROVE  j[i] \in TurnShape /\ j[i].turn \in Receipts /\ j[i].session \in Sessions
<1>1. j[i] \in TurnShape  BY ElementOfSeq
<1> QED  BY <1>1 DEF TurnShape

LEMMA PutSoft ==
  ASSUME NEW t \in Tables, NEW r \in Receipts, NEW row \in ReceiptShape, SoftRow(t[r], row)
  PROVE  Soft(t, [t EXCEPT ![r] = row])
<1> SUFFICES ASSUME NEW o \in Receipts
             PROVE  SoftRow(t[o], [t EXCEPT ![r] = row][o])
  BY DEF Soft
<1>1. CASE o = r
  <2>1. [t EXCEPT ![r] = row][r] = row  BY DEF Tables
  <2>2. SoftRow(t[o], row)  BY <1>1
  <2> QED  BY <1>1, <2>1, <2>2
<1>2. CASE o # r
  <2>1. [t EXCEPT ![r] = row][o] = t[o]  BY <1>2, PutRow
  <2> QED  BY <2>1 DEF SoftRow
<1> QED  BY <1>1, <1>2

LEMMA SoftReflexive ==
  ASSUME NEW t
  PROVE  Soft(t, t)
BY DEF Soft, SoftRow

\* the front of the queue is one request, unless it is answered
LEMMA FrontIsOne ==
  ASSUME NEW t \in Tables, SeqOK(t), NEW r \in Receipts, NEW o \in Receipts,
         Front(t, r), Front(t, o), t[r].status # "completed", t[o].status # "completed"
  PROVE  r = o
<1>1. t[r].seq \in Nat /\ t[o].seq \in Nat  BY RowFields
<1>2. t[r].seq # 0 /\ t[o].seq # 0  BY DEF Front
<1>3. ~(t[r].seq < t[o].seq)  BY <1>2 DEF Front
<1>4. ~(t[o].seq < t[r].seq)  BY <1>2 DEF Front
<1>5. t[r].seq = t[o].seq  BY <1>1, <1>3, <1>4
<1> QED  BY <1>2, <1>5 DEF SeqOK

LEMMA UnsettledIsNot ==
  ASSUME NEW t \in Tables, NEW r \in Receipts
  PROVE  r \in Unsettled(t) <=> t[r].status \notin {"absent", "completed", "abandoned"}
BY RowFields DEF Unsettled, Statuses, Working

LEMMA SoftUnsettled ==
  ASSUME NEW t \in Tables, NEW u \in Tables, Soft(t, u)
  PROVE  Unsettled(u) = Unsettled(t)
<1>1. \A r \in Receipts : r \in Unsettled(u) <=> r \in Unsettled(t)
  BY UnsettledIsNot DEF Soft, SoftRow
<1> QED  BY <1>1 DEF Unsettled

LEMMA SoftFront ==
  ASSUME NEW t, NEW u, Soft(t, u), NEW r \in Receipts
  PROVE  Front(u, r) <=> Front(t, r)
BY DEF Front, Soft, SoftRow

LEMMA SoftKeepsRows ==
  ASSUME NEW t \in Tables, NEW u \in Tables, Soft(t, u),
         NEW j \in Seq(TurnShape), RowsInv(t, j)
  PROVE  RowsInv(u, j)
<1>1. AcceptedIn(u) = AcceptedIn(t)  BY DEF AcceptedIn, Soft, SoftRow
<1>2. SeqOK(u)  BY <1>1 DEF RowsInv, SeqOK, Soft, SoftRow
<1>3. ReplyOK(u, j)  BY DEF RowsInv, ReplyOK, Soft, SoftRow
<1>4. JournalOK(u, j)
  <2>1. \A i \in 1 .. Len(j) : j[i].turn \in Receipts  BY TurnFields
  <2> QED  BY <2>1 DEF RowsInv, JournalOK, Soft, SoftRow
<1>5. MarkOK(u, j)
  <2> SUFFICES ASSUME NEW r \in Receipts, u[r].mark # None
               PROVE  /\ Front(u, r)
                      /\ u[r].status \notin {"absent", "queued", "preparing"}
                      /\ u[r].mark <= Len(j)
                      /\ u[r].mark < Len(j) => j[u[r].mark + 1].turn = r
    BY DEF MarkOK
  <2>1. SoftRow(t[r], u[r])  BY DEF Soft
  <2>2. u[r].mark = t[r].mark  BY <2>1 DEF SoftRow
  <2>3. /\ Front(t, r)
        /\ t[r].status \notin {"absent", "queued", "preparing"}
        /\ t[r].mark <= Len(j)
        /\ t[r].mark < Len(j) => j[t[r].mark + 1].turn = r
    BY <2>2 DEF RowsInv, MarkOK
  <2>4. Front(u, r)  BY <2>3, SoftFront
  <2>5. u[r].status \notin {"absent", "queued", "preparing"}  BY <2>1, <2>3 DEF SoftRow
  <2> QED  BY <2>2, <2>3, <2>4, <2>5
<1>6. BacklogOK(u)
  <2>1. Unsettled(u) = Unsettled(t)  BY SoftUnsettled
  <2>2. \A r \in Unsettled(t) : r \in Receipts  BY DEF Unsettled
  <2> QED  BY <2>1, <2>2, SoftFront DEF RowsInv, BacklogOK
<1> QED  BY <1>2, <1>3, <1>4, <1>5, <1>6 DEF RowsInv

LEMMA SoftKeepsQueue ==
  ASSUME NEW t \in Tables, NEW u \in Tables, Soft(t, u),
         NEW j \in Seq(TurnShape), NEW ret \in BOOLEAN, QueueInv(t, j, ret)
  PROVE  QueueInv(u, j, ret)
<1>1. RowsInv(u, j)  BY SoftKeepsRows DEF QueueInv
<1>2. Unsettled(u) = Unsettled(t)  BY SoftUnsettled
<1>3. AbandonedOK(u, ret)
  BY <1>2 DEF QueueInv, AbandonedOK, Soft, SoftRow
<1>4. Stopping(t) => Stopping(u)
  <2> SUFFICES ASSUME NEW r \in Receipts, t[r].status = "abandoning", Front(t, r)
               PROVE  Stopping(u)
    BY DEF Stopping
  <2>1. u[r].status = "abandoning"  BY DEF Soft, SoftRow
  <2>2. Front(u, r)  BY SoftFront
  <2> QED  BY <2>1, <2>2 DEF Stopping
<1>5. RetiredOK(u, ret)  BY <1>2, <1>4 DEF QueueInv, RetiredOK
<1> QED  BY <1>1, <1>3, <1>5 DEF QueueInv

LEMMA SoftKeepsHost ==
  ASSUME NEW t, NEW u, Soft(t, u), NEW j, NEW e, HostOK(t, j, e)
  PROVE  HostOK(u, j, e)
<1> SUFFICES ASSUME e.pc # "idle"
             PROVE  HostOK(u, j, e)
  BY DEF HostOK
<1>1. e.head \in Receipts /\ Front(t, e.head)  BY DEF HostOK
<1>2. Front(u, e.head)  BY <1>1, SoftFront
<1>3. u[e.head].mark = t[e.head].mark  BY <1>1 DEF Soft, SoftRow
<1> QED  BY <1>1, <1>2, <1>3 DEF HostOK

\* the head of the store is the front of the queue
LEMMA HeadIsFront ==
  ASSUME Shape, TurnInv, NEW r \in HeadRow
  PROVE  /\ r \in Receipts
         /\ r \in Unsettled(receipt)
         /\ Front(receipt, r)
<1>1. r \in Receipts /\ receipt[r].status \in Working  BY DEF HeadRow
<1>2. r \in Unsettled(receipt)  BY <1>1 DEF Unsettled
<1>3. PICK o \in Unsettled(receipt) : Front(receipt, o)
  BY <1>2 DEF TurnInv, QueueInv, RowsInv, BacklogOK
<1>4. o \in Receipts /\ receipt[o].status \in Working  BY DEF Unsettled
<1>5. receipt[r].seq <= receipt[o].seq  BY <1>4 DEF HeadRow
<1>6. receipt[r].seq # 0
  BY <1>1 DEF TurnInv, QueueInv, RowsInv, SeqOK, Working
<1>7. receipt[r].seq \in Nat /\ receipt[o].seq \in Nat  BY <1>1, <1>4, RowFields DEF Shape
<1>8. receipt[r].status # "completed"  BY <1>1 DEF Working
<1>9. ~(receipt[r].seq < receipt[o].seq)  BY <1>1, <1>3, <1>6, <1>8 DEF Front
<1>10. receipt[r].seq = receipt[o].seq  BY <1>5, <1>7, <1>9
<1>11. r = o
  BY <1>1, <1>4, <1>6, <1>10 DEF TurnInv, QueueInv, RowsInv, SeqOK
<1> QED  BY <1>1, <1>2, <1>3, <1>11

-----------------------------------------------------------------------------
(* The moves that are not soft, on tables t, u and transcripts j           *)

LEMMA FrontKept ==
  ASSUME NEW t \in Tables, NEW u \in Tables, NEW r \in Receipts, Front(t, r),
         u[r].seq = t[r].seq,
         \A o \in Receipts : u[o].seq # 0 /\ u[o].seq < t[r].seq => t[o].seq = u[o].seq,
         \A o \in Receipts : t[o].status = "completed" => u[o].status = "completed"
  PROVE  Front(u, r)
BY DEF Front

LEMMA HostKept ==
  ASSUME NEW t, NEW u, NEW j, NEW e, HostOK(t, j, e),
         e.pc # "idle" => Front(u, e.head) /\ u[e.head].mark = t[e.head].mark
  PROVE  HostOK(u, j, e)
BY DEF HostOK

\* an answered prompt has its mark before the end of the transcript
LEMMA AnsweredIsMarked ==
  ASSUME NEW t \in Tables, NEW j \in Seq(TurnShape), RowsInv(t, j),
         NEW r \in Receipts, t[r].status = "completed"
  PROVE  t[r].mark \in Nat /\ t[r].mark < Len(j) /\ t[r].mark # None /\ Front(t, r)
<1>1. t[r].reply \in 1 .. Len(j) /\ j[t[r].reply].turn = r  BY DEF RowsInv, ReplyOK
<1>2. t[r].mark = t[r].reply - 1  BY <1>1 DEF RowsInv, JournalOK
<1>3. Len(j) \in Nat  BY LenProperties
<1>4. t[r].mark \in Nat /\ t[r].mark < Len(j)  BY <1>1, <1>2, <1>3
<1>5. t[r].mark # None  BY <1>4, TurnsAssumption
<1> QED  BY <1>4, <1>5 DEF RowsInv, MarkOK

LEMMA AcceptKeepsQueue ==
  ASSUME NEW t \in Tables, NEW u \in Tables, NEW r \in Receipts,
         NEW j \in Seq(TurnShape), QueueInv(t, j, FALSE),
         t[r].status = "absent", u[r].status = "queued",
         u[r].seq = Cardinality(AcceptedIn(t)) + 1,
         u[r].mark = t[r].mark, u[r].reply = t[r].reply,
         \A o \in Receipts : o # r => u[o] = t[o]
  PROVE  /\ QueueInv(u, j, FALSE)
         /\ \A o \in Receipts : Front(t, o) => Front(u, o) /\ o # r
<1> DEFINE n == Cardinality(AcceptedIn(t))
<1>0. SeqOK(t) /\ RowsInv(t, j)  BY DEF QueueInv, RowsInv
<1>1. IsFiniteSet(AcceptedIn(t))  BY TurnsAssumption, FS_Subset DEF AcceptedIn
<1>2. n \in Nat  BY <1>1, FS_CardinalityType
<1>3. t[r].seq = 0  BY <1>0 DEF SeqOK
<1>4. AcceptedIn(u) = AcceptedIn(t) \cup {r}
  <2>1. u[r].seq # 0  BY <1>2
  <2> QED  BY <2>1 DEF AcceptedIn
<1>5. Cardinality(AcceptedIn(u)) = n + 1
  <2>1. r \notin AcceptedIn(t)  BY <1>3 DEF AcceptedIn
  <2> QED  BY <1>1, <1>4, <2>1, FS_AddElement
<1>6. \A o \in Receipts : t[o].seq \in Nat /\ t[o].seq <= n  BY <1>0, RowFields DEF SeqOK
<1>7. u[r].seq = n + 1  OBVIOUS
<1> HIDE DEF n
<1>8. \A o \in Receipts : Front(t, o) => Front(u, o) /\ o # r
  <2> SUFFICES ASSUME NEW o \in Receipts, Front(t, o)
               PROVE  Front(u, o) /\ o # r
    OBVIOUS
  <2>1. o # r  BY <1>3 DEF Front
  <2>2. u[o].seq = t[o].seq  BY <2>1
  <2>3. \A p \in Receipts : u[p].seq # 0 /\ u[p].seq < t[o].seq => t[p].seq = u[p].seq
    <3>1. ~(u[r].seq < t[o].seq)  BY <1>2, <1>6, <1>7
    <3> QED  BY <3>1
  <2>4. \A p \in Receipts : t[p].status = "completed" => u[p].status = "completed"
    OBVIOUS
  <2> QED  BY <2>1, <2>2, <2>3, <2>4, FrontKept
<1>9. SeqOK(u)
  <2>1. \A o \in Receipts : u[o].seq = 0 <=> u[o].status = "absent"
    <3>1. u[r].seq # 0  BY <1>2, <1>7
    <3> QED  BY <1>0, <3>1 DEF SeqOK
  <2>2. \A p, o \in Receipts : u[p].seq # 0 /\ u[p].seq = u[o].seq => p = o
    <3>1. \A o \in Receipts : o # r => u[o].seq # u[r].seq  BY <1>2, <1>6, <1>7
    <3> QED  BY <1>0, <3>1 DEF SeqOK
  <2>3. \A o \in Receipts : u[o].seq <= n + 1  BY <1>2, <1>6, <1>7
  <2>4. \A m \in 1 .. n + 1 : \E o \in Receipts : u[o].seq = m
    <3> SUFFICES ASSUME NEW m \in 1 .. n + 1
                 PROVE  \E o \in Receipts : u[o].seq = m
      OBVIOUS
    <3>1. CASE m = n + 1  BY <1>7, <3>1
    <3>2. CASE m # n + 1
      <4>1. m \in 1 .. n  BY <1>2, <3>2
      <4>2. PICK o \in Receipts : t[o].seq = m  BY <1>0, <4>1 DEF SeqOK, n
      <4>3. o # r  BY <1>3, <4>1, <4>2
      <4> QED  BY <4>2, <4>3
    <3> QED  BY <3>1, <3>2
  <2> QED  BY <1>5, <2>1, <2>2, <2>3, <2>4 DEF SeqOK
<1>10. ReplyOK(u, j)  BY <1>0 DEF RowsInv, ReplyOK
<1>11. JournalOK(u, j)
  <2>1. \A i \in 1 .. Len(j) : j[i].turn \in Receipts  BY TurnFields
  <2>2. \A o \in Receipts : u[o].mark = t[o].mark  OBVIOUS
  <2> QED  BY <1>0, <2>1, <2>2 DEF RowsInv, JournalOK
<1>12. MarkOK(u, j)
  <2>1. t[r].mark = None  BY <1>0 DEF RowsInv, MarkOK
  <2> QED  BY <1>0, <1>8, <2>1 DEF RowsInv, MarkOK
<1>13. \A o \in Receipts : o # r => (o \in Unsettled(u) <=> o \in Unsettled(t))
  BY DEF Unsettled
<1>14. r \in Unsettled(u)  BY DEF Unsettled, Working
<1>15. BacklogOK(u)
  <2>1. CASE Unsettled(t) # {}
    <3>1. PICK o \in Unsettled(t) : Front(t, o)  BY <1>0, <2>1 DEF RowsInv, BacklogOK
    <3>2. o \in Receipts  BY DEF Unsettled
    <3>3. Front(u, o) /\ o # r  BY <1>8, <3>1, <3>2
    <3>4. o \in Unsettled(u)  BY <1>13, <3>2, <3>3
    <3> QED  BY <3>3, <3>4 DEF BacklogOK
  <2>2. CASE Unsettled(t) = {}
    <3>1. \A o \in Receipts : t[o].status # "abandoned"  BY DEF QueueInv, AbandonedOK
    <3>2. \A o \in Receipts : t[o].seq # 0 => t[o].status = "completed"
      BY <1>0, <2>2, <3>1, UnsettledIsNot DEF SeqOK
    <3>3. \A o \in Receipts : u[o].seq # 0 /\ o # r => u[o].status = "completed"  BY <3>2
    <3>4. Front(u, r)  BY <1>2, <1>7, <3>3 DEF Front
    <3> QED  BY <1>14, <3>4 DEF BacklogOK
  <2> QED  BY <2>1, <2>2
<1>16. AbandonedOK(u, FALSE)
  <2>1. \A o \in Receipts : t[o].status # "abandoned"  BY DEF QueueInv, AbandonedOK
  <2>2. \A o \in Receipts : u[o].status # "abandoned"  BY <2>1
  <2> QED  BY <2>2 DEF AbandonedOK
<1> QED  BY <1>8, <1>9, <1>10, <1>11, <1>12, <1>15, <1>16 DEF QueueInv, RowsInv, RetiredOK

LEMMA MarkKeepsQueue ==
  ASSUME NEW t \in Tables, NEW u \in Tables, NEW r \in Receipts,
         NEW j \in Seq(TurnShape), NEW ret \in BOOLEAN, QueueInv(t, j, ret),
         t[r].status = "preparing", Front(t, r), u[r].status = "sending",
         u[r].mark = Len(j), u[r].seq = t[r].seq, u[r].reply = t[r].reply,
         \A o \in Receipts : o # r => u[o] = t[o]
  PROVE  /\ QueueInv(u, j, ret)
         /\ \A o \in Receipts : Front(t, o) => Front(u, o)
<1>0. RowsInv(t, j)  BY DEF QueueInv
<1>1. \A o \in Receipts : u[o].seq = t[o].seq  OBVIOUS
<1>2. \A o \in Receipts : u[o].status = "completed" <=> t[o].status = "completed"  OBVIOUS
<1>3. \A o \in Receipts : Front(t, o) => Front(u, o)  BY <1>1, <1>2 DEF Front
<1>4. AcceptedIn(u) = AcceptedIn(t)  BY <1>1 DEF AcceptedIn
<1>5. \A o \in Receipts : u[o].status = "absent" <=> t[o].status = "absent"  OBVIOUS
<1>6. SeqOK(u)  BY <1>0, <1>1, <1>4, <1>5 DEF RowsInv, SeqOK
<1>7. ReplyOK(u, j)
  <2>1. \A o \in Receipts : u[o].reply = t[o].reply  OBVIOUS
  <2> QED  BY <1>0, <1>2, <2>1 DEF RowsInv, ReplyOK
<1>8. t[r].mark = None  BY <1>0 DEF RowsInv, MarkOK
<1>9. JournalOK(u, j)
  <2> SUFFICES ASSUME NEW i \in 1 .. Len(j)
               PROVE  u[j[i].turn].mark = i - 1
    BY DEF JournalOK
  <2>1. t[j[i].turn].mark = i - 1  BY <1>0 DEF RowsInv, JournalOK
  <2>2. i - 1 \in Nat  OBVIOUS
  <2>3. j[i].turn # r  BY <1>8, <2>1, <2>2, TurnsAssumption
  <2>4. j[i].turn \in Receipts  BY TurnFields
  <2> QED  BY <2>1, <2>3, <2>4
<1>10. MarkOK(u, j)
  <2>1. Len(j) \in Nat  BY LenProperties
  <2> SUFFICES ASSUME NEW o \in Receipts, u[o].mark # None
               PROVE  /\ Front(u, o)
                      /\ u[o].status \notin {"absent", "queued", "preparing"}
                      /\ u[o].mark <= Len(j)
                      /\ u[o].mark < Len(j) => j[u[o].mark + 1].turn = o
    BY DEF MarkOK
  <2>2. CASE o = r  BY <1>3, <2>1, <2>2
  <2>3. CASE o # r
    <3>1. u[o] = t[o]  BY <2>3
    <3> QED  BY <1>0, <1>3, <3>1 DEF RowsInv, MarkOK
  <2> QED  BY <2>2, <2>3
<1>11. Unsettled(u) = Unsettled(t)
  <2>1. u[r].status \in Working /\ t[r].status \in Working  BY DEF Working
  <2>2. \A o \in Receipts : o \in Unsettled(u) <=> o \in Unsettled(t)  BY <2>1 DEF Unsettled
  <2> QED  BY <2>2 DEF Unsettled
<1>12. \A o \in Unsettled(t) : o \in Receipts  BY DEF Unsettled
<1>13. BacklogOK(u)  BY <1>0, <1>3, <1>11, <1>12 DEF RowsInv, BacklogOK
<1>14. AbandonedOK(u, ret)
  <2>1. \A o \in Receipts : u[o].status = "abandoned" => t[o].status = "abandoned"  OBVIOUS
  <2> QED  BY <1>11, <2>1 DEF QueueInv, AbandonedOK
<1>15. RetiredOK(u, ret)
  <2>1. \A o \in Receipts : t[o].status = "abandoning" => u[o].status = "abandoning"  OBVIOUS
  <2>2. Stopping(t) => Stopping(u)  BY <1>3, <2>1 DEF Stopping
  <2> QED  BY <1>11, <2>2 DEF QueueInv, RetiredOK
<1> QED  BY <1>3, <1>6, <1>7, <1>9, <1>10, <1>13, <1>14, <1>15 DEF QueueInv, RowsInv

LEMMA SubmitKeepsQueue ==
  ASSUME NEW t \in Tables, NEW r \in Receipts, NEW j \in Seq(TurnShape), NEW turn \in TurnShape,
         NEW ret \in BOOLEAN, QueueInv(t, j, ret), Front(t, r), t[r].mark = Len(j), turn.turn = r
  PROVE  /\ QueueInv(t, Append(j, turn), ret)
         /\ t[r].status \notin {"completed", "queued", "preparing"}
<1> DEFINE k == Append(j, turn)
<1>0. RowsInv(t, j) /\ SeqOK(t)  BY DEF QueueInv, RowsInv
<1>1. /\ Len(j) \in Nat
      /\ Len(k) = Len(j) + 1
      /\ \A i \in 1 .. Len(j) : k[i] = j[i]
      /\ k[Len(j) + 1] = turn
  BY AppendProperties, LenProperties
<1>2. t[r].mark # None  BY <1>1, TurnsAssumption
<1>3. t[r].status # "completed"  BY <1>0, <1>1, AnsweredIsMarked
<1>4. t[r].status \notin {"queued", "preparing"}  BY <1>0, <1>2 DEF RowsInv, MarkOK
<1> HIDE DEF k
<1>5. ReplyOK(t, k)
  <2>1. \A o \in Receipts : t[o].reply \in 1 .. Len(j) => t[o].reply \in 1 .. Len(k)  BY <1>1
  <2> QED  BY <1>0, <1>1, <2>1 DEF RowsInv, ReplyOK
<1>6. JournalOK(t, k)
  <2> SUFFICES ASSUME NEW i \in 1 .. Len(k)
               PROVE  t[k[i].turn].mark = i - 1
    BY DEF JournalOK
  <2>1. CASE i = Len(j) + 1  BY <1>1, <2>1
  <2>2. CASE i # Len(j) + 1
    <3>1. i \in 1 .. Len(j)  BY <1>1, <2>2
    <3> QED  BY <1>0, <1>1, <3>1 DEF RowsInv, JournalOK
  <2> QED  BY <2>1, <2>2
<1>7. MarkOK(t, k)
  <2> SUFFICES ASSUME NEW o \in Receipts, t[o].mark # None
               PROVE  /\ Front(t, o)
                      /\ t[o].status \notin {"absent", "queued", "preparing"}
                      /\ t[o].mark <= Len(k)
                      /\ t[o].mark < Len(k) => k[t[o].mark + 1].turn = o
    BY DEF MarkOK
  <2>1. /\ Front(t, o)
        /\ t[o].status \notin {"absent", "queued", "preparing"}
        /\ t[o].mark <= Len(j)
        /\ t[o].mark < Len(j) => j[t[o].mark + 1].turn = o
    BY <1>0 DEF RowsInv, MarkOK
  <2>2. t[o].mark \in Nat  BY RowFields
  <2>3. t[o].mark <= Len(k)  BY <1>1, <2>1, <2>2
  <2>4. k[t[o].mark + 1].turn = o
    <3>1. CASE t[o].mark < Len(j)
      <4>1. t[o].mark + 1 \in 1 .. Len(j)  BY <1>1, <2>2, <3>1
      <4> QED  BY <1>1, <2>1, <3>1, <4>1
    <3>2. CASE t[o].mark = Len(j)
      <4>1. t[o].status # "completed"  BY <1>0, <1>1, <3>2, AnsweredIsMarked
      <4>2. o = r  BY <1>0, <1>3, <2>1, <4>1, FrontIsOne
      <4> QED  BY <1>1, <3>2, <4>2
    <3> QED  BY <1>1, <2>1, <2>2, <3>1, <3>2
  <2> QED  BY <2>1, <2>3, <2>4
<1>8. BacklogOK(t) /\ AbandonedOK(t, ret) /\ RetiredOK(t, ret)  BY DEF QueueInv, RowsInv
<1> QED  BY <1>0, <1>3, <1>4, <1>5, <1>6, <1>7, <1>8 DEF QueueInv, RowsInv, k

LEMMA AnswerKeepsQueue ==
  ASSUME NEW t \in Tables, NEW u \in Tables, NEW r \in Receipts,
         NEW j \in Seq(TurnShape), NEW ret \in BOOLEAN, QueueInv(t, j, ret),
         Front(t, r), t[r].status \in {"sending", "uncertain"}, u[r].status = "completed",
         u[r].reply \in 1 .. Len(j), j[u[r].reply].turn = r,
         u[r].seq = t[r].seq, u[r].mark = t[r].mark,
         \A o \in Receipts : o # r => u[o] = t[o]
  PROVE  /\ QueueInv(u, j, ret)
         /\ \A o \in Receipts : Front(t, o) => Front(u, o)
         /\ \A o \in Receipts : o \in Unsettled(u) => o \in Unsettled(t)
<1>0. RowsInv(t, j) /\ SeqOK(t)  BY DEF QueueInv, RowsInv
<1>1. \A o \in Receipts : u[o].seq = t[o].seq /\ u[o].mark = t[o].mark  OBVIOUS
<1>2. \A o \in Receipts : t[o].status = "completed" => u[o].status = "completed"  OBVIOUS
<1>3. \A o \in Receipts : Front(t, o) => Front(u, o)  BY <1>1, <1>2 DEF Front
<1>4. AcceptedIn(u) = AcceptedIn(t)  BY <1>1 DEF AcceptedIn
<1>5. \A o \in Receipts : u[o].status = "absent" <=> t[o].status = "absent"  OBVIOUS
<1>6. SeqOK(u)  BY <1>0, <1>1, <1>4, <1>5 DEF SeqOK
<1>7. ReplyOK(u, j)  BY <1>0 DEF RowsInv, ReplyOK
<1>8. JournalOK(u, j)
  <2>1. \A i \in 1 .. Len(j) : j[i].turn \in Receipts  BY TurnFields
  <2> QED  BY <1>0, <1>1, <2>1 DEF RowsInv, JournalOK
<1>9. MarkOK(u, j)
  <2>1. \A o \in Receipts : u[o].status \in {"absent", "queued", "preparing"} =>
                              t[o].status \in {"absent", "queued", "preparing"}
    OBVIOUS
  <2> QED  BY <1>0, <1>1, <1>3, <2>1 DEF RowsInv, MarkOK
<1>10. r \in Unsettled(t)  BY DEF Unsettled, Working
<1>11. \A o \in Receipts : o \in Unsettled(u) <=> o # r /\ o \in Unsettled(t)
  <2>1. r \notin Unsettled(u)  BY DEF Unsettled, Working
  <2> QED  BY <2>1 DEF Unsettled
<1>12. \A o \in Receipts : t[o].status # "abandoned"
  BY <1>10 DEF QueueInv, AbandonedOK
<1>13. ret = FALSE
  <2>1. ~Stopping(t)
    <3> SUFFICES ASSUME NEW o \in Receipts, t[o].status = "abandoning", Front(t, o)
                 PROVE  FALSE
      BY DEF Stopping
    <3>1. o = r  BY <1>0, FrontIsOne
    <3> QED  BY <3>1
  <2> QED  BY <1>10, <2>1 DEF QueueInv, RetiredOK
\* the next in the queue, if any, is the new front
<1>14. BacklogOK(u)
  <2> SUFFICES ASSUME NEW w \in Unsettled(u)
               PROVE  \E o \in Unsettled(u) : Front(u, o)
    BY DEF BacklogOK
  <2>1. w \in Receipts  BY DEF Unsettled
  <2>2. w # r /\ w \in Unsettled(t)  BY <1>11, <2>1
  <2>3. t[w].status \notin {"absent", "completed", "abandoned"}  BY <2>1, <2>2, UnsettledIsNot
  <2>4. t[w].seq \in Nat /\ t[r].seq \in Nat /\ t[r].seq # 0 /\ t[w].seq # 0
    BY <1>0, <2>1, <2>3, RowFields DEF SeqOK, Front
  <2>5. t[w].seq # t[r].seq  BY <1>0, <2>1, <2>2, <2>4 DEF SeqOK
  <2>6. ~(t[w].seq < t[r].seq)  BY <2>1, <2>3, <2>4 DEF Front
  <2>7. t[r].seq + 1 <= t[w].seq  BY <2>4, <2>5, <2>6
  <2>8. t[w].seq <= Cardinality(AcceptedIn(t))  BY <1>0, <2>1 DEF SeqOK
  <2>9. IsFiniteSet(AcceptedIn(t))  BY TurnsAssumption, FS_Subset DEF AcceptedIn
  <2>10. Cardinality(AcceptedIn(t)) \in Nat  BY <2>9, FS_CardinalityType
  <2>11. t[r].seq + 1 \in 1 .. Cardinality(AcceptedIn(t))  BY <2>4, <2>7, <2>8, <2>10
  <2>12. PICK o \in Receipts : t[o].seq = t[r].seq + 1  BY <1>0, <2>11 DEF SeqOK
  <2>13. o # r  BY <2>4, <2>12
  <2>14. t[o].status # "completed"
    <3> SUFFICES ASSUME t[o].status = "completed"
                 PROVE  FALSE
      OBVIOUS
    <3>1. Front(t, o)  BY <1>0, AnsweredIsMarked
    <3>2. t[r].seq < t[o].seq  BY <2>4, <2>12
    <3>3. t[r].status = "completed"  BY <2>4, <3>1, <3>2 DEF Front
    <3> QED  BY <3>3
  <2>15. o \in Unsettled(u)
    <3>1. t[o].status # "absent"  BY <1>0, <2>4, <2>12 DEF SeqOK
    <3>2. o \in Unsettled(t)  BY <1>12, <2>14, <3>1, UnsettledIsNot
    <3> QED  BY <1>11, <2>13, <3>2
  <2>16. Front(u, o)
    <3> SUFFICES ASSUME NEW p \in Receipts, u[p].seq # 0, u[p].seq < u[o].seq
                 PROVE  u[p].status = "completed"
      BY <1>1, <2>4, <2>12 DEF Front
    <3>1. t[p].seq \in Nat  BY RowFields
    <3>2. t[p].seq <= t[r].seq  BY <1>1, <2>4, <2>12, <3>1
    <3>3. CASE p = r  BY <3>3
    <3>4. CASE p # r
      <4>1. t[p].seq # t[r].seq  BY <1>0, <2>4, <3>4 DEF SeqOK
      <4>2. t[p].seq < t[r].seq  BY <2>4, <3>1, <3>2, <4>1
      <4>3. t[p].seq # 0  BY <1>1
      <4>4. t[p].status = "completed"  BY <4>2, <4>3 DEF Front
      <4> QED  BY <3>4, <4>4
    <3> QED  BY <3>3, <3>4
  <2> QED  BY <2>15, <2>16
<1>15. AbandonedOK(u, ret)
  <2>1. \A o \in Receipts : u[o].status # "abandoned"  BY <1>12
  <2> QED  BY <2>1 DEF AbandonedOK
<1>16. RetiredOK(u, ret)  BY <1>13 DEF RetiredOK
<1> QED  BY <1>3, <1>6, <1>7, <1>8, <1>9, <1>11, <1>14, <1>15, <1>16 DEF QueueInv, RowsInv

\* u gives up everything that is unsettled
LEMMA AbandonKeepsQueue ==
  ASSUME NEW t \in Tables, NEW u \in Tables, NEW j \in Seq(TurnShape), QueueInv(t, j, TRUE),
         \A o \in Receipts : /\ u[o].seq = t[o].seq
                             /\ u[o].mark = t[o].mark
                             /\ u[o].reply = t[o].reply
                             /\ u[o].status = IF t[o].status \in Working THEN "abandoned"
                                              ELSE t[o].status
  PROVE  /\ QueueInv(u, j, TRUE)
         /\ \A o \in Receipts : Front(t, o) => Front(u, o)
         /\ Unsettled(u) = {}
<1>0. RowsInv(t, j) /\ SeqOK(t)  BY DEF QueueInv, RowsInv
<1>1. \A o \in Receipts : /\ u[o].status = "completed" <=> t[o].status = "completed"
                          /\ u[o].status = "absent" <=> t[o].status = "absent"
                          /\ u[o].status \notin Working
                          /\ u[o].status \in {"absent", "queued", "preparing"} =>
                               t[o].status \in {"absent", "queued", "preparing"}
  BY DEF Working
<1>2. Unsettled(u) = {}  BY <1>1 DEF Unsettled
<1>3. \A o \in Receipts : Front(t, o) => Front(u, o)  BY <1>1 DEF Front
<1>4. AcceptedIn(u) = AcceptedIn(t)  BY DEF AcceptedIn
<1>5. SeqOK(u)  BY <1>0, <1>1, <1>4 DEF SeqOK
<1>6. ReplyOK(u, j)  BY <1>0, <1>1 DEF RowsInv, ReplyOK
<1>7. JournalOK(u, j)
  <2>1. \A i \in 1 .. Len(j) : j[i].turn \in Receipts  BY TurnFields
  <2> QED  BY <1>0, <2>1 DEF RowsInv, JournalOK
<1>8. MarkOK(u, j)  BY <1>0, <1>1, <1>3 DEF RowsInv, MarkOK
<1>9. BacklogOK(u)  BY <1>2 DEF BacklogOK
<1> QED  BY <1>2, <1>3, <1>5, <1>6, <1>7, <1>8, <1>9 DEF QueueInv, RowsInv, AbandonedOK, RetiredOK

LEMMA SameTurnsKeepQueue ==
  ASSUME NEW t \in Tables, NEW j \in Seq(TurnShape), NEW k \in Seq(TurnShape), SameTurns(j, k),
         NEW ret \in BOOLEAN, QueueInv(t, j, ret)
  PROVE  QueueInv(t, k, ret)
<1>0. RowsInv(t, j)  BY DEF QueueInv
<1>1. ReplyOK(t, k)  BY <1>0 DEF RowsInv, ReplyOK, SameTurns
<1>2. JournalOK(t, k)  BY <1>0 DEF RowsInv, JournalOK, SameTurns
<1>3. MarkOK(t, k)
  <2> SUFFICES ASSUME NEW o \in Receipts, t[o].mark # None
               PROVE  /\ Front(t, o)
                      /\ t[o].status \notin {"absent", "queued", "preparing"}
                      /\ t[o].mark <= Len(k)
                      /\ t[o].mark < Len(k) => k[t[o].mark + 1].turn = o
    BY DEF MarkOK
  <2>1. t[o].mark \in Nat /\ Len(j) \in Nat  BY RowFields, LenProperties
  <2>2. t[o].mark < Len(j) => t[o].mark + 1 \in 1 .. Len(j)  BY <2>1
  <2> QED  BY <1>0, <2>2 DEF RowsInv, MarkOK, SameTurns
<1> QED  BY <1>0, <1>1, <1>2, <1>3 DEF QueueInv, RowsInv

LEMMA SameTurnsKeepHost ==
  ASSUME NEW t, NEW j, NEW k, SameTurns(j, k), NEW e, HostOK(t, j, e)
  PROVE  HostOK(t, k, e)
BY DEF HostOK, SameTurns

-----------------------------------------------------------------------------
(* Which rows the actions write                                            *)

LEMMA SoftPut ==
  ASSUME Shape, NEW r \in Receipts, NEW row \in ReceiptShape, SoftRow(receipt[r], row),
         receipt' = [receipt EXCEPT ![r] = row]
  PROVE  receipt' \in Tables /\ Soft(receipt, receipt')
<1>1. receipt \in Tables  BY DEF Shape
<1>2. [receipt EXCEPT ![r] = row] \in Tables  BY <1>1 DEF Tables
<1>3. Soft(receipt, [receipt EXCEPT ![r] = row])  BY <1>1, PutSoft
<1> QED  BY <1>2, <1>3

LEMMA UncertainRow ==
  ASSUME Shape, NEW h, NEW kind, NEW r \in Receipts
  PROVE  /\ Uncertain(h, kind, r) \in ReceiptShape
         /\ SoftRow(receipt[r], Uncertain(h, kind, r))
<1>1. receipt[r] \in ReceiptShape  BY DEF Shape, Tables
<1>2. Released(receipt[r]) \in ReceiptShape  BY <1>1 DEF Released, ReceiptShape
<1>3. Released(receipt[r]).status = receipt[r].status  BY <1>1 DEF Released, ReceiptShape
<1> DEFINE row == [Released(receipt[r]) EXCEPT !.status = IF @ = "sending" THEN "uncertain" ELSE @]
<1>4. row \in ReceiptShape  BY <1>2 DEF ReceiptShape, Statuses, Working
<1>5. SoftRow(receipt[r], row)
  BY <1>1 DEF SoftRow, Released, ReceiptShape
<1>6. SoftRow(receipt[r], receipt[r])  BY DEF SoftRow
<1> HIDE DEF row
<1>7. Uncertain(h, kind, r) \in {row, receipt[r]}  BY DEF Uncertain, row
<1>8. CASE Uncertain(h, kind, r) = row  BY <1>4, <1>5, <1>8
<1>9. CASE Uncertain(h, kind, r) = receipt[r]  BY <1>1, <1>6, <1>9
<1> QED  BY <1>7, <1>8, <1>9

LEMMA HeldIsSoft ==
  ASSUME Shape, NEW r \in Receipts, NEW b \in BOOLEAN,
         receipt' = [receipt EXCEPT ![r].held = b]
  PROVE  receipt' \in Tables /\ Soft(receipt, receipt')
<1> DEFINE row == [receipt[r] EXCEPT !.held = b]
<1>1. receipt[r] \in ReceiptShape  BY DEF Shape, Tables
<1>2. row \in ReceiptShape  BY <1>1 DEF ReceiptShape
<1>3. SoftRow(receipt[r], row)  BY <1>1 DEF SoftRow, ReceiptShape
<1>4. receipt' = [receipt EXCEPT ![r] = row]  BY DEF Shape, Tables
<1> HIDE DEF row
<1> QED  BY <1>2, <1>3, <1>4, SoftPut

LEMMA RecoverPreparationIsSoft ==
  ASSUME Shape, NEW r \in Receipts, RecoverPreparation(r)
  PROVE  receipt' \in Tables /\ Soft(receipt, receipt')
<1> DEFINE row == [receipt[r] EXCEPT !.status = "queued", !.missing = FALSE]
<1>1. receipt[r] \in ReceiptShape  BY DEF Shape, Tables
<1>2. row \in ReceiptShape  BY <1>1 DEF ReceiptShape, Statuses, Working
<1>3. receipt[r].status = "preparing"  BY DEF RecoverPreparation
<1>4. SoftRow(receipt[r], row)  BY <1>1, <1>3 DEF SoftRow, ReceiptShape
<1>5. receipt' = [receipt EXCEPT ![r] = row]  BY DEF RecoverPreparation, Shape, Tables
<1> HIDE DEF row
<1> QED  BY <1>2, <1>4, <1>5, SoftPut

\* a claim is of the row that the attempt read as the head
LEMMA ClaimEffect ==
  ASSUME Shape, TurnInv, NEW h \in Hosts, Claim(h)
  PROVE  receipt' \in Tables /\ Soft(receipt, receipt')
<1> DEFINE r == exec[h].head
           next == Prepared(receipt[r].status)
           row == [receipt[r] EXCEPT
             !.status = next,
             !.claim = <<h, "run">>, !.held = TRUE, !.sender = None, !.missing = FALSE]
<1>1. receipt[r].status \in {"queued", "preparing", "sending", "uncertain"}
  BY DEF Claim, Claimable, Working
<1>2. r \in Receipts  BY DEF Claim, TurnInv, ExecOK, HostOK
<1>3. receipt[r] \in ReceiptShape  BY <1>2 DEF Shape, Tables
<1>4. receipt' = [receipt EXCEPT ![r] = row]  BY DEF Claim
<1> HIDE DEF r
<1>5. next \in Statuses  BY <1>3 DEF Prepared, ReceiptShape, Statuses, Working
<1>6. SoftRow(receipt[r], row)  BY <1>1, <1>3 DEF SoftRow, ReceiptShape, Prepared
<1> HIDE DEF next
<1>7. row \in ReceiptShape  BY <1>3, <1>5 DEF ReceiptShape
<1> HIDE DEF row
<1> QED  BY <1>2, <1>4, <1>6, <1>7, SoftPut

LEMMA BindEffect ==
  ASSUME Shape, TurnInv, NEW h \in Hosts, Bind(h)
  PROVE  receipt' \in Tables /\ Soft(receipt, receipt')
<1> DEFINE r == exec[h].head
           row == [receipt[r] EXCEPT !.session = exec[h].x]
<1>1. r \in Receipts  BY DEF Bind, At, TurnInv, ExecOK, HostOK
<1>2. receipt[r] \in ReceiptShape  BY <1>1 DEF Shape, Tables
<1>3. exec[h].x \in Sessions \cup {None}  BY DEF Shape, ExecShape
<1>4. receipt' = [receipt EXCEPT ![r] = row]  BY <1>1 DEF Bind, Shape, Tables
<1> HIDE DEF r
<1>5. row \in ReceiptShape  BY <1>2, <1>3 DEF ReceiptShape
<1>6. SoftRow(receipt[r], row)  BY <1>2 DEF SoftRow, ReceiptShape
<1> HIDE DEF row
<1> QED  BY <1>1, <1>4, <1>5, <1>6, SoftPut

LEMMA UncertainIsSoft ==
  ASSUME Shape, NEW h, NEW kind, NEW r \in Receipts,
         receipt' = [receipt EXCEPT ![r] = Uncertain(h, kind, r)]
  PROVE  receipt' \in Tables /\ Soft(receipt, receipt')
BY UncertainRow, SoftPut

LEMMA MissingIsSoft ==
  ASSUME Shape, NEW h, NEW r \in Receipts,
         receipt' = [receipt EXCEPT ![r] =
           [Uncertain(h, "run", r) EXCEPT !.missing = IF Mine(h, "run", r) THEN TRUE ELSE @]]
  PROVE  receipt' \in Tables /\ Soft(receipt, receipt')
<1> DEFINE old == Uncertain(h, "run", r)
           row == [old EXCEPT !.missing = IF Mine(h, "run", r) THEN TRUE ELSE @]
<1>1. old \in ReceiptShape /\ SoftRow(receipt[r], old)  BY UncertainRow
<1>2. receipt' = [receipt EXCEPT ![r] = row]  OBVIOUS
<1> HIDE DEF old
<1>3. row \in ReceiptShape  BY <1>1 DEF ReceiptShape
<1>4. SoftRow(receipt[r], row)  BY <1>1 DEF SoftRow, ReceiptShape
<1> HIDE DEF row
<1> QED  BY <1>2, <1>3, <1>4, SoftPut

LEMMA AbandonBeginsEffect ==
  ASSUME Shape, TurnInv, NEW h \in Hosts, AbandonBegins(h)
  PROVE  /\ receipt' \in Tables
         /\ Soft(receipt, receipt')
         /\ \E r \in Receipts :
              /\ Front(receipt, r)
              /\ receipt[r].session # None
              /\ receipt'[r].status = "abandoning"
              /\ stop' = [stop EXCEPT ![h] = [head |-> r, left |-> {x \in Sessions : Live(h, x)}]]
<1>1. PICK r \in HeadRow :
        /\ receipt[r].session # None
        /\ receipt' = [receipt EXCEPT ![r] = [@ EXCEPT
             !.status = "abandoning", !.claim = <<h, "stop">>, !.held = TRUE, !.sender = None]]
        /\ stop' = [stop EXCEPT ![h] = [head |-> r, left |-> {x \in Sessions : Live(h, x)}]]
  BY DEF AbandonBegins
<1>2. r \in Receipts /\ r \in Unsettled(receipt) /\ Front(receipt, r)  BY HeadIsFront
<1> DEFINE row == [receipt[r] EXCEPT
             !.status = "abandoning", !.claim = <<h, "stop">>, !.held = TRUE, !.sender = None]
<1>3. receipt[r] \in ReceiptShape  BY <1>2 DEF Shape, Tables
<1>4. row \in ReceiptShape  BY <1>3 DEF ReceiptShape, Statuses, Working
<1>5. receipt[r].status \in Working  BY <1>2 DEF Unsettled
<1>6. SoftRow(receipt[r], row)  BY <1>3, <1>5 DEF SoftRow, ReceiptShape, Working
<1>7. receipt' = [receipt EXCEPT ![r] = row]  BY <1>1, <1>2 DEF Shape, Tables
<1>8. row.status = "abandoning"  BY <1>3 DEF ReceiptShape
<1> HIDE DEF row
<1>9. receipt' \in Tables /\ Soft(receipt, receipt')  BY <1>2, <1>4, <1>6, <1>7, SoftPut
<1>10. receipt'[r] = row  BY <1>2, <1>7 DEF Shape, Tables
<1> QED  BY <1>1, <1>2, <1>8, <1>9, <1>10

-----------------------------------------------------------------------------
(* Quiet steps: rows change softly, turns are only brought to their end,   *)
(* and no attempt arrives at its submission                                *)

QuietExec ==
  \A k \in Hosts : \/ exec'[k] = exec[k]
                   \/ HostOK(receipt, journal, exec'[k]) /\ exec'[k].pc # "submit"

LEMMA QuietStep ==
  ASSUME Shape, Shape', TurnInv, Soft(receipt, receipt'), SameTurns(journal, journal'),
         QuietExec, retired' = retired, StopsRetire',
         deleted' = deleted \/ Unsettled(receipt) = {}
  PROVE  TurnInv'
<1>1. /\ receipt \in Tables /\ receipt' \in Tables
      /\ journal \in Seq(TurnShape) /\ journal' \in Seq(TurnShape)
      /\ retired \in BOOLEAN
  BY DEF Shape
<1>2. QueueInv(receipt', journal', retired')
  <2>1. QueueInv(receipt', journal, retired)  BY <1>1, SoftKeepsQueue DEF TurnInv
  <2> QED  BY <1>1, <2>1, SameTurnsKeepQueue
<1>3. \A k \in Hosts : HostOK(receipt', journal', exec'[k])
  <2> SUFFICES ASSUME NEW k \in Hosts
               PROVE  HostOK(receipt', journal', exec'[k])
    OBVIOUS
  <2>1. HostOK(receipt, journal, exec[k])  BY DEF TurnInv, ExecOK
  <2>2. HostOK(receipt, journal, exec'[k])  BY <2>1 DEF QuietExec
  <2>3. HostOK(receipt', journal, exec'[k])  BY <2>2, SoftKeepsHost
  <2> QED  BY <2>3, SameTurnsKeepHost
<1>4. \A h, k \in Hosts : exec'[h].pc = "submit" /\ exec'[k].pc = "submit" => h = k
  BY DEF QuietExec, TurnInv, ExecOK
<1>5. deleted' => Unsettled(receipt') = {}
  <2>1. Unsettled(receipt') = Unsettled(receipt)  BY <1>1, SoftUnsettled
  <2> QED  BY <2>1 DEF TurnInv
<1> QED  BY <1>2, <1>3, <1>4, <1>5 DEF TurnInv, ExecOK

LEMMA PutExec ==
  ASSUME Shape, NEW h \in Hosts, NEW e \in ExecShape, exec' = [exec EXCEPT ![h] = e]
  PROVE  /\ exec' \in [Hosts -> ExecShape]
         /\ exec'[h] = e
         /\ \A k \in Hosts : k # h => exec'[k] = exec[k]
BY DEF Shape

LEMMA PutQuietly ==
  ASSUME Shape, NEW h \in Hosts, NEW e \in ExecShape, exec' = [exec EXCEPT ![h] = e],
         HostOK(receipt, journal, e), e.pc # "submit"
  PROVE  exec' \in [Hosts -> ExecShape] /\ QuietExec
<1>1. /\ exec' \in [Hosts -> ExecShape]
      /\ exec'[h] = e
      /\ \A k \in Hosts : k # h => exec'[k] = exec[k]
  BY PutExec
<1>2. \A k \in Hosts : k = h => HostOK(receipt, journal, exec'[k]) /\ exec'[k].pc # "submit"
  BY <1>1
<1> QED  BY <1>1, <1>2 DEF QuietExec

LEMMA IdleHost ==
  /\ Idle \in ExecShape
  /\ Idle.pc = "idle"
  /\ \A t, j : HostOK(t, j, Idle)
BY DEF Idle, ExecShape, Places, HostOK

LEMMA PutIdle ==
  ASSUME Shape, NEW h \in Hosts, exec' = [exec EXCEPT ![h] = Idle]
  PROVE  exec' \in [Hosts -> ExecShape] /\ QuietExec
<1>1. Idle \in ExecShape /\ HostOK(receipt, journal, Idle) /\ Idle.pc # "submit"
  BY IdleHost
<1> QED  BY <1>1, PutQuietly

\* an attempt goes on without counting, submitting or hearing of anything
LEMMA PutMoved ==
  ASSUME Shape, TurnInv, NEW h \in Hosts, exec[h].pc # "idle",
         NEW p \in {"binding", "prepare", "recover", "launch", "bind", "ready"},
         NEW x \in Sessions \cup {None},
         x = None => p \in {"binding", "prepare", "recover"},
         exec' = [exec EXCEPT ![h].pc = p, ![h].x = x]
  PROVE  /\ exec' \in [Hosts -> ExecShape]
         /\ exec'[h] = [exec[h] EXCEPT !.pc = p, !.x = x]
         /\ \A k \in Hosts : k # h => exec'[k] = exec[k]
         /\ QuietExec
<1> DEFINE e == [exec[h] EXCEPT !.pc = p, !.x = x]
<1>1. exec[h] \in ExecShape  BY DEF Shape
<1>2. e \in ExecShape  BY <1>1 DEF ExecShape, Places
<1>3. exec' = [exec EXCEPT ![h] = e]  BY DEF Shape
<1>4. /\ e.pc = p /\ e.head = exec[h].head /\ e.mark = exec[h].mark
      /\ e.entry = exec[h].entry /\ e.x = x
  BY <1>1 DEF ExecShape
<1> HIDE DEF e
<1>5. HostOK(receipt, journal, exec[h])  BY DEF TurnInv, ExecOK
<1>6. HostOK(receipt, journal, e)  BY <1>4, <1>5 DEF HostOK
<1>7. e.pc # "submit"  BY <1>4
<1>8. exec' \in [Hosts -> ExecShape] /\ QuietExec  BY <1>2, <1>3, <1>6, <1>7, PutQuietly
<1>9. exec'[h] = e /\ \A k \in Hosts : k # h => exec'[k] = exec[k]  BY <1>2, <1>3, PutExec
<1> QED  BY <1>8, <1>9 DEF e

\* the same for steps that leave the session alone
LEMMA GotoMoved ==
  ASSUME Shape, TurnInv, NEW h \in Hosts, exec[h].pc # "idle",
         NEW p \in {"binding", "prepare", "recover", "launch", "bind", "ready"},
         p \in {"launch", "bind", "ready"} => exec[h].pc \in {"launch", "bind"}, Goto(h, p)
  PROVE  /\ exec' \in [Hosts -> ExecShape]
         /\ exec'[h] = [exec[h] EXCEPT !.pc = p]
         /\ \A k \in Hosts : k # h => exec'[k] = exec[k]
         /\ QuietExec
<1> DEFINE x == exec[h].x
<1>1. exec[h] \in ExecShape  BY DEF Shape
<1>2. x \in Sessions \cup {None} /\ (x = None => p \in {"binding", "prepare", "recover"})
  BY TurnsAssumption DEF Shape, ExecShape, TurnInv, ExecOK, HostOK
<1>3. [exec[h] EXCEPT !.pc = p, !.x = x] = [exec[h] EXCEPT !.pc = p]  BY <1>1 DEF ExecShape
<1>4. exec' = [exec EXCEPT ![h].pc = p, ![h].x = x]
  <2>1. [exec EXCEPT ![h].pc = p, ![h].x = x] =
          [exec EXCEPT ![h] = [exec[h] EXCEPT !.pc = p, !.x = x]]
    BY DEF Shape
  <2>2. exec' = [exec EXCEPT ![h] = [exec[h] EXCEPT !.pc = p]]  BY DEF Goto, Shape
  <2> QED  BY <1>3, <2>1, <2>2
<1> HIDE DEF x
<1> QED  BY <1>2, <1>3, <1>4, PutMoved

LEMMA SameExecIsQuiet ==
  ASSUME exec' = exec
  PROVE  QuietExec
BY DEF QuietExec

LEMMA SameJournal ==
  ASSUME journal' = journal
  PROVE  SameTurns(journal, journal')
BY DEF SameTurns

LEMMA InterruptedTurns ==
  ASSUME Shape, NEW stopped, journal' = Interrupted(stopped)
  PROVE  journal' \in Seq(TurnShape) /\ SameTurns(journal, journal')
<1>1. journal \in [1 .. Len(journal) -> TurnShape] /\ Len(journal) \in Nat
  BY LenProperties DEF Shape
<1>2. journal' \in [1 .. Len(journal) -> TurnShape]
  <2>1. \A i \in 1 .. Len(journal) : [journal[i] EXCEPT !.state = "failed"] \in TurnShape
    BY <1>1 DEF TurnShape
  <2> QED  BY <1>1, <2>1 DEF Interrupted
<1>3. journal' \in Seq(TurnShape) /\ Len(journal') = Len(journal)
  BY <1>1, <1>2, SeqDef, LenProperties
<1>4. \A i \in 1 .. Len(journal) :
        /\ journal'[i].turn = journal[i].turn
        /\ journal'[i].session = journal[i].session
        /\ journal'[i].state = "running" =>
             journal[i].state = "running" /\ journal[i].session \notin stopped
  <2> SUFFICES ASSUME NEW i \in 1 .. Len(journal)
               PROVE  /\ journal'[i].turn = journal[i].turn
                      /\ journal'[i].session = journal[i].session
                      /\ journal'[i].state = "running" =>
                           journal[i].state = "running" /\ journal[i].session \notin stopped
    OBVIOUS
  <2>1. journal[i] \in TurnShape  BY <1>1
  <2>2. journal'[i] = IF journal[i].session \in stopped /\ journal[i].state = "running"
                      THEN [journal[i] EXCEPT !.state = "failed"] ELSE journal[i]
    BY <1>1 DEF Interrupted
  <2> QED  BY <2>1, <2>2 DEF TurnShape
<1> QED  BY <1>3, <1>4 DEF SameTurns

LEMMA TurnEndsTurns ==
  ASSUME Shape, TurnEnds
  PROVE  journal' \in Seq(TurnShape) /\ SameTurns(journal, journal')
<1>1. journal \in [1 .. Len(journal) -> TurnShape] /\ Len(journal) \in Nat
  BY LenProperties DEF Shape
<1>2. PICK i \in 1 .. Len(journal), end \in {"done", "failed"} :
        journal' = [journal EXCEPT ![i].state = end]
  BY <1>1 DEF TurnEnds
<1>3. [journal[i] EXCEPT !.state = end] \in TurnShape  BY <1>1 DEF TurnShape
<1>4. journal' = [journal EXCEPT ![i] = [journal[i] EXCEPT !.state = end]]  BY <1>1, <1>2
<1>5. journal' \in [1 .. Len(journal) -> TurnShape]  BY <1>1, <1>3, <1>4
<1>6. journal' \in Seq(TurnShape) /\ Len(journal') = Len(journal)
  BY <1>1, <1>5, SeqDef, LenProperties
<1>7. \A k \in 1 .. Len(journal) :
        /\ journal'[k].turn = journal[k].turn
        /\ journal'[k].session = journal[k].session
        /\ journal'[k].state = "running" => journal[k].state = "running"
  <2> SUFFICES ASSUME NEW k \in 1 .. Len(journal)
               PROVE  /\ journal'[k].turn = journal[k].turn
                      /\ journal'[k].session = journal[k].session
                      /\ journal'[k].state = "running" => journal[k].state = "running"
    OBVIOUS
  <2>1. CASE k = i
    <3>1. journal'[k] = [journal[k] EXCEPT !.state = end]  BY <1>1, <1>4, <2>1
    <3>2. journal[k] \in TurnShape  BY <1>1
    <3> QED  BY <3>1, <3>2 DEF TurnShape
  <2>2. CASE k # i
    <3>1. journal'[k] = journal[k]  BY <1>1, <1>4, <2>2
    <3> QED  BY <3>1
  <2> QED  BY <2>1, <2>2
<1> QED  BY <1>6, <1>7 DEF SameTurns

-----------------------------------------------------------------------------
(* One lemma per action                                                    *)

LEMMA PutNoStop ==
  ASSUME Shape, TurnInv, NEW h \in Hosts, stop' = [stop EXCEPT ![h] = NoStop], retired' = retired
  PROVE  stop' \in [Hosts -> StopShape] /\ StopsRetire'
<1>1. NoStop \in StopShape /\ NoStop.head = None  BY DEF NoStop, StopShape
<1>2. stop' \in [Hosts -> StopShape]  BY <1>1 DEF Shape
<1>3. \A k \in Hosts : stop'[k] = stop[k] \/ stop'[k] = NoStop  BY DEF Shape
<1>4. \A k \in Hosts : stop'[k].head # None => stop[k].head # None  BY <1>1, <1>3
<1> QED  BY <1>2, <1>4 DEF TurnInv, StopsRetire

LEMMA HeldStep ==
  ASSUME Shape, TurnInv, NEW r \in Receipts, Renew(r) \/ LeaseExpires(r) \/ ToolCall(r)
  PROVE  Shape' /\ TurnInv'
<1>1. \E b \in BOOLEAN : receipt' = [receipt EXCEPT ![r].held = b]
  BY DEF Renew, LeaseExpires, ToolCall
<1>2. receipt' \in Tables /\ Soft(receipt, receipt')  BY <1>1, HeldIsSoft
<1>3. UNCHANGED <<bound, retired, deleted, session, journal, exec, stop, crashes>>
  BY DEF Renew, LeaseExpires, ToolCall
<1>4. Shape'  BY <1>2, <1>3 DEF Shape
<1>5. StopsRetire'  BY <1>3 DEF TurnInv, StopsRetire
<1> QED  BY <1>2, <1>3, <1>4, <1>5, SameExecIsQuiet, SameJournal, QuietStep

LEMMA RecoverPreparationStep ==
  ASSUME Shape, TurnInv, NEW r \in Receipts, RecoverPreparation(r)
  PROVE  Shape' /\ TurnInv'
<1>2. receipt' \in Tables /\ Soft(receipt, receipt')  BY RecoverPreparationIsSoft
<1>3. UNCHANGED <<bound, retired, deleted, session, journal, exec, stop, crashes>>
  BY DEF RecoverPreparation
<1>4. Shape'  BY <1>2, <1>3 DEF Shape
<1>5. StopsRetire'  BY <1>3 DEF TurnInv, StopsRetire
<1> QED  BY <1>2, <1>3, <1>4, <1>5, SameExecIsQuiet, SameJournal, QuietStep

LEMMA EnqueueStep ==
  ASSUME Shape, TurnInv, NEW r \in Receipts, Enqueue(r)
  PROVE  Shape' /\ TurnInv'
<1> DEFINE n == Cardinality(AcceptedIn(receipt)) + 1
           row == [receipt[r] EXCEPT !.status = "queued", !.seq = n]
<1>1. receipt \in Tables /\ receipt[r] \in ReceiptShape  BY DEF Shape, Tables
<1>2. n \in Nat
  <2>1. IsFiniteSet(AcceptedIn(receipt))  BY TurnsAssumption, FS_Subset DEF AcceptedIn
  <2> QED  BY <2>1, FS_CardinalityType
<1>3. Accepted = AcceptedIn(receipt)  BY DEF Accepted, AcceptedIn
<1>4. receipt' = [receipt EXCEPT ![r] = row]  BY <1>1, <1>3 DEF Enqueue, Tables
<1> HIDE DEF n
<1>5. row \in ReceiptShape  BY <1>1, <1>2 DEF ReceiptShape, Statuses, Working
<1>6. row.status = "queued" /\ row.seq = n /\ row.mark = receipt[r].mark
      /\ row.reply = receipt[r].reply
  BY <1>1 DEF ReceiptShape
<1> HIDE DEF row
<1>7. receipt' \in Tables /\ receipt'[r] = row
      /\ \A o \in Receipts : o # r => receipt'[o] = receipt[o]
  BY <1>1, <1>4, <1>5 DEF Tables
<1>8. UNCHANGED <<bound, retired, deleted, session, journal, exec, stop, crashes>>
  BY DEF Enqueue
<1>9. Shape'  BY <1>7, <1>8 DEF Shape
<1>10. ~retired /\ ~deleted /\ receipt[r].status = "absent"  BY DEF Enqueue
<1>11. retired = FALSE /\ journal \in Seq(TurnShape)  BY <1>10 DEF Shape
<1>12. QueueInv(receipt, journal, FALSE)  BY <1>11 DEF TurnInv
<1>13. /\ QueueInv(receipt', journal, FALSE)
       /\ \A o \in Receipts : Front(receipt, o) => Front(receipt', o) /\ o # r
  <2>1. /\ receipt'[r].status = "queued"
        /\ receipt'[r].seq = Cardinality(AcceptedIn(receipt)) + 1
        /\ receipt'[r].mark = receipt[r].mark /\ receipt'[r].reply = receipt[r].reply
    BY <1>6, <1>7 DEF n
  <2>2. receipt' \in Tables /\ \A o \in Receipts : o # r => receipt'[o] = receipt[o]
    BY <1>7
  <2> QED  BY <1>1, <1>10, <1>11, <1>12, <2>1, <2>2, AcceptKeepsQueue
<1>14. \A k \in Hosts : HostOK(receipt', journal, exec[k])
  <2> SUFFICES ASSUME NEW k \in Hosts
               PROVE  HostOK(receipt', journal, exec[k])
    OBVIOUS
  <2>1. HostOK(receipt, journal, exec[k])  BY DEF TurnInv, ExecOK
  <2>2. exec[k].pc # "idle" => exec[k].head \in Receipts /\ Front(receipt, exec[k].head)
    BY <2>1 DEF HostOK
  <2>3. exec[k].pc # "idle" => /\ Front(receipt', exec[k].head)
                               /\ receipt'[exec[k].head].mark = receipt[exec[k].head].mark
    BY <1>7, <1>13, <2>2
  <2> QED  BY <2>1, <2>3, HostKept
<1>15. ExecOK(receipt', journal', exec')  BY <1>8, <1>14 DEF TurnInv, ExecOK
<1>16. QueueInv(receipt', journal', retired')  BY <1>8, <1>11, <1>13
<1>17. StopsRetire'  BY <1>8 DEF TurnInv, StopsRetire
<1> QED  BY <1>8, <1>9, <1>10, <1>15, <1>16, <1>17 DEF TurnInv

LEMMA BeginDeletionStep ==
  ASSUME Shape, TurnInv, BeginDeletion
  PROVE  Shape' /\ TurnInv'
<1>1. UNCHANGED <<receipt, bound, retired, session, journal, exec, stop, crashes>> /\ deleted' = TRUE
  BY DEF BeginDeletion
<1>2. Shape'  BY <1>1 DEF Shape
<1>3. Unsettled(receipt) = {}
  <2> SUFFICES ASSUME Unsettled(receipt) # {}
               PROVE  HeadRow # {}
    BY DEF BeginDeletion
  <2>1. PICK r \in Unsettled(receipt) : Front(receipt, r)
    BY DEF TurnInv, QueueInv, RowsInv, BacklogOK
  <2>2. r \in Receipts /\ receipt[r].status \in Working  BY DEF Unsettled
  <2>3. \A o \in Receipts : receipt[o].status \in Working => receipt[r].seq <= receipt[o].seq
    <3> SUFFICES ASSUME NEW o \in Receipts, receipt[o].status \in Working
                 PROVE  receipt[r].seq <= receipt[o].seq
      OBVIOUS
    <3>1. receipt[r].seq \in Nat /\ receipt[o].seq \in Nat  BY <2>2, RowFields DEF Shape
    <3>2. receipt[o].status # "completed" /\ receipt[o].status # "absent"  BY DEF Working
    <3>3. receipt[o].seq # 0  BY <3>2 DEF TurnInv, QueueInv, RowsInv, SeqOK
    <3>4. ~(receipt[o].seq < receipt[r].seq)  BY <2>1, <3>2, <3>3 DEF Front
    <3> QED  BY <3>1, <3>4
  <2>4. r \in HeadRow  BY <2>2, <2>3 DEF HeadRow
  <2> QED  BY <2>4
<1>4. Soft(receipt, receipt')  BY <1>1, SoftReflexive
<1>5. StopsRetire'  BY <1>1 DEF TurnInv, StopsRetire
<1> QED  BY <1>1, <1>2, <1>3, <1>4, <1>5, SameExecIsQuiet, SameJournal, QuietStep

LEMMA MovedStep ==
  ASSUME Shape, TurnInv, receipt' = receipt, exec' \in [Hosts -> ExecShape], QuietExec,
         session' \in [Sessions -> SessionShape],
         UNCHANGED <<bound, retired, deleted, journal, stop, crashes>>
  PROVE  Shape' /\ TurnInv'
<1>1. Shape'  BY DEF Shape
<1>2. Soft(receipt, receipt')  BY SoftReflexive
<1>3. StopsRetire'  BY DEF TurnInv, StopsRetire
<1> QED  BY <1>1, <1>2, <1>3, SameJournal, QuietStep

LEMMA ReadHeadStep ==
  ASSUME Shape, TurnInv, NEW h \in Hosts, ReadHead(h)
  PROVE  /\ Shape' /\ TurnInv'
         /\ exec'[h].pc \in {"claim", "reclaim"}
         /\ \A k \in Hosts : k # h => exec'[k] = exec[k]
<1>1. PICK r \in HeadRow :
        exec' = [exec EXCEPT ![h] = [Idle EXCEPT
          !.pc = IF receipt[r].status \in {"sending", "uncertain"} THEN "reclaim" ELSE "claim",
          !.head = r,
          !.rec = receipt[r].status # "queued" /\ receipt[r].session = None]]
  BY DEF ReadHead
<1>2. r \in Receipts /\ Front(receipt, r)  BY HeadIsFront
<1> DEFINE e == [Idle EXCEPT
          !.pc = IF receipt[r].status \in {"sending", "uncertain"} THEN "reclaim" ELSE "claim",
          !.head = r,
          !.rec = receipt[r].status # "queued" /\ receipt[r].session = None]
<1>3. e \in ExecShape  BY <1>2 DEF Idle, ExecShape, Places
<1>4. e.pc \in {"claim", "reclaim"} /\ e.head = r /\ e.mark = 0 /\ e.entry = 0  BY DEF Idle
<1>5. exec' = [exec EXCEPT ![h] = e]  BY <1>1
<1> HIDE DEF e
<1>6. Len(journal) \in Nat  BY LenProperties DEF Shape
<1>7. HostOK(receipt, journal, e)  BY <1>2, <1>4, <1>6 DEF HostOK
<1>8. exec' \in [Hosts -> ExecShape] /\ QuietExec  BY <1>3, <1>4, <1>5, <1>7, PutQuietly
<1>9. UNCHANGED <<receipt, bound, retired, deleted, session, journal, stop, crashes>>
  BY DEF ReadHead
<1>10. Shape' /\ TurnInv'  BY <1>8, <1>9, MovedStep DEF Shape
<1>11. exec'[h] = e /\ \A k \in Hosts : k # h => exec'[k] = exec[k]  BY <1>3, <1>5, PutExec
<1> QED  BY <1>4, <1>10, <1>11

LEMMA ClaimStep ==
  ASSUME Shape, TurnInv, NEW h \in Hosts, Claim(h)
  PROVE  /\ Shape' /\ TurnInv'
         /\ \/ exec'[h] = [exec[h] EXCEPT !.pc = "recover"]
            \/ exec'[h] = [exec[h] EXCEPT !.pc = "binding"]
         /\ \A k \in Hosts : k # h => exec'[k] = exec[k]
<1>1. receipt' \in Tables /\ Soft(receipt, receipt')  BY ClaimEffect
<1>2. PICK p \in {"recover", "binding"} : Goto(h, p)  BY DEF Claim
<1>3. exec[h].pc # "idle"  BY DEF Claim
<1>4. /\ exec' \in [Hosts -> ExecShape]
      /\ exec'[h] = [exec[h] EXCEPT !.pc = p]
      /\ \A k \in Hosts : k # h => exec'[k] = exec[k]
      /\ QuietExec
  BY <1>2, <1>3, GotoMoved
<1>5. UNCHANGED <<bound, retired, deleted, session, journal, stop, crashes>>  BY DEF Claim
<1>6. Shape'  BY <1>1, <1>4, <1>5 DEF Shape
<1>7. StopsRetire'  BY <1>5 DEF TurnInv, StopsRetire
<1>8. TurnInv'  BY <1>1, <1>4, <1>5, <1>6, <1>7, SameJournal, QuietStep
<1> QED  BY <1>4, <1>6, <1>8

LEMMA ClaimRefusedStep ==
  ASSUME Shape, TurnInv, NEW h \in Hosts, ClaimRefused(h)
  PROVE  Shape' /\ TurnInv'
<1>1. exec' \in [Hosts -> ExecShape] /\ QuietExec  BY PutIdle DEF ClaimRefused
<1>2. UNCHANGED <<receipt, bound, retired, deleted, session, journal, stop, crashes>>
  BY DEF ClaimRefused
<1> QED  BY <1>1, <1>2, MovedStep DEF Shape

LEMMA ReadBindingStep ==
  ASSUME Shape, TurnInv, NEW h \in Hosts, ReadBinding(h)
  PROVE  /\ Shape' /\ TurnInv'
         /\ exec'[h] = [exec[h] EXCEPT !.pc = "prepare", !.x = bound]
         /\ \A k \in Hosts : k # h => exec'[k] = exec[k]
<1>1. exec[h].pc # "idle" /\ bound \in Sessions \cup {None}
      /\ exec' = [exec EXCEPT ![h].pc = "prepare", ![h].x = bound]
  BY DEF ReadBinding, At, Shape
<1>2. /\ exec' \in [Hosts -> ExecShape]
      /\ exec'[h] = [exec[h] EXCEPT !.pc = "prepare", !.x = bound]
      /\ \A k \in Hosts : k # h => exec'[k] = exec[k]
      /\ QuietExec
  BY <1>1, PutMoved
<1>3. UNCHANGED <<receipt, bound, retired, deleted, session, journal, stop, crashes>>
  BY DEF ReadBinding
<1>4. Shape' /\ TurnInv'  BY <1>2, <1>3, MovedStep DEF Shape
<1> QED  BY <1>2, <1>4

LEMMA ReuseStep ==
  ASSUME Shape, TurnInv, NEW h \in Hosts, Reuse(h)
  PROVE  /\ Shape' /\ TurnInv'
         /\ \E x \in Sessions : /\ Live(h, x)
                                /\ exec'[h] = [exec[h] EXCEPT !.pc = "bind", !.x = x]
         /\ \A k \in Hosts : k # h => exec'[k] = exec[k]
<1>1. PICK x \in Sessions : Live(h, x) /\ exec' = [exec EXCEPT ![h].pc = "bind", ![h].x = x]
  <2>1. Candidates(h) \subseteq Sessions
    <3>1. exec[h].x \in Sessions \cup {None}  BY DEF Shape, ExecShape
    <3> QED  BY <3>1 DEF Candidates
  <2>2. PICK c \in Candidates(h) :
          \/ /\ Live(h, c)
             /\ exec' = [exec EXCEPT ![h].pc = "bind", ![h].x = c]
          \/ \E y \in Children(c) : /\ Live(h, y)
                                    /\ exec' = [exec EXCEPT ![h].pc = "bind", ![h].x = y]
    BY DEF Reuse
  <2>3. Children(c) \subseteq Sessions  BY DEF Children
  <2> QED  BY <2>1, <2>2, <2>3
<1>2. exec[h].pc # "idle"  BY DEF Reuse, At
<1>3. /\ exec' \in [Hosts -> ExecShape]
      /\ exec'[h] = [exec[h] EXCEPT !.pc = "bind", !.x = x]
      /\ \A k \in Hosts : k # h => exec'[k] = exec[k]
      /\ QuietExec
  BY <1>1, <1>2, TurnsAssumption, PutMoved
<1>4. UNCHANGED <<receipt, bound, retired, deleted, session, journal, stop, crashes>>
  BY DEF Reuse
<1>5. Shape' /\ TurnInv'  BY <1>3, <1>4, MovedStep DEF Shape
<1> QED  BY <1>1, <1>3, <1>5

LEMMA LaunchStep ==
  ASSUME Shape, TurnInv, NEW h \in Hosts, Launch(h)
  PROVE  /\ Shape' /\ TurnInv'
         /\ \E y \in Sessions :
              /\ session[y].state = "none"
              /\ session' = [session EXCEPT ![y] =
                   [state |-> "live", host |-> h, parent |-> exec[h].x,
                    native |-> NativeFor(h, y), recorded |-> FALSE]]
              /\ exec'[h] = [exec[h] EXCEPT !.pc = "launch", !.x = y]
         /\ \A k \in Hosts : k # h => exec'[k] = exec[k]
<1>1. PICK y \in Sessions :
        /\ session[y].state = "none"
        /\ session' = [session EXCEPT ![y] =
             [state |-> "live", host |-> h, parent |-> exec[h].x,
              native |-> NativeFor(h, y), recorded |-> FALSE]]
        /\ exec' = [exec EXCEPT ![h].pc = "launch", ![h].x = y]
  BY DEF Launch
<1>2. exec[h].pc # "idle"  BY DEF Launch, At
<1>3. /\ exec' \in [Hosts -> ExecShape]
      /\ exec'[h] = [exec[h] EXCEPT !.pc = "launch", !.x = y]
      /\ \A k \in Hosts : k # h => exec'[k] = exec[k]
      /\ QuietExec
  BY <1>1, <1>2, TurnsAssumption, PutMoved
<1>4. UNCHANGED <<receipt, bound, retired, deleted, journal, stop, crashes>>
  BY DEF Launch
<1>5. session' \in [Sessions -> SessionShape]
  <2>1. exec[h].x \in Sessions \cup {None}  BY DEF Shape, ExecShape
  <2>2. NativeFor(h, y) \in Sessions \cup {None}
    BY <2>1 DEF NativeFor, Shape, SessionShape
  <2> QED  BY <1>1, <2>1, <2>2 DEF Shape, SessionShape
<1>6. Shape' /\ TurnInv'  BY <1>3, <1>4, <1>5, MovedStep
<1> QED  BY <1>1, <1>3, <1>6

LEMMA RecordStep ==
  ASSUME Shape, TurnInv, NEW h \in Hosts, Record(h)
  PROVE  /\ Shape' /\ TurnInv'
         /\ exec'[h] = [exec[h] EXCEPT !.pc = "bind"]
         /\ \A k \in Hosts : k # h => exec'[k] = exec[k]
<1>1. exec[h].pc = "launch" /\ Goto(h, "bind")  BY DEF Record, At
<1>2. /\ exec' \in [Hosts -> ExecShape]
      /\ exec'[h] = [exec[h] EXCEPT !.pc = "bind"]
      /\ \A k \in Hosts : k # h => exec'[k] = exec[k]
      /\ QuietExec
  BY <1>1, GotoMoved
<1>3. UNCHANGED <<receipt, bound, retired, deleted, journal, stop, crashes>>
  BY DEF Record
<1>4. session' \in [Sessions -> SessionShape]
  <2>1. session' = [session EXCEPT ![exec[h].x].recorded = TRUE]  BY DEF Record
  <2>2. \A y \in Sessions : session[y] \in SessionShape  BY DEF Shape
  <2>3. \A y \in Sessions : [session[y] EXCEPT !.recorded = TRUE] \in SessionShape
    BY <2>2 DEF SessionShape
  <2>4. session \in [Sessions -> SessionShape]  BY DEF Shape
  <2> QED  BY <2>1, <2>3, <2>4
<1>5. Shape' /\ TurnInv'  BY <1>2, <1>3, <1>4, MovedStep
<1> QED  BY <1>2, <1>5

LEMMA BindStep ==
  ASSUME Shape, TurnInv, NEW h \in Hosts, Bind(h)
  PROVE  /\ Shape' /\ TurnInv'
         /\ exec'[h] = [exec[h] EXCEPT !.pc = "ready"]
         /\ \A k \in Hosts : k # h => exec'[k] = exec[k]
<1>1. exec[h].pc = "bind" /\ Goto(h, "ready")  BY DEF Bind, At
<1>2. /\ exec' \in [Hosts -> ExecShape]
      /\ exec'[h] = [exec[h] EXCEPT !.pc = "ready"]
      /\ \A k \in Hosts : k # h => exec'[k] = exec[k]
      /\ QuietExec
  BY <1>1, GotoMoved
<1>3. UNCHANGED <<retired, deleted, session, journal, stop, crashes>> /\ bound' = exec[h].x
  BY DEF Bind
<1>4. exec[h].x \in Sessions \cup {None}  BY DEF Shape, ExecShape
<1>5. receipt' \in Tables /\ Soft(receipt, receipt')  BY BindEffect
<1>6. Shape'  BY <1>2, <1>3, <1>4, <1>5 DEF Shape
<1>7. StopsRetire'  BY <1>3 DEF TurnInv, StopsRetire
<1>8. TurnInv'  BY <1>2, <1>3, <1>5, <1>6, <1>7, SameJournal, QuietStep
<1> QED  BY <1>2, <1>6, <1>8

LEMMA ReadyStep ==
  ASSUME Shape, TurnInv, NEW h \in Hosts, Ready(h)
  PROVE  /\ Shape' /\ TurnInv'
         /\ exec'[h].pc = "mark" /\ exec'[h].x = exec[h].x
         /\ \A k \in Hosts : k # h => exec'[k] = exec[k]
<1> DEFINE e == [exec[h] EXCEPT !.pc = "mark", !.mark = Len(journal)]
<1>1. exec[h] \in ExecShape /\ exec[h].pc = "ready"  BY DEF Ready, At, Shape
<1>2. Len(journal) \in Nat  BY LenProperties DEF Shape
<1>3. e \in ExecShape  BY <1>1, <1>2 DEF ExecShape, Places
<1>4. exec' = [exec EXCEPT ![h] = e]  BY DEF Ready, Shape
<1>5. /\ e.pc = "mark" /\ e.head = exec[h].head /\ e.mark = Len(journal)
      /\ e.entry = exec[h].entry /\ e.x = exec[h].x
  BY <1>1 DEF ExecShape
<1> HIDE DEF e
<1>6. HostOK(receipt, journal, exec[h])  BY DEF TurnInv, ExecOK
<1>7. HostOK(receipt, journal, e)  BY <1>1, <1>2, <1>5, <1>6 DEF HostOK
<1>8. exec' \in [Hosts -> ExecShape] /\ QuietExec  BY <1>3, <1>4, <1>5, <1>7, PutQuietly
<1>9. exec'[h] = e /\ \A k \in Hosts : k # h => exec'[k] = exec[k]  BY <1>3, <1>4, PutExec
<1>10. UNCHANGED <<receipt, bound, retired, deleted, session, journal, stop, crashes>>
  BY DEF Ready
<1>11. Shape' /\ TurnInv'  BY <1>8, <1>10, MovedStep DEF Shape
<1> QED  BY <1>5, <1>9, <1>11

\* nobody else is at the submission of a prompt that is still to be marked
LEMMA NoneSubmits ==
  ASSUME Shape, TurnInv, NEW r \in Receipts, Front(receipt, r), receipt[r].status = "preparing",
         NEW k \in Hosts
  PROVE  exec[k].pc # "submit"
<1> SUFFICES ASSUME exec[k].pc = "submit"
             PROVE  FALSE
  OBVIOUS
<1> DEFINE o == exec[k].head
<1>1. /\ receipt \in Tables /\ journal \in Seq(TurnShape)
      /\ RowsInv(receipt, journal) /\ SeqOK(receipt)
  BY DEF Shape, TurnInv, QueueInv, RowsInv
<1>2. HostOK(receipt, journal, exec[k])  BY DEF TurnInv, ExecOK
<1>3. o \in Receipts /\ Front(receipt, o) /\ receipt[o].mark = Len(journal)  BY <1>2 DEF HostOK
<1> HIDE DEF o
<1>4. Len(journal) \in Nat  BY <1>1, LenProperties
<1>5. receipt[o].status # "completed"  BY <1>1, <1>3, <1>4, AnsweredIsMarked
<1>6. o = r  BY <1>1, <1>3, <1>5, FrontIsOne
<1>7. receipt[o].mark # None  BY <1>3, <1>4, TurnsAssumption
<1> QED  BY <1>1, <1>6, <1>7 DEF RowsInv, MarkOK

LEMMA MarkSendingStep ==
  ASSUME Shape, TurnInv, NEW h \in Hosts, MarkSending(h)
  PROVE  /\ Shape' /\ TurnInv'
         /\ exec'[h] = [exec[h] EXCEPT !.pc = "submit"]
         /\ \A k \in Hosts : k # h => exec'[k] = exec[k]
<1> DEFINE r == exec[h].head
           row == [receipt[r] EXCEPT !.status = "sending", !.mark = exec[h].mark,
                                     !.sender = <<h, "run">>, !.held = TRUE]
           e == [exec[h] EXCEPT !.pc = "submit"]
<1>1. exec[h] \in ExecShape /\ exec[h].pc = "mark" /\ receipt[r].status = "preparing"
  BY DEF MarkSending, At, Shape
<1>2. HostOK(receipt, journal, exec[h])  BY DEF TurnInv, ExecOK
<1>3. r \in Receipts /\ Front(receipt, r)  BY <1>1, <1>2 DEF HostOK
<1>4. receipt \in Tables /\ receipt[r] \in ReceiptShape /\ journal \in Seq(TurnShape)
  BY <1>3 DEF Shape, Tables
<1>5. receipt[r].mark = None  BY <1>1, <1>3 DEF TurnInv, QueueInv, RowsInv, MarkOK
<1>6. exec[h].mark = Len(journal)  BY <1>1, <1>2, <1>5 DEF HostOK
<1>7. exec[h].mark \in Nat  BY <1>1 DEF ExecShape
<1>8. row \in ReceiptShape  BY <1>4, <1>7 DEF ReceiptShape, Statuses, Working
<1>9. receipt' = [receipt EXCEPT ![r] = row]  BY DEF MarkSending
<1>10. /\ row.status = "sending" /\ row.mark = Len(journal) /\ row.seq = receipt[r].seq
       /\ row.reply = receipt[r].reply
  BY <1>4, <1>6 DEF ReceiptShape
<1>11. e \in ExecShape  BY <1>1 DEF ExecShape, Places
<1>12. exec' = [exec EXCEPT ![h] = e]  BY DEF MarkSending, Goto, Shape
<1>13. /\ e.pc = "submit" /\ e.head = r /\ e.mark = exec[h].mark
       /\ e.entry = exec[h].entry /\ e.x = exec[h].x
  BY <1>1 DEF ExecShape
<1> HIDE DEF row, e, r
<1>14. /\ receipt' \in Tables
       /\ receipt'[r] = row
       /\ \A o \in Receipts : o # r => receipt'[o] = receipt[o]
  BY <1>3, <1>4, <1>8, <1>9 DEF Tables
<1>15. /\ exec' \in [Hosts -> ExecShape]
       /\ exec'[h] = e
       /\ \A k \in Hosts : k # h => exec'[k] = exec[k]
  BY <1>11, <1>12, PutExec
<1>16. UNCHANGED <<bound, retired, deleted, session, journal, stop, crashes>>  BY DEF MarkSending
<1>17. Shape'  BY <1>14, <1>15, <1>16 DEF Shape
<1>18. /\ QueueInv(receipt', journal, retired)
       /\ \A o \in Receipts : Front(receipt, o) => Front(receipt', o)
  <2>1. QueueInv(receipt, journal, retired) /\ retired \in BOOLEAN  BY DEF TurnInv, Shape
  <2>2. /\ receipt'[r].status = "sending" /\ receipt'[r].mark = Len(journal)
        /\ receipt'[r].seq = receipt[r].seq /\ receipt'[r].reply = receipt[r].reply
    BY <1>10, <1>14
  <2>3. receipt[r].status = "preparing"  BY <1>1
  <2> QED  BY <1>3, <1>4, <1>14, <2>1, <2>2, <2>3, MarkKeepsQueue
<1>19. receipt'[r].mark # None
  <2>1. Len(journal) \in Nat  BY <1>4, LenProperties
  <2> QED  BY <1>10, <1>14, <2>1, TurnsAssumption
<1>20. \A k \in Hosts : HostOK(receipt', journal, exec'[k])
  <2> SUFFICES ASSUME NEW k \in Hosts
               PROVE  HostOK(receipt', journal, exec'[k])
    OBVIOUS
  <2>1. CASE k = h
    <3>1. Front(receipt', r)  BY <1>3, <1>18
    <3>2. e.mark <= Len(journal) /\ e.entry <= Len(journal) /\ e.x \in Sessions
      BY <1>1, <1>2, <1>13 DEF HostOK
    <3>3. HostOK(receipt', journal, e)  BY <1>3, <1>10, <1>13, <1>14, <3>1, <3>2 DEF HostOK
    <3> QED  BY <1>15, <2>1, <3>3
  <2>2. CASE k # h
    <3>1. exec'[k] = exec[k]  BY <1>15, <2>2
    <3>2. HostOK(receipt, journal, exec[k])  BY DEF TurnInv, ExecOK
    <3>3. exec[k].pc # "submit"  BY <1>1, <1>3, NoneSubmits DEF r
    <3>4. exec[k].pc # "idle" => exec[k].head \in Receipts /\ Front(receipt', exec[k].head)
      BY <1>18, <3>2 DEF HostOK
    <3>5. \A o \in Receipts : receipt'[o].mark = None => receipt[o].mark = None
      BY <1>14, <1>19
    <3>6. HostOK(receipt', journal, exec[k])
      BY <3>2, <3>3, <3>4, <3>5 DEF HostOK
    <3> QED  BY <3>1, <3>6
  <2> QED  BY <2>1, <2>2
<1>21. \A k \in Hosts : k # h => exec'[k].pc # "submit"
  BY <1>1, <1>3, <1>15, NoneSubmits DEF r
<1>22. ExecOK(receipt', journal', exec')  BY <1>16, <1>20, <1>21 DEF ExecOK
<1>23. StopsRetire'  BY <1>16 DEF TurnInv, StopsRetire
<1>24. ~deleted
  <2>1. r \in Unsettled(receipt)  BY <1>1, <1>3 DEF Unsettled, Working, r
  <2> QED  BY <2>1 DEF TurnInv
<1>25. TurnInv'  BY <1>16, <1>18, <1>22, <1>23, <1>24 DEF TurnInv
<1> QED  BY <1>15, <1>17, <1>25 DEF e

LEMMA SubmitStep ==
  ASSUME Shape, TurnInv, NEW h \in Hosts, Submit(h)
  PROVE  /\ Shape' /\ TurnInv'
         /\ exec'[h].pc = "sent" /\ exec'[h].x = exec[h].x /\ exec'[h].rec = exec[h].rec
         /\ exec'[h].head = exec[h].head
         /\ \A k \in Hosts : k # h => exec'[k] = exec[k]
         /\ exec[h].head \in Receipts /\ exec[h].x \in Sessions
         /\ Front(receipt, exec[h].head)
         /\ receipt[exec[h].head].mark = Len(journal)
<1> DEFINE r == exec[h].head
           turn == [turn |-> r, session |-> exec[h].x, state |-> "running"]
           e == [exec[h] EXCEPT !.pc = "sent", !.entry = Len(journal) + 1]
<1>1. exec[h] \in ExecShape /\ exec[h].pc = "submit"  BY DEF Submit, At, Shape
<1>2. HostOK(receipt, journal, exec[h])  BY DEF TurnInv, ExecOK
<1>3. /\ r \in Receipts /\ Front(receipt, r) /\ receipt[r].mark = Len(journal)
      /\ exec[h].x \in Sessions
  BY <1>1, <1>2 DEF HostOK
<1>4. /\ receipt \in Tables /\ journal \in Seq(TurnShape) /\ retired \in BOOLEAN
      /\ Len(journal) \in Nat /\ Len(journal) + 1 \in Nat
  BY LenProperties DEF Shape
<1>5. turn \in TurnShape /\ turn.turn = r  BY <1>3 DEF TurnShape
<1>6. e \in ExecShape  BY <1>1, <1>4 DEF ExecShape, Places
<1>7. exec' = [exec EXCEPT ![h] = e]  BY DEF Submit, Shape
<1>8. /\ e.pc = "sent" /\ e.head = r /\ e.mark = exec[h].mark /\ e.x = exec[h].x
      /\ e.entry = Len(journal) + 1 /\ e.rec = exec[h].rec
  BY <1>1 DEF ExecShape
<1>9. journal' = Append(journal, turn)  BY DEF Submit
<1>10. UNCHANGED <<receipt, bound, retired, deleted, session, stop, crashes>>  BY DEF Submit
<1> HIDE DEF r, turn, e
<1>11. /\ journal' \in Seq(TurnShape)
       /\ Len(journal') = Len(journal) + 1
       /\ \A i \in 1 .. Len(journal) : journal'[i] = journal[i]
       /\ journal'[Len(journal) + 1] = turn
  BY <1>4, <1>5, <1>9, AppendProperties
<1>12. /\ exec' \in [Hosts -> ExecShape]
       /\ exec'[h] = e
       /\ \A k \in Hosts : k # h => exec'[k] = exec[k]
  BY <1>6, <1>7, PutExec
<1>13. Shape'  BY <1>10, <1>11, <1>12 DEF Shape
<1>14. /\ QueueInv(receipt, journal', retired)
       /\ receipt[r].status \notin {"completed", "queued", "preparing"}
  <2>1. QueueInv(receipt, journal, retired)  BY DEF TurnInv
  <2>2. /\ QueueInv(receipt, Append(journal, turn), retired)
        /\ receipt[r].status \notin {"completed", "queued", "preparing"}
    BY <1>3, <1>4, <1>5, <2>1, SubmitKeepsQueue
  <2> QED  BY <1>9, <2>2
<1>15. \A k \in Hosts : HostOK(receipt, journal', exec'[k])
  <2> SUFFICES ASSUME NEW k \in Hosts
               PROVE  HostOK(receipt, journal', exec'[k])
    OBVIOUS
  <2>1. CASE k = h
    <3>1. e.mark <= Len(journal')
      <4>1. exec[h].mark <= Len(journal)  BY <1>1, <1>2 DEF HostOK
      <4>2. exec[h].mark \in Nat  BY <1>1 DEF ExecShape
      <4> QED  BY <1>4, <1>8, <1>11, <4>1, <4>2
    <3>2. e.entry \in 1 .. Len(journal') /\ e.entry <= Len(journal')  BY <1>4, <1>8, <1>11
    <3>3. journal'[e.entry].turn = r  BY <1>5, <1>8, <1>11
    <3>4. HostOK(receipt, journal', e)  BY <1>3, <1>8, <3>1, <3>2, <3>3 DEF HostOK
    <3> QED  BY <1>12, <2>1, <3>4
  <2>2. CASE k # h
    <3> DEFINE d == exec[k]
    <3>1. exec'[k] = d  BY <1>12, <2>2
    <3>2. HostOK(receipt, journal, d) /\ d.pc # "submit"
      BY <1>1, <2>2 DEF TurnInv, ExecOK
    <3>3. d \in ExecShape  BY DEF Shape
    <3> HIDE DEF d
    <3> SUFFICES ASSUME d.pc # "idle"
                 PROVE  HostOK(receipt, journal', d)
      BY <3>1, <3>2 DEF HostOK
    <3>4. d.head \in Receipts /\ Front(receipt, d.head)  BY <3>2 DEF HostOK
    <3>5. ~(d.pc = "mark" /\ receipt[d.head].mark = None)
      <4> SUFFICES ASSUME receipt[d.head].mark = None
                   PROVE  FALSE
        OBVIOUS
      <4>1. RowsInv(receipt, journal) /\ SeqOK(receipt)  BY DEF TurnInv, QueueInv, RowsInv
      <4>2. receipt[d.head].status # "completed"  BY <1>4, <3>4, <4>1, AnsweredIsMarked
      <4>3. d.head = r  BY <1>3, <1>4, <1>14, <3>4, <4>1, <4>2, FrontIsOne
      <4> QED  BY <1>3, <1>4, <4>3, TurnsAssumption
    <3>6. d.mark <= Len(journal') /\ d.entry <= Len(journal')
      <4>1. d.mark <= Len(journal) /\ d.entry <= Len(journal)  BY <3>2 DEF HostOK
      <4>2. d.mark \in Nat /\ d.entry \in Nat  BY <3>3 DEF ExecShape
      <4> QED  BY <1>4, <1>11, <4>1, <4>2
    <3>7. d.pc = "sent" => d.entry \in 1 .. Len(journal') /\ journal'[d.entry].turn = d.head
      <4>1. d.pc = "sent" => d.entry \in 1 .. Len(journal) /\ journal[d.entry].turn = d.head
        BY <3>2 DEF HostOK
      <4>2. d.entry \in 1 .. Len(journal) => d.entry \in 1 .. Len(journal')  BY <1>4, <1>11
      <4> QED  BY <1>11, <4>1, <4>2
    <3> QED  BY <3>2, <3>4, <3>5, <3>6, <3>7 DEF HostOK
  <2> QED  BY <2>1, <2>2
<1>16. ExecOK(receipt', journal', exec')
  <2>1. \A k \in Hosts : k = h => exec'[k].pc # "submit"  BY <1>8, <1>12
  <2>2. \A j, k \in Hosts : exec'[j].pc = "submit" /\ exec'[k].pc = "submit" => j = k
    BY <1>12, <2>1 DEF TurnInv, ExecOK
  <2> QED  BY <1>10, <1>15, <2>2 DEF ExecOK
<1>17. StopsRetire'  BY <1>10 DEF TurnInv, StopsRetire
<1>18. TurnInv'  BY <1>10, <1>14, <1>16, <1>17 DEF TurnInv
<1> QED  BY <1>3, <1>8, <1>12, <1>13, <1>18 DEF r

\* an attempt ends in uncertain(), or in nothing
LEMMA EndsSoftly ==
  ASSUME Shape, TurnInv, NEW h \in Hosts, receipt' \in Tables, Soft(receipt, receipt'),
         exec' = [exec EXCEPT ![h] = Idle],
         UNCHANGED <<bound, retired, deleted, session, journal, stop, crashes>>
  PROVE  Shape' /\ TurnInv'
<1>1. exec' \in [Hosts -> ExecShape] /\ QuietExec  BY PutIdle
<1>2. Shape'  BY <1>1 DEF Shape
<1>3. StopsRetire'  BY DEF TurnInv, StopsRetire
<1> QED  BY <1>1, <1>2, <1>3, SameJournal, QuietStep

LEMMA HeadOf ==
  ASSUME TurnInv, NEW h \in Hosts, exec[h].pc # "idle"
  PROVE  exec[h].head \in Receipts /\ Front(receipt, exec[h].head)
BY DEF TurnInv, ExecOK, HostOK

Answers(r, i) ==
  /\ receipt[r].status \in {"sending", "uncertain"}
  /\ receipt'[r] = [Released(receipt[r]) EXCEPT !.status = "completed", !.reply = i]
  /\ \A o \in Receipts : o # r => receipt'[o] = receipt[o]

LEMMA CompleteStep ==
  ASSUME Shape, TurnInv, NEW h \in Hosts, exec[h].pc # "idle", NEW i \in 1 .. Len(journal),
         journal[i].turn = exec[h].head, Complete(h, i)
  PROVE  /\ Shape' /\ TurnInv'
         /\ Soft(receipt, receipt') \/ Answers(exec[h].head, i)
<1> DEFINE r == exec[h].head
           row == [Released(receipt[r]) EXCEPT !.status = "completed", !.reply = i]
<1>1. r \in Receipts /\ Front(receipt, r)  BY HeadOf
<1>2. UNCHANGED <<bound, retired, deleted, session, journal, stop, crashes>>
      /\ exec' = [exec EXCEPT ![h] = Idle]
  BY DEF Complete
<1>3. CASE ~(Mine(h, "run", r) /\ receipt[r].status \in {"sending", "uncertain"})
  <2>1. receipt' = [receipt EXCEPT ![r] = Uncertain(h, "run", r)]  BY <1>3 DEF Complete
  <2>2. receipt' \in Tables /\ Soft(receipt, receipt')  BY <1>1, <2>1, UncertainIsSoft
  <2> QED  BY <1>2, <2>2, EndsSoftly
<1>4. CASE Mine(h, "run", r) /\ receipt[r].status \in {"sending", "uncertain"}
  <2>1. receipt' = [receipt EXCEPT ![r] = row]  BY <1>4 DEF Complete
  <2>2. /\ receipt \in Tables /\ receipt[r] \in ReceiptShape
        /\ journal \in Seq(TurnShape) /\ retired \in BOOLEAN /\ Len(journal) \in Nat
    BY <1>1, LenProperties DEF Shape, Tables
  <2>3. Released(receipt[r]) \in ReceiptShape  BY <2>2 DEF Released, ReceiptShape
  <2>4. row \in ReceiptShape
    <3>1. i \in Nat  BY <2>2
    <3> QED  BY <2>3, <3>1 DEF ReceiptShape, Statuses
  <2>5. /\ row.status = "completed" /\ row.reply = i
        /\ row.seq = receipt[r].seq /\ row.mark = receipt[r].mark
    BY <2>2 DEF Released, ReceiptShape
  <2>6. QueueInv(receipt, journal, retired) /\ receipt[r].status \in {"sending", "uncertain"}
        /\ journal[i].turn = r
    BY <1>4 DEF TurnInv
  <2> HIDE DEF r, row
  <2>7. /\ receipt' \in Tables
        /\ receipt'[r] = row
        /\ \A o \in Receipts : o # r => receipt'[o] = receipt[o]
    BY <1>1, <2>1, <2>2, <2>4 DEF Tables
  <2>8. exec' \in [Hosts -> ExecShape] /\ exec'[h] = Idle
        /\ \A k \in Hosts : k # h => exec'[k] = exec[k]
    BY <1>2, PutExec, IdleHost
  <2>9. Shape'  BY <1>2, <2>7, <2>8 DEF Shape
  <2>10. /\ QueueInv(receipt', journal, retired)
         /\ \A o \in Receipts : Front(receipt, o) => Front(receipt', o)
         /\ \A o \in Receipts : o \in Unsettled(receipt') => o \in Unsettled(receipt)
    <3>1. /\ receipt'[r].status = "completed" /\ receipt'[r].reply = i
          /\ receipt'[r].seq = receipt[r].seq /\ receipt'[r].mark = receipt[r].mark
      BY <2>5, <2>7
    <3>2. receipt'[r].reply \in 1 .. Len(journal) /\ journal[receipt'[r].reply].turn = r
      BY <2>6, <3>1
    <3> QED  BY <1>1, <2>2, <2>6, <2>7, <3>1, <3>2, AnswerKeepsQueue
  <2>11. \A k \in Hosts : HostOK(receipt', journal, exec'[k])
    <3> SUFFICES ASSUME NEW k \in Hosts
                 PROVE  HostOK(receipt', journal, exec'[k])
      OBVIOUS
    <3>1. CASE k = h
      <4>1. exec'[k] = Idle  BY <2>8, <3>1
      <4> QED  BY <4>1, IdleHost
    <3>2. CASE k # h
      <4>1. HostOK(receipt, journal, exec[k])  BY DEF TurnInv, ExecOK
      <4>2. \A o \in Receipts : receipt'[o].mark = receipt[o].mark  BY <2>5, <2>7
      <4>3. exec[k].pc # "idle" => /\ Front(receipt', exec[k].head)
                                   /\ receipt'[exec[k].head].mark = receipt[exec[k].head].mark
        BY <2>10, <4>2, HeadOf
      <4>4. HostOK(receipt', journal, exec[k])  BY <4>1, <4>3, HostKept
      <4> QED  BY <2>8, <3>2, <4>4
    <3> QED  BY <3>1, <3>2
  <2>12. ExecOK(receipt', journal', exec')
    <3>1. \A k \in Hosts : exec'[k].pc = "submit" => exec'[k] = exec[k]
      BY <2>8, IdleHost
    <3> QED  BY <1>2, <2>11, <3>1 DEF TurnInv, ExecOK
  <2>13. StopsRetire'  BY <1>2 DEF TurnInv, StopsRetire
  <2>14. deleted' => Unsettled(receipt') = {}
    <3>1. Unsettled(receipt') \subseteq Receipts  BY DEF Unsettled
    <3> QED  BY <1>2, <2>10, <3>1 DEF TurnInv
  <2>15. TurnInv'  BY <1>2, <2>10, <2>12, <2>13, <2>14 DEF TurnInv
  <2>16. Answers(r, i)  BY <2>6, <2>7 DEF Answers, row
  <2> QED  BY <2>9, <2>15, <2>16 DEF r
<1> QED  BY <1>3, <1>4

\* a native completion, or the evidence after the boundary, is of the own prompt
LEMMA CompletesOwn ==
  ASSUME Shape, TurnInv, NEW h \in Hosts, TurnCompleted(h) \/ RecoverFromTranscript(h)
  PROVE  \E i \in 1 .. Len(journal) :
           /\ exec[h].pc \in {"sent", "recover"}
           /\ journal[i].turn = exec[h].head
           /\ Complete(h, i)
           /\ exec[h].pc = "recover" => receipt[exec[h].head].session # None
<1>1. HostOK(receipt, journal, exec[h])  BY DEF TurnInv, ExecOK
<1>2. CASE TurnCompleted(h)
  <2>1. exec[h].entry \in 1 .. Len(journal) /\ journal[exec[h].entry].turn = exec[h].head
    BY <1>1, <1>2 DEF TurnCompleted, At, HostOK
  <2>2. exec[h].pc = "sent" /\ Complete(h, exec[h].entry)  BY <1>2 DEF TurnCompleted, At
  <2> QED  BY <2>1, <2>2
<1>3. CASE RecoverFromTranscript(h)
  <2>1. exec[h].pc = "recover"  BY <1>3 DEF RecoverFromTranscript, At
  <2> DEFINE r == exec[h].head
  <2>2. r \in Receipts  BY <2>1, HeadOf
  <2>3. receipt[r].mark # None /\ receipt[r].session # None  BY <1>3 DEF RecoverFromTranscript
  <2>4. PICK i \in Evidence(r) : Complete(h, i)  BY <1>3 DEF RecoverFromTranscript
  <2>5. journal \in Seq(TurnShape) /\ Len(journal) \in Nat  BY LenProperties DEF Shape
  <2>6. i \in 1 .. Len(journal) /\ i = receipt[r].mark + 1  BY <2>4, <2>5 DEF Evidence
  <2>7. receipt[r].mark \in Nat  BY <2>2, <2>3, RowFields DEF Shape
  <2>8. receipt[r].mark < Len(journal)  BY <2>5, <2>6, <2>7
  <2>9. journal[i].turn = r
    BY <2>2, <2>3, <2>6, <2>8 DEF TurnInv, QueueInv, RowsInv, MarkOK
  <2> QED  BY <2>1, <2>3, <2>4, <2>6, <2>9
<1> QED  BY <1>2, <1>3

LEMMA CompletionStep ==
  ASSUME Shape, TurnInv, NEW h \in Hosts, TurnCompleted(h) \/ RecoverFromTranscript(h)
  PROVE  /\ Shape' /\ TurnInv'
         /\ \E i \in 1 .. Len(journal) :
              /\ journal[i].turn = exec[h].head
              /\ Soft(receipt, receipt') \/ Answers(exec[h].head, i)
<1>1. PICK i \in 1 .. Len(journal) :
           /\ exec[h].pc \in {"sent", "recover"}
           /\ journal[i].turn = exec[h].head
           /\ Complete(h, i)
  BY CompletesOwn
<1> QED  BY <1>1, CompleteStep

LEMMA FailsStep ==
  ASSUME Shape, TurnInv, NEW h \in Hosts, Fails(h) \/ BoundSessionMissing(h)
  PROVE  /\ Shape' /\ TurnInv'
         /\ Soft(receipt, receipt')
<1> DEFINE r == exec[h].head
<1>1. exec[h].pc # "idle"  BY DEF Fails, Claimed, BoundSessionMissing, At
<1>2. r \in Receipts  BY <1>1, HeadOf
<1>3. UNCHANGED <<bound, retired, deleted, session, journal, stop, crashes>>
      /\ exec' = [exec EXCEPT ![h] = Idle]
  BY DEF Fails, BoundSessionMissing
<1>4. receipt' \in Tables /\ Soft(receipt, receipt')
  <2>1. CASE Fails(h)
    <3>1. receipt' = [receipt EXCEPT ![r] = Uncertain(h, "run", r)]  BY <2>1 DEF Fails
    <3> QED  BY <1>2, <3>1, UncertainIsSoft
  <2>2. CASE BoundSessionMissing(h)
    <3>1. receipt' = [receipt EXCEPT ![r] =
           [Uncertain(h, "run", r) EXCEPT !.missing = IF Mine(h, "run", r) THEN TRUE ELSE @]]
      BY <2>2 DEF BoundSessionMissing
    <3> HIDE DEF r
    <3> QED  BY <1>2, <3>1, MissingIsSoft
  <2> QED  BY <2>1, <2>2
<1> QED  BY <1>3, <1>4, EndsSoftly

LEMMA AbandonBeginsStep ==
  ASSUME Shape, TurnInv, NEW h \in Hosts, AbandonBegins(h)
  PROVE  Shape' /\ TurnInv'
<1>1. PICK r \in Receipts :
        /\ Front(receipt, r)
        /\ receipt'[r].status = "abandoning"
        /\ stop' = [stop EXCEPT ![h] = [head |-> r, left |-> {x \in Sessions : Live(h, x)}]]
  BY AbandonBeginsEffect
<1>2. receipt' \in Tables /\ Soft(receipt, receipt')  BY AbandonBeginsEffect
<1>3. UNCHANGED <<bound, deleted, session, journal, exec, crashes>> /\ retired' = TRUE
  BY DEF AbandonBegins
<1>4. stop' \in [Hosts -> StopShape]
  <2>1. [head |-> r, left |-> {x \in Sessions : Live(h, x)}] \in StopShape  BY DEF StopShape
  <2> QED  BY <1>1, <2>1 DEF Shape
<1>5. Shape'  BY <1>2, <1>3, <1>4 DEF Shape
<1>6. receipt \in Tables /\ journal \in Seq(TurnShape) /\ retired \in BOOLEAN  BY DEF Shape
<1>7. QueueInv(receipt', journal, TRUE)
  <2>1. QueueInv(receipt', journal, retired)  BY <1>2, <1>6, SoftKeepsQueue DEF TurnInv
  <2>2. Front(receipt', r)  BY <1>1, <1>2, SoftFront
  <2>3. RetiredOK(receipt', TRUE)  BY <1>1, <2>2 DEF RetiredOK, Stopping
  <2>4. AbandonedOK(receipt', TRUE)  BY <2>1 DEF QueueInv, AbandonedOK
  <2> QED  BY <2>1, <2>3, <2>4 DEF QueueInv
<1>8. \A k \in Hosts : HostOK(receipt', journal, exec[k])
  BY <1>2, SoftKeepsHost DEF TurnInv, ExecOK
<1>9. ExecOK(receipt', journal', exec')  BY <1>3, <1>8 DEF TurnInv, ExecOK
<1>10. StopsRetire'  BY <1>3 DEF StopsRetire
<1>11. deleted' => Unsettled(receipt') = {}
  <2>1. Unsettled(receipt') = Unsettled(receipt)  BY <1>2, <1>6, SoftUnsettled
  <2> QED  BY <1>3, <2>1 DEF TurnInv
<1> QED  BY <1>3, <1>5, <1>7, <1>9, <1>10, <1>11 DEF TurnInv

LEMMA StopFailsStep ==
  ASSUME Shape, TurnInv, NEW h \in Hosts, NEW r \in Receipts,
         receipt' = [receipt EXCEPT ![r] = Uncertain(h, "stop", r)],
         stop' = [stop EXCEPT ![h] = NoStop],
         UNCHANGED <<bound, retired, deleted, session, journal, exec, crashes>>
  PROVE  Shape' /\ TurnInv' /\ Soft(receipt, receipt')
<1>1. receipt' \in Tables /\ Soft(receipt, receipt')  BY UncertainIsSoft
<1>2. stop' \in [Hosts -> StopShape] /\ StopsRetire'  BY PutNoStop
<1>3. Shape'  BY <1>1, <1>2 DEF Shape
<1> QED  BY <1>1, <1>2, <1>3, SameExecIsQuiet, SameJournal, QuietStep

\* every unsettled request is given up
GivesUp ==
  /\ retired
  /\ \A o \in Receipts :
       receipt'[o] = IF receipt[o].status \in Working
                     THEN [Released(receipt[o]) EXCEPT !.status = "abandoned"] ELSE receipt[o]

LEMMA GivesUpRows ==
  ASSUME Shape, GivesUp, NEW o \in Receipts
  PROVE  /\ receipt'[o] \in ReceiptShape
         /\ receipt'[o].seq = receipt[o].seq
         /\ receipt'[o].mark = receipt[o].mark
         /\ receipt'[o].reply = receipt[o].reply
         /\ receipt'[o].session = receipt[o].session
         /\ receipt'[o].status = IF receipt[o].status \in Working THEN "abandoned"
                                 ELSE receipt[o].status
<1>1. receipt[o] \in ReceiptShape  BY DEF Shape, Tables
<1> DEFINE row == [Released(receipt[o]) EXCEPT !.status = "abandoned"]
<1>2. Released(receipt[o]) \in ReceiptShape  BY <1>1 DEF Released, ReceiptShape
<1>3. row \in ReceiptShape  BY <1>2 DEF ReceiptShape, Statuses
<1>4. /\ row.seq = receipt[o].seq /\ row.mark = receipt[o].mark /\ row.reply = receipt[o].reply
      /\ row.session = receipt[o].session /\ row.status = "abandoned"
  BY <1>1 DEF Released, ReceiptShape
<1>5. receipt'[o] = IF receipt[o].status \in Working THEN row ELSE receipt[o]  BY DEF GivesUp
<1> HIDE DEF row
<1>6. CASE receipt[o].status \in Working  BY <1>3, <1>4, <1>5, <1>6
<1>7. CASE receipt[o].status \notin Working  BY <1>1, <1>5, <1>7
<1> QED  BY <1>6, <1>7

LEMMA AbandonCommitsStep ==
  ASSUME Shape, TurnInv, NEW h \in Hosts, AbandonCommits(h)
  PROVE  /\ Shape' /\ TurnInv'
         /\ Soft(receipt, receipt') \/ GivesUp
<1> DEFINE r == stop[h].head
<1>1. /\ r # None
      /\ stop' = [stop EXCEPT ![h] = NoStop]
      /\ UNCHANGED <<bound, retired, deleted, session, journal, exec, crashes>>
  BY DEF AbandonCommits, Abandon
<1>2. r \in Receipts /\ retired  BY <1>1 DEF Shape, StopShape, TurnInv, StopsRetire
<1>3. CASE ~(Mine(h, "stop", r) /\ receipt[r].status = "abandoning")
  <2>1. receipt' = [receipt EXCEPT ![r] = Uncertain(h, "stop", r)]
    BY <1>3 DEF AbandonCommits, Abandon
  <2> HIDE DEF r
  <2> QED  BY <1>1, <1>2, <2>1, StopFailsStep
<1>4. CASE Mine(h, "stop", r) /\ receipt[r].status = "abandoning"
  <2>1. receipt' = [o \in Receipts |->
           IF receipt[o].status \in Working
           THEN [Released(receipt[o]) EXCEPT !.status = "abandoned"] ELSE receipt[o]]
    BY <1>4 DEF AbandonCommits, Abandon
  <2>2. GivesUp  BY <1>2, <2>1 DEF GivesUp
  <2>3. receipt' \in Tables
    <3>1. \A o \in Receipts : receipt'[o] \in ReceiptShape  BY <2>2, GivesUpRows
    <3> HIDE DEF r
    <3>2. receipt' = [o \in Receipts |-> receipt'[o]]  BY <2>1
    <3> QED  BY <3>1, <3>2 DEF Tables
  <2>4. stop' \in [Hosts -> StopShape] /\ StopsRetire'  BY <1>1, PutNoStop
  <2>5. Shape'  BY <1>1, <2>3, <2>4 DEF Shape
  <2>6. receipt \in Tables /\ journal \in Seq(TurnShape) /\ retired = TRUE  BY <1>2 DEF Shape
  <2>7. /\ QueueInv(receipt', journal, TRUE)
        /\ \A o \in Receipts : Front(receipt, o) => Front(receipt', o)
        /\ Unsettled(receipt') = {}
    <3>1. QueueInv(receipt, journal, TRUE)  BY <2>6 DEF TurnInv
    <3>2. \A o \in Receipts : /\ receipt'[o].seq = receipt[o].seq
                             /\ receipt'[o].mark = receipt[o].mark
                             /\ receipt'[o].reply = receipt[o].reply
                             /\ receipt'[o].status = IF receipt[o].status \in Working
                                                     THEN "abandoned" ELSE receipt[o].status
      BY <2>2, GivesUpRows
    <3> QED  BY <2>3, <2>6, <3>1, <3>2, AbandonKeepsQueue
  <2>8. \A k \in Hosts : HostOK(receipt', journal, exec[k])
    <3> SUFFICES ASSUME NEW k \in Hosts
                 PROVE  HostOK(receipt', journal, exec[k])
      OBVIOUS
    <3>1. HostOK(receipt, journal, exec[k])  BY DEF TurnInv, ExecOK
    <3>2. exec[k].pc # "idle" => /\ Front(receipt', exec[k].head)
                                 /\ receipt'[exec[k].head].mark = receipt[exec[k].head].mark
      BY <2>2, <2>7, HeadOf, GivesUpRows
    <3> QED  BY <3>1, <3>2, HostKept
  <2>9. ExecOK(receipt', journal', exec')  BY <1>1, <2>8 DEF TurnInv, ExecOK
  <2>10. TurnInv'  BY <1>1, <2>4, <2>6, <2>7, <2>9 DEF TurnInv
  <2> QED  BY <2>2, <2>5, <2>10
<1> QED  BY <1>3, <1>4

LEMMA SessionStep ==
  ASSUME Shape, TurnInv, session' \in [Sessions -> SessionShape],
         journal' \in Seq(TurnShape), SameTurns(journal, journal'),
         UNCHANGED <<receipt, bound, retired, deleted, exec, stop, crashes>>
  PROVE  Shape' /\ TurnInv'
<1>1. Shape'  BY DEF Shape
<1>2. Soft(receipt, receipt')  BY SoftReflexive
<1>3. StopsRetire'  BY DEF TurnInv, StopsRetire
<1> QED  BY <1>1, <1>2, <1>3, SameExecIsQuiet, QuietStep

LEMMA StoppedShape ==
  ASSUME Shape, NEW x \in Sessions,
         \/ session' = [session EXCEPT ![x].state = "stopped", ![x].recorded = TRUE]
         \/ session' = [session EXCEPT ![x].state = "stopped"]
  PROVE  /\ session' \in [Sessions -> SessionShape]
         /\ \A y \in Sessions : /\ session'[y].parent = session[y].parent
                                /\ session'[y].native = session[y].native
                                /\ session'[y].host = session[y].host
                                /\ session'[y].state = IF y = x THEN "stopped" ELSE session[y].state
BY DEF Shape, SessionShape

LEMMA StopSessionStep ==
  ASSUME Shape, TurnInv, NEW h \in Hosts, StopSession(h)
  PROVE  Shape' /\ TurnInv'
<1>1. PICK x \in Sessions :
        /\ session' = [session EXCEPT ![x].state = "stopped", ![x].recorded = TRUE]
        /\ journal' = Interrupted({x})
  <2>1. stop[h].left \subseteq Sessions  BY DEF Shape, StopShape
  <2> QED  BY <2>1 DEF StopSession
<1>2. UNCHANGED <<receipt, bound, retired, deleted, exec, stop, crashes>>  BY DEF StopSession
<1>3. session' \in [Sessions -> SessionShape]  BY <1>1, StoppedShape
<1>4. journal' \in Seq(TurnShape) /\ SameTurns(journal, journal')  BY <1>1, InterruptedTurns
<1> QED  BY <1>2, <1>3, <1>4, SessionStep

LEMMA SessionStopsStep ==
  ASSUME Shape, TurnInv, SessionStops
  PROVE  Shape' /\ TurnInv'
<1>1. PICK x \in Sessions : session' = [session EXCEPT ![x].state = "stopped"]
                            /\ journal' = Interrupted({x})
  BY DEF SessionStops
<1>2. UNCHANGED <<receipt, bound, retired, deleted, exec, stop, crashes>>  BY DEF SessionStops
<1>3. session' \in [Sessions -> SessionShape]  BY <1>1, StoppedShape
<1>4. journal' \in Seq(TurnShape) /\ SameTurns(journal, journal')  BY <1>1, InterruptedTurns
<1> QED  BY <1>2, <1>3, <1>4, SessionStep

LEMMA TurnEndsStep ==
  ASSUME Shape, TurnInv, TurnEnds
  PROVE  Shape' /\ TurnInv'
<1>1. UNCHANGED <<receipt, bound, retired, deleted, session, exec, stop, crashes>>
  BY DEF TurnEnds
<1>2. journal' \in Seq(TurnShape) /\ SameTurns(journal, journal')  BY TurnEndsTurns
<1>3. session' \in [Sessions -> SessionShape]  BY <1>1 DEF Shape
<1> QED  BY <1>1, <1>2, <1>3, SessionStep

LEMMA CrashStep ==
  ASSUME Shape, TurnInv, NEW h \in Hosts, Crash(h)
  PROVE  /\ Shape' /\ TurnInv'
         /\ exec'[h] = Idle
         /\ \A k \in Hosts : k # h => exec'[k] = exec[k]
         /\ \A y \in Sessions : /\ session'[y].parent = session[y].parent
                                /\ session'[y].native = session[y].native
                                /\ session'[y].host = session[y].host
                                /\ session'[y].state = IF Live(h, y) THEN "stopped"
                                                       ELSE session[y].state
<1>1. /\ exec' = [exec EXCEPT ![h] = Idle]
      /\ stop' = [stop EXCEPT ![h] = NoStop]
      /\ UNCHANGED <<receipt, bound, retired, deleted, journal>>
      /\ session' = [y \in Sessions |-> IF Live(h, y) THEN [session[y] EXCEPT !.state = "stopped"]
                                        ELSE session[y]]
      /\ crashes < MaxCrashes /\ crashes' = crashes + 1
  BY DEF Crash
<1>2. exec' \in [Hosts -> ExecShape] /\ QuietExec  BY <1>1, PutIdle
<1>3. exec'[h] = Idle /\ \A k \in Hosts : k # h => exec'[k] = exec[k]
  BY <1>1, PutExec, IdleHost
<1>4. stop' \in [Hosts -> StopShape] /\ StopsRetire'  BY <1>1, PutNoStop
<1>5. \A y \in Sessions : session[y] \in SessionShape
                          /\ [session[y] EXCEPT !.state = "stopped"] \in SessionShape
  BY DEF Shape, SessionShape
<1>6. session' \in [Sessions -> SessionShape]  BY <1>1, <1>5
<1>7. \A y \in Sessions : /\ session'[y].parent = session[y].parent
                          /\ session'[y].native = session[y].native
                          /\ session'[y].host = session[y].host
                          /\ session'[y].state = IF Live(h, y) THEN "stopped" ELSE session[y].state
  <2> SUFFICES ASSUME NEW y \in Sessions
               PROVE  /\ session'[y].parent = session[y].parent
                      /\ session'[y].native = session[y].native
                      /\ session'[y].host = session[y].host
                      /\ session'[y].state = IF Live(h, y) THEN "stopped" ELSE session[y].state
    OBVIOUS
  <2>1. session[y] \in SessionShape  BY <1>5
  <2>2. session'[y] = IF Live(h, y) THEN [session[y] EXCEPT !.state = "stopped"] ELSE session[y]
    BY <1>1
  <2> QED  BY <2>1, <2>2 DEF SessionShape
<1>8. crashes' \in 0 .. MaxCrashes  BY <1>1, TurnsAssumption DEF Shape
<1>9. Shape'  BY <1>1, <1>2, <1>4, <1>6, <1>8 DEF Shape
<1>10. Soft(receipt, receipt')  BY <1>1, SoftReflexive
<1>11. TurnInv'  BY <1>1, <1>2, <1>4, <1>9, <1>10, SameJournal, QuietStep
<1> QED  BY <1>3, <1>7, <1>9, <1>11

-----------------------------------------------------------------------------
(* The invariant, the types and the deletion                               *)

LEMMA TurnInit ==
  ASSUME Init
  PROVE  Shape /\ TurnInv
<1>1. Fresh \in ReceiptShape
  BY DEF Fresh, ReceiptShape, Statuses
<1>2. Shape
  <2>1. receipt \in Tables  BY <1>1 DEF Init, Tables
  <2>2. session \in [Sessions -> SessionShape]  BY DEF Init, SessionShape
  <2>3. journal \in Seq(TurnShape)  BY DEF Init
  <2>4. exec \in [Hosts -> ExecShape]  BY IdleHost DEF Init
  <2>5. stop \in [Hosts -> StopShape]  BY DEF Init, StopShape, NoStop
  <2>6. crashes \in 0 .. MaxCrashes  BY TurnsAssumption DEF Init
  <2> QED  BY <2>1, <2>2, <2>3, <2>4, <2>5, <2>6 DEF Init, Shape
<1>3. \A r \in Receipts : /\ receipt[r].seq = 0 /\ receipt[r].status = "absent"
                          /\ receipt[r].mark = None /\ receipt[r].reply = 0
  BY DEF Init, Fresh
<1>4. journal = <<>> /\ Len(journal) = 0  BY DEF Init
<1>5. AcceptedIn(receipt) = {} /\ Unsettled(receipt) = {}
  BY <1>3 DEF AcceptedIn, Unsettled, Working
<1>6. Cardinality(AcceptedIn(receipt)) = 0  BY <1>5, FS_EmptySet
<1>7. SeqOK(receipt)  BY <1>3, <1>6 DEF SeqOK
<1>8. RowsInv(receipt, journal)
  BY <1>3, <1>4, <1>5, <1>7 DEF RowsInv, ReplyOK, JournalOK, MarkOK, BacklogOK
<1>9. QueueInv(receipt, journal, retired)
  BY <1>3, <1>5, <1>8 DEF QueueInv, AbandonedOK, RetiredOK
<1>10. \A h \in Hosts : exec[h] = Idle /\ stop[h].head = None  BY DEF Init, NoStop
<1>11. ExecOK(receipt, journal, exec)
  <2>1. \A h \in Hosts : HostOK(receipt, journal, exec[h])  BY <1>10, IdleHost
  <2>2. \A h \in Hosts : exec[h].pc # "submit"  BY <1>10, IdleHost
  <2> QED  BY <2>1, <2>2 DEF ExecOK
<1> QED  BY <1>2, <1>5, <1>9, <1>10, <1>11 DEF TurnInv, StopsRetire

LEMMA TurnStep ==
  ASSUME Shape, TurnInv, [Next]_vars
  PROVE  Shape' /\ TurnInv'
<1>1. ASSUME NEW r \in Receipts,
             Enqueue(r) \/ Renew(r) \/ LeaseExpires(r) \/ ToolCall(r) \/ RecoverPreparation(r)
      PROVE  Shape' /\ TurnInv'
  BY <1>1, EnqueueStep, HeldStep, RecoverPreparationStep
<1>2. ASSUME NEW h \in Hosts,
             \/ ReadHead(h) \/ Claim(h) \/ ClaimRefused(h) \/ ReadBinding(h)
             \/ Reuse(h) \/ Launch(h) \/ Record(h) \/ Bind(h)
             \/ Ready(h) \/ MarkSending(h) \/ Submit(h)
      PROVE  Shape' /\ TurnInv'
  BY <1>2, ReadHeadStep, ClaimStep, ClaimRefusedStep, ReadBindingStep, ReuseStep, LaunchStep,
     RecordStep, BindStep, ReadyStep, MarkSendingStep, SubmitStep
<1>3. ASSUME NEW h \in Hosts,
             TurnCompleted(h) \/ RecoverFromTranscript(h) \/ Fails(h) \/ BoundSessionMissing(h)
      PROVE  Shape' /\ TurnInv'
  BY <1>3, CompletionStep, FailsStep
<1>4. ASSUME NEW h \in Hosts, AbandonBegins(h) \/ StopSession(h) \/ AbandonCommits(h) \/ Crash(h)
      PROVE  Shape' /\ TurnInv'
  BY <1>4, AbandonBeginsStep, StopSessionStep, AbandonCommitsStep, CrashStep
<1>5. ASSUME NEW h \in Hosts, StopFails(h)
      PROVE  Shape' /\ TurnInv'
  <2>1. stop[h].head \in Receipts  BY <1>5 DEF StopFails, Shape, StopShape
  <2> QED  BY <1>5, <2>1, StopFailsStep DEF StopFails
<1>6. CASE BeginDeletion  BY <1>6, BeginDeletionStep
<1>7. CASE TurnEnds  BY <1>7, TurnEndsStep
<1>8. CASE SessionStops  BY <1>8, SessionStopsStep
<1>9. CASE UNCHANGED vars
  <2>1. UNCHANGED <<receipt, bound, retired, deleted, session, journal, exec, stop, crashes>>
    BY <1>9 DEF vars
  <2>2. exec' \in [Hosts -> ExecShape] /\ session' \in [Sessions -> SessionShape]
    BY <2>1 DEF Shape
  <2> QED  BY <2>1, <2>2, SameExecIsQuiet, MovedStep
<1> QED  BY <1>1, <1>2, <1>3, <1>4, <1>5, <1>6, <1>7, <1>8, <1>9 DEF Next

LEMMA TurnInvariant == Spec => [](Shape /\ TurnInv)
<1>1. Init => Shape /\ TurnInv  BY TurnInit
<1>2. (Shape /\ TurnInv) /\ [Next]_vars => (Shape /\ TurnInv)'  BY TurnStep
<1> QED  BY <1>1, <1>2, PTL DEF Spec

\* a prompt is in the transcript once, so the transcript is no longer than the requests
LEMMA TranscriptIsBounded ==
  ASSUME Shape, TurnInv
  PROVE  Len(journal) <= Cardinality(Receipts)
<1> DEFINE asked == [i \in 1 .. Len(journal) |-> journal[i].turn]
<1>1. journal \in Seq(TurnShape) /\ Len(journal) \in Nat  BY LenProperties DEF Shape
<1>2. asked \in [1 .. Len(journal) -> Receipts]  BY <1>1, TurnFields
<1>3. \A i, k \in 1 .. Len(journal) : asked[i] = asked[k] => i = k
  <2> SUFFICES ASSUME NEW i \in 1 .. Len(journal), NEW k \in 1 .. Len(journal), asked[i] = asked[k]
               PROVE  i = k
    OBVIOUS
  <2>1. receipt[journal[i].turn].mark = i - 1 /\ receipt[journal[k].turn].mark = k - 1
    BY DEF TurnInv, QueueInv, RowsInv, JournalOK
  <2>2. journal[i].turn = journal[k].turn  OBVIOUS
  <2>3. i - 1 = k - 1  BY <2>1, <2>2
  <2> QED  BY <1>1, <2>3
<1> HIDE DEF asked
<1>4. asked \in Injection(1 .. Len(journal), Receipts)  BY <1>2, <1>3, Fun_IsInj
<1>5. Cardinality(1 .. Len(journal)) <= Cardinality(Receipts)
  BY <1>4, TurnsAssumption, FS_Injection
<1>6. Cardinality(1 .. Len(journal)) = Len(journal)
  <2>1. 1 \in Int /\ Len(journal) \in Int /\ Len(journal) >= 0  BY <1>1
  <2>2. Cardinality(1 .. Len(journal)) = IF 1 > Len(journal) THEN 0 ELSE Len(journal) - 1 + 1
    BY <2>1, FS_Interval
  <2> QED  BY <1>1, <2>2
<1> QED  BY <1>5, <1>6

LEMMA ShapeGivesTypes ==
  ASSUME Shape, TurnInv
  PROVE  TypeOK
<1> DEFINE N == Cardinality(Receipts)
<1>1. N \in Nat  BY TurnsAssumption, FS_CardinalityType
<1>2. Len(journal) \in Nat /\ Len(journal) <= N  BY TranscriptIsBounded, LenProperties DEF Shape
<1>3. \A r \in Receipts : receipt[r].seq <= N
  <2>1. AcceptedIn(receipt) \in SUBSET Receipts  BY DEF AcceptedIn
  <2>2. IsFiniteSet(AcceptedIn(receipt)) /\ Cardinality(AcceptedIn(receipt)) <= N
    BY <2>1, TurnsAssumption, FS_Subset
  <2>3. Cardinality(AcceptedIn(receipt)) \in Nat  BY <2>2, FS_CardinalityType
  <2> HIDE DEF N
  <2> SUFFICES ASSUME NEW r \in Receipts
               PROVE  receipt[r].seq <= N
    OBVIOUS
  <2>4. receipt[r].seq \in Nat  BY RowFields DEF Shape
  <2>5. receipt[r].seq <= Cardinality(AcceptedIn(receipt))
    BY DEF TurnInv, QueueInv, RowsInv, SeqOK
  <2> QED  BY <1>1, <2>2, <2>3, <2>4, <2>5
<1> HIDE DEF N
<1>4. \A r \in Receipts : receipt[r].mark \in 0 .. N \cup {None}
  <2> SUFFICES ASSUME NEW r \in Receipts, receipt[r].mark # None
               PROVE  receipt[r].mark \in 0 .. N
    OBVIOUS
  <2>1. receipt[r].mark \in Nat  BY RowFields DEF Shape
  <2>2. receipt[r].mark <= Len(journal)  BY DEF TurnInv, QueueInv, RowsInv, MarkOK
  <2> QED  BY <1>1, <1>2, <2>1, <2>2
<1>5. \A r \in Receipts : receipt[r].reply \in 0 .. N
  <2> SUFFICES ASSUME NEW r \in Receipts
               PROVE  receipt[r].reply \in 0 .. N
    OBVIOUS
  <2>1. receipt[r].reply = 0 \/ receipt[r].reply \in 1 .. Len(journal)
    BY DEF TurnInv, QueueInv, RowsInv, ReplyOK
  <2> QED  BY <1>1, <1>2, <2>1
<1>6. \A h \in Hosts : exec[h].mark \in 0 .. N /\ exec[h].entry \in 0 .. N
  <2> SUFFICES ASSUME NEW h \in Hosts
               PROVE  exec[h].mark \in 0 .. N /\ exec[h].entry \in 0 .. N
    OBVIOUS
  <2>1. exec[h].mark \in Nat /\ exec[h].entry \in Nat  BY DEF Shape, ExecShape
  <2>2. HostOK(receipt, journal, exec[h])  BY DEF TurnInv, ExecOK
  <2>3. CASE exec[h].pc = "idle"
    <3>1. exec[h].mark = 0 /\ exec[h].entry = 0  BY <2>2, <2>3 DEF HostOK, Idle
    <3> QED  BY <1>1, <3>1
  <2>4. CASE exec[h].pc # "idle"
    <3>1. exec[h].mark <= Len(journal) /\ exec[h].entry <= Len(journal)
      BY <2>2, <2>4 DEF HostOK
    <3> QED  BY <1>1, <1>2, <2>1, <3>1
  <2> QED  BY <2>3, <2>4
<1>7. receipt \in [Receipts -> [seq : 0 .. N,
                               status : Working \cup {"absent", "completed", "abandoned"},
                               claim : (Hosts \X {"run", "stop"}) \cup {None},
                               held : BOOLEAN,
                               sender : (Hosts \X {"run"}) \cup {None},
                               session : Sessions \cup {None},
                               mark : 0 .. N \cup {None},
                               missing : BOOLEAN,
                               reply : 0 .. N]]
  <2> DEFINE Row == [seq : 0 .. N,
                     status : Working \cup {"absent", "completed", "abandoned"},
                     claim : (Hosts \X {"run", "stop"}) \cup {None},
                     held : BOOLEAN,
                     sender : (Hosts \X {"run"}) \cup {None},
                     session : Sessions \cup {None},
                     mark : 0 .. N \cup {None},
                     missing : BOOLEAN,
                     reply : 0 .. N]
  <2>1. \A r \in Receipts : receipt[r] \in Row
    <3> SUFFICES ASSUME NEW r \in Receipts
                 PROVE  receipt[r] \in Row
      OBVIOUS
    <3>1. receipt[r] \in ReceiptShape  BY DEF Shape, Tables
    <3>2. receipt[r].seq \in 0 .. N  BY <1>1, <1>3, <3>1 DEF ReceiptShape
    <3>3. receipt[r].mark \in 0 .. N \cup {None} /\ receipt[r].reply \in 0 .. N  BY <1>4, <1>5
    <3> QED  BY <3>1, <3>2, <3>3 DEF ReceiptShape, Statuses
  <2> HIDE DEF Row
  <2>2. receipt \in [Receipts -> Row]  BY <2>1 DEF Shape, Tables
  <2> QED  BY <2>2 DEF Row
<1>8. exec \in [Hosts -> [pc : {"idle", "claim", "reclaim", "binding", "prepare", "launch", "bind",
                               "ready", "mark", "submit", "sent", "recover"},
                         head : Receipts \cup {None}, x : Sessions \cup {None},
                         mark : 0 .. N, entry : 0 .. N, rec : BOOLEAN]]
  BY <1>6 DEF Shape, ExecShape, Places
<1> QED  BY <1>7, <1>8 DEF N, TypeOK, Shape, SessionShape, TurnShape, StopShape

\* Every variable keeps its type; in particular no prompt reaches the native
\* transcript twice, so no boundary, entry or reply exceeds the requests made.
THEOREM TypeCorrect == Spec => []TypeOK
<1>1. Shape /\ TurnInv => TypeOK  BY ShapeGivesTypes
<1> QED  BY <1>1, TurnInvariant, PTL

\* A deleted conversation has no turn outstanding and never gets one again:
\* beginDeletion() finds no head, and no later write makes one.
THEOREM DeletionSettles == Spec => []DeletedIsSettled
<1>1. Shape /\ TurnInv => DeletedIsSettled
  <2> SUFFICES ASSUME Shape, TurnInv, deleted, NEW r \in Receipts
               PROVE  receipt[r].status \in {"absent", "completed", "abandoned"}
    BY DEF DeletedIsSettled
  <2>1. r \notin Unsettled(receipt)  BY DEF TurnInv
  <2> QED  BY <2>1, UnsettledIsNot DEF Shape
<1> QED  BY <1>1, TurnInvariant, PTL

-----------------------------------------------------------------------------
(* The conversation                                                        *)

AcceptedSeq(t) == [n \in 1 .. Cardinality(AcceptedIn(t)) |-> CHOOSE r \in Receipts : t[r].seq = n]
Asked(j) == [i \in DOMAIN j |-> j[i].turn]
AnswerOf(t) == [r \in Receipts |-> t[r].reply]
CancelledIn(t) == {r \in Receipts : t[r].status = "abandoned"}

\* nothing a caller of the conversation could see
Still(t, u) ==
  \A o \in Receipts : /\ u[o].seq = t[o].seq
                      /\ u[o].reply = t[o].reply
                      /\ u[o].status = "abandoned" <=> t[o].status = "abandoned"

LEMMA CountIsNat ==
  ASSUME NEW t
  PROVE  Cardinality(AcceptedIn(t)) \in Nat
<1>1. IsFiniteSet(AcceptedIn(t))  BY TurnsAssumption, FS_Subset DEF AcceptedIn
<1> QED  BY <1>1, FS_CardinalityType

LEMMA AcceptedAt ==
  ASSUME NEW t \in Tables, SeqOK(t)
  PROVE  /\ \A n \in 1 .. Cardinality(AcceptedIn(t)) :
              AcceptedSeq(t)[n] \in Receipts /\ t[AcceptedSeq(t)[n]].seq = n
         /\ \A r \in Receipts : t[r].seq # 0 =>
              /\ t[r].seq \in 1 .. Cardinality(AcceptedIn(t))
              /\ AcceptedSeq(t)[t[r].seq] = r
<1> DEFINE N == Cardinality(AcceptedIn(t))
<1>1. N \in Nat  BY CountIsNat
<1>2. \A n \in 1 .. N : AcceptedSeq(t)[n] \in Receipts /\ t[AcceptedSeq(t)[n]].seq = n
  <2> SUFFICES ASSUME NEW n \in 1 .. N
               PROVE  AcceptedSeq(t)[n] \in Receipts /\ t[AcceptedSeq(t)[n]].seq = n
    OBVIOUS
  <2>1. \E r \in Receipts : t[r].seq = n  BY DEF SeqOK
  <2>2. AcceptedSeq(t)[n] = CHOOSE r \in Receipts : t[r].seq = n  BY DEF AcceptedSeq
  <2> QED  BY <2>1, <2>2
<1>3. ASSUME NEW r \in Receipts, t[r].seq # 0
      PROVE  t[r].seq \in 1 .. N /\ AcceptedSeq(t)[t[r].seq] = r
  <2>1. t[r].seq \in Nat /\ t[r].seq <= N  BY RowFields DEF SeqOK
  <2>2. t[r].seq \in 1 .. N  BY <1>1, <1>3, <2>1
  <2>3. t[AcceptedSeq(t)[t[r].seq]].seq = t[r].seq /\ AcceptedSeq(t)[t[r].seq] \in Receipts
    BY <1>2, <2>2
  <2>4. AcceptedSeq(t)[t[r].seq] = r  BY <1>3, <2>3 DEF SeqOK
  <2> QED  BY <2>2, <2>4
<1> QED  BY <1>2, <1>3

LEMMA AcceptedIsSeq ==
  ASSUME NEW t \in Tables, SeqOK(t)
  PROVE  /\ AcceptedSeq(t) \in Seq(Receipts)
         /\ Len(AcceptedSeq(t)) = Cardinality(AcceptedIn(t))
         /\ DOMAIN AcceptedSeq(t) = 1 .. Cardinality(AcceptedIn(t))
<1>1. Cardinality(AcceptedIn(t)) \in Nat  BY CountIsNat
<1>2. AcceptedSeq(t) \in [1 .. Cardinality(AcceptedIn(t)) -> Receipts]
  BY AcceptedAt DEF AcceptedSeq
<1> QED  BY <1>1, <1>2, SeqDef, LenProperties

LEMMA SameAccepted ==
  ASSUME NEW t \in Tables, NEW u \in Tables, SeqOK(t), SeqOK(u),
         \A o \in Receipts : u[o].seq = t[o].seq
  PROVE  AcceptedSeq(u) = AcceptedSeq(t)
<1>1. AcceptedIn(u) = AcceptedIn(t)  BY DEF AcceptedIn
<1> DEFINE N == Cardinality(AcceptedIn(t))
<1>2. \A n \in 1 .. N : AcceptedSeq(u)[n] = AcceptedSeq(t)[n]
  <2> SUFFICES ASSUME NEW n \in 1 .. N
               PROVE  AcceptedSeq(u)[n] = AcceptedSeq(t)[n]
    OBVIOUS
  <2>1. N \in Nat  BY CountIsNat
  <2> DEFINE r == AcceptedSeq(t)[n]
  <2>2. r \in Receipts /\ t[r].seq = n  BY AcceptedAt
  <2>3. u[r].seq = n /\ n # 0  BY <2>1, <2>2
  <2> HIDE DEF r, N
  <2>4. AcceptedSeq(u)[n] = r  BY <2>2, <2>3, AcceptedAt
  <2> QED  BY <2>4 DEF r
<1>3. /\ AcceptedSeq(u) = [n \in 1 .. N |-> AcceptedSeq(u)[n]]
      /\ AcceptedSeq(t) = [n \in 1 .. N |-> AcceptedSeq(t)[n]]
  <2>1. AcceptedSeq(t) = [n \in 1 .. N |-> AcceptedSeq(t)[n]]  BY DEF AcceptedSeq
  <2>2. AcceptedSeq(u) = [n \in 1 .. N |-> AcceptedSeq(u)[n]]  BY <1>1 DEF AcceptedSeq
  <2> QED  BY <2>1, <2>2
<1> QED  BY <1>2, <1>3

LEMMA OneMoreAccepted ==
  ASSUME NEW t \in Tables, NEW u \in Tables, SeqOK(t), SeqOK(u), NEW r \in Receipts,
         t[r].seq = 0, u[r].seq = Cardinality(AcceptedIn(t)) + 1,
         \A o \in Receipts : o # r => u[o].seq = t[o].seq
  PROVE  AcceptedSeq(u) = Append(AcceptedSeq(t), r)
<1> DEFINE N == Cardinality(AcceptedIn(t))
<1>1. N \in Nat  BY CountIsNat
<1>2. Cardinality(AcceptedIn(u)) = N + 1
  <2>1. AcceptedIn(u) = AcceptedIn(t) \cup {r}  BY <1>1 DEF AcceptedIn
  <2>2. r \notin AcceptedIn(t)  BY DEF AcceptedIn
  <2>3. IsFiniteSet(AcceptedIn(t))  BY TurnsAssumption, FS_Subset DEF AcceptedIn
  <2> QED  BY <2>1, <2>2, <2>3, FS_AddElement
<1>3. /\ AcceptedSeq(t) \in Seq(Receipts) /\ Len(AcceptedSeq(t)) = N
      /\ AcceptedSeq(u) \in Seq(Receipts) /\ Len(AcceptedSeq(u)) = N + 1
  BY <1>2, AcceptedIsSeq
<1> DEFINE old == AcceptedSeq(t)
           new == AcceptedSeq(u)
<1>4. new[N + 1] = r
  <2>1. u[r].seq # 0  BY <1>1
  <2> QED  BY <2>1, AcceptedAt
<1>5. \A n \in 1 .. N : new[n] = old[n]
  <2> SUFFICES ASSUME NEW n \in 1 .. N
               PROVE  new[n] = old[n]
    OBVIOUS
  <2>1. old[n] \in Receipts /\ t[old[n]].seq = n  BY AcceptedAt
  <2>2. n # 0  BY <1>1
  <2>3. u[old[n]].seq = n  BY <2>1, <2>2
  <2> HIDE DEF old, N
  <2> QED  BY <2>1, <2>2, <2>3, AcceptedAt
<1> HIDE DEF old, new, N
<1>6. old \in Seq(Receipts) /\ new \in Seq(Receipts) /\ Len(old) = N /\ Len(new) = N + 1
  BY <1>3 DEF old, new
<1>7. /\ Append(old, r) \in Seq(Receipts)
      /\ Len(Append(old, r)) = N + 1
      /\ \A n \in 1 .. N : Append(old, r)[n] = old[n]
      /\ Append(old, r)[N + 1] = r
  BY <1>6, AppendProperties
<1>8. \A n \in 1 .. N + 1 : new[n] = Append(old, r)[n]
  <2> SUFFICES ASSUME NEW n \in 1 .. N + 1
               PROVE  new[n] = Append(old, r)[n]
    OBVIOUS
  <2>1. n \in 1 .. N \/ n = N + 1  BY <1>1
  <2> QED  BY <1>4, <1>5, <1>7, <2>1
<1>9. new = Append(old, r)  BY <1>6, <1>7, <1>8, SeqEqual
<1> QED  BY <1>9 DEF old, new

LEMMA AskedIsSeq ==
  ASSUME NEW j \in Seq(TurnShape)
  PROVE  /\ Asked(j) \in Seq(Receipts)
         /\ Len(Asked(j)) = Len(j)
         /\ DOMAIN Asked(j) = 1 .. Len(j)
         /\ \A i \in 1 .. Len(j) : Asked(j)[i] = j[i].turn
<1>1. Len(j) \in Nat /\ DOMAIN j = 1 .. Len(j)  BY LenProperties
<1>2. Asked(j) \in [1 .. Len(j) -> Receipts]  BY <1>1, TurnFields DEF Asked
<1> QED  BY <1>1, <1>2, SeqDef, LenProperties DEF Asked

LEMMA SameAsked ==
  ASSUME NEW j \in Seq(TurnShape), NEW k \in Seq(TurnShape), SameTurns(j, k)
  PROVE  Asked(k) = Asked(j)
<1>1. DOMAIN j = 1 .. Len(j) /\ DOMAIN k = 1 .. Len(j)  BY LenProperties DEF SameTurns
<1> QED  BY <1>1 DEF Asked, SameTurns

Unseen == Still(receipt, receipt') /\ Asked(journal') = Asked(journal)

AnswersOwn ==
  \E r \in Receipts : \E i \in 1 .. Len(journal) :
    Answers(r, i) /\ journal[i].turn = r /\ journal' = journal

LEMMA SoftIsStill ==
  ASSUME Soft(receipt, receipt') \/ receipt' = receipt
  PROVE  Still(receipt, receipt')
BY DEF Soft, SoftRow, Still

LEMMA StepKinds ==
  ASSUME Shape, TurnInv, [Next]_vars
  PROVE  \/ Unseen
         \/ \E r \in Receipts : Enqueue(r)
         \/ \E h \in Hosts : Submit(h)
         \/ AnswersOwn
         \/ \E h \in Hosts : AbandonCommits(h) /\ GivesUp /\ journal' = journal
<1>0. journal \in Seq(TurnShape)  BY DEF Shape
<1>1. ASSUME NEW r \in Receipts,
             Renew(r) \/ LeaseExpires(r) \/ ToolCall(r) \/ RecoverPreparation(r)
      PROVE  Unseen
  <2>1. journal' = journal
    BY <1>1 DEF Renew, LeaseExpires, ToolCall, RecoverPreparation
  <2>2. Soft(receipt, receipt')
    <3>1. CASE RecoverPreparation(r)  BY <3>1, RecoverPreparationIsSoft
    <3>2. CASE Renew(r) \/ LeaseExpires(r) \/ ToolCall(r)
      <4>1. \E b \in BOOLEAN : receipt' = [receipt EXCEPT ![r].held = b]
        BY <3>2 DEF Renew, LeaseExpires, ToolCall
      <4> QED  BY <4>1, HeldIsSoft
    <3> QED  BY <1>1, <3>1, <3>2
  <2> QED  BY <2>1, <2>2, SoftIsStill DEF Unseen
<1>2. ASSUME NEW h \in Hosts, Claim(h) \/ Bind(h) \/ Fails(h) \/ BoundSessionMissing(h)
      PROVE  Unseen
  <2>1. journal' = journal  BY <1>2 DEF Claim, Bind, Fails, BoundSessionMissing
  <2>2. Soft(receipt, receipt')  BY <1>2, ClaimEffect, BindEffect, FailsStep
  <2> QED  BY <2>1, <2>2, SoftIsStill DEF Unseen
<1>3. ASSUME NEW h \in Hosts,
             \/ ReadHead(h) \/ ClaimRefused(h) \/ ReadBinding(h) \/ Reuse(h) \/ Launch(h)
             \/ Record(h) \/ Ready(h) \/ Crash(h)
      PROVE  Unseen
  <2>1. journal' = journal /\ receipt' = receipt
    BY <1>3 DEF ReadHead, ClaimRefused, ReadBinding, Reuse, Launch, Record, Ready, Crash
  <2> QED  BY <2>1, SoftIsStill DEF Unseen
<1>4. ASSUME NEW h \in Hosts, MarkSending(h)
      PROVE  Unseen
  <2> DEFINE r == exec[h].head
             row == [receipt[r] EXCEPT !.status = "sending", !.mark = exec[h].mark,
                                       !.sender = <<h, "run">>, !.held = TRUE]
  <2>1. r \in Receipts  BY <1>4, HeadOf DEF MarkSending, At
  <2>2. receipt' = [receipt EXCEPT ![r] = row]  BY <1>4 DEF MarkSending
  <2>3. receipt[r] \in ReceiptShape  BY <2>1 DEF Shape, Tables
  <2>4. receipt[r].status = "preparing"  BY <1>4 DEF MarkSending
  <2>5. row.status = "sending" /\ row.seq = receipt[r].seq /\ row.reply = receipt[r].reply
    BY <2>3 DEF ReceiptShape
  <2> HIDE DEF r, row
  <2>6. receipt'[r] = row /\ \A o \in Receipts : o # r => receipt'[o] = receipt[o]
    BY <2>1, <2>2 DEF Shape, Tables
  <2>7. Still(receipt, receipt')  BY <2>4, <2>5, <2>6 DEF Still
  <2>8. journal' = journal  BY <1>4 DEF MarkSending
  <2> QED  BY <2>7, <2>8 DEF Unseen
<1>5. ASSUME NEW h \in Hosts, TurnCompleted(h) \/ RecoverFromTranscript(h)
      PROVE  Unseen \/ AnswersOwn
  <2>1. PICK i \in 1 .. Len(journal) :
           /\ exec[h].pc \in {"sent", "recover"}
           /\ journal[i].turn = exec[h].head
           /\ Complete(h, i)
    BY <1>5, CompletesOwn
  <2>2. Soft(receipt, receipt') \/ Answers(exec[h].head, i)  BY <2>1, CompleteStep
  <2>3. journal' = journal  BY <2>1 DEF Complete
  <2>4. exec[h].head \in Receipts  BY <2>1, HeadOf
  <2> QED  BY <2>1, <2>2, <2>3, <2>4, SoftIsStill DEF Unseen, AnswersOwn
<1>6. ASSUME NEW h \in Hosts, AbandonBegins(h)
      PROVE  Unseen
  <2>1. journal' = journal  BY <1>6 DEF AbandonBegins
  <2>2. Soft(receipt, receipt')  BY <1>6, AbandonBeginsEffect
  <2> QED  BY <2>1, <2>2, SoftIsStill DEF Unseen
<1>7. ASSUME NEW h \in Hosts, StopFails(h)
      PROVE  Unseen
  <2>1. stop[h].head \in Receipts  BY <1>7 DEF StopFails, Shape, StopShape
  <2>2. journal' = journal  BY <1>7 DEF StopFails
  <2>3. Soft(receipt, receipt')  BY <1>7, <2>1, StopFailsStep DEF StopFails
  <2> QED  BY <2>2, <2>3, SoftIsStill DEF Unseen
<1>8. ASSUME NEW h \in Hosts, AbandonCommits(h)
      PROVE  Unseen \/ (AbandonCommits(h) /\ GivesUp /\ journal' = journal)
  <2>1. journal' = journal  BY <1>8 DEF AbandonCommits, Abandon
  <2>2. Soft(receipt, receipt') \/ GivesUp  BY <1>8, AbandonCommitsStep
  <2> QED  BY <1>8, <2>1, <2>2, SoftIsStill DEF Unseen
<1>9. ASSUME \/ TurnEnds
             \/ SessionStops
             \/ \E h \in Hosts : StopSession(h)
      PROVE  Unseen
  <2>1. receipt' = receipt  BY <1>9 DEF TurnEnds, SessionStops, StopSession
  <2>2. journal' \in Seq(TurnShape) /\ SameTurns(journal, journal')
    <3>1. CASE TurnEnds  BY <3>1, TurnEndsTurns
    <3>2. CASE SessionStops \/ \E h \in Hosts : StopSession(h)
      <4>1. \E x : journal' = Interrupted({x})  BY <3>2 DEF SessionStops, StopSession
      <4> QED  BY <4>1, InterruptedTurns
    <3> QED  BY <1>9, <3>1, <3>2
  <2>3. Asked(journal') = Asked(journal)  BY <1>0, <2>2, SameAsked
  <2> QED  BY <2>1, <2>3, SoftIsStill DEF Unseen
<1>10. CASE BeginDeletion \/ UNCHANGED vars
  <2>1. journal' = journal /\ receipt' = receipt  BY <1>10 DEF BeginDeletion, vars
  <2> QED  BY <2>1, SoftIsStill DEF Unseen
<1> QED
  BY <1>1, <1>2, <1>3, <1>4, <1>5, <1>6, <1>7, <1>8, <1>9, <1>10 DEF Next

\* the mapping of CompletedTurns!Conversation
LEMMA Mapped ==
  /\ Accepted = AcceptedIn(receipt)
  /\ [n \in 1 .. Cardinality(Accepted) |-> CHOOSE r \in Receipts : receipt[r].seq = n] =
       AcceptedSeq(receipt)
  /\ [i \in DOMAIN journal |-> journal[i].turn] = Asked(journal)
  /\ [r \in Receipts |-> receipt[r].reply] = AnswerOf(receipt)
  /\ {r \in Receipts : receipt[r].status = "abandoned"} = CancelledIn(receipt)
<1>1. Accepted = AcceptedIn(receipt)  BY DEF Accepted, AcceptedIn
<1> QED  BY <1>1 DEF AcceptedSeq, Asked, AnswerOf, CancelledIn

Elements(seq) == {seq[i] : i \in DOMAIN seq}

LEMMA AcceptStep ==
  ASSUME Shape, TurnInv, TurnInv', Shape', NEW r \in Receipts, Enqueue(r)
  PROVE  /\ r \notin Elements(AcceptedSeq(receipt))
         /\ CancelledIn(receipt) = {}
         /\ AcceptedSeq(receipt') = Append(AcceptedSeq(receipt), r)
         /\ Asked(journal') = Asked(journal)
         /\ AnswerOf(receipt') = AnswerOf(receipt)
         /\ CancelledIn(receipt') = CancelledIn(receipt)
<1>1. receipt \in Tables /\ receipt' \in Tables /\ SeqOK(receipt) /\ SeqOK(receipt')
  BY DEF Shape, TurnInv, QueueInv, RowsInv
<1> DEFINE n == Cardinality(AcceptedIn(receipt)) + 1
           row == [receipt[r] EXCEPT !.status = "queued", !.seq = n]
<1>2. receipt[r] \in ReceiptShape /\ receipt[r].status = "absent" /\ ~retired
  BY <1>1 DEF Tables, Enqueue
<1>3. receipt[r].seq = 0  BY <1>1, <1>2 DEF SeqOK
<1>4. receipt' = [receipt EXCEPT ![r] = row]
  <2>1. Accepted = AcceptedIn(receipt)  BY DEF Accepted, AcceptedIn
  <2> QED  BY <1>1, <2>1 DEF Enqueue, Tables
<1>5. row.seq = n /\ row.status = "queued" /\ row.reply = receipt[r].reply
  BY <1>2 DEF ReceiptShape
<1> HIDE DEF row, n
<1>6. receipt'[r] = row /\ \A o \in Receipts : o # r => receipt'[o] = receipt[o]
  BY <1>1, <1>4 DEF Tables
<1>7. r \notin Elements(AcceptedSeq(receipt))
  <2> SUFFICES ASSUME NEW i \in 1 .. Cardinality(AcceptedIn(receipt)),
                      AcceptedSeq(receipt)[i] = r
               PROVE  FALSE
    BY <1>1, AcceptedIsSeq DEF Elements
  <2>1. receipt[r].seq = i  BY <1>1, AcceptedAt
  <2>2. Cardinality(AcceptedIn(receipt)) \in Nat  BY CountIsNat
  <2> QED  BY <1>3, <2>1, <2>2
<1>8. CancelledIn(receipt) = {}
  BY <1>2 DEF CancelledIn, TurnInv, QueueInv, AbandonedOK
<1>9. AcceptedSeq(receipt') = Append(AcceptedSeq(receipt), r)
  <2>1. receipt'[r].seq = Cardinality(AcceptedIn(receipt)) + 1  BY <1>5, <1>6 DEF n
  <2>2. \A o \in Receipts : o # r => receipt'[o].seq = receipt[o].seq  BY <1>6
  <2> QED  BY <1>1, <1>3, <2>1, <2>2, OneMoreAccepted
<1>10. AnswerOf(receipt') = AnswerOf(receipt)  BY <1>5, <1>6 DEF AnswerOf
<1>11. CancelledIn(receipt') = CancelledIn(receipt)  BY <1>2, <1>5, <1>6 DEF CancelledIn
<1>12. journal' = journal  BY DEF Enqueue
<1> QED  BY <1>7, <1>8, <1>9, <1>10, <1>11, <1>12

LEMMA UnseenStep ==
  ASSUME Shape, TurnInv, TurnInv', Shape', Unseen
  PROVE  /\ AcceptedSeq(receipt') = AcceptedSeq(receipt)
         /\ Asked(journal') = Asked(journal)
         /\ AnswerOf(receipt') = AnswerOf(receipt)
         /\ CancelledIn(receipt') = CancelledIn(receipt)
<1>1. receipt \in Tables /\ receipt' \in Tables /\ SeqOK(receipt) /\ SeqOK(receipt')
  BY DEF Shape, TurnInv, QueueInv, RowsInv
<1>2. \A o \in Receipts : receipt'[o].seq = receipt[o].seq  BY DEF Unseen, Still
<1>3. AcceptedSeq(receipt') = AcceptedSeq(receipt)  BY <1>1, <1>2, SameAccepted
<1> QED  BY <1>3 DEF Unseen, Still, AnswerOf, CancelledIn

\* all that was accepted before the front has its answer
LEMMA AskStep ==
  ASSUME Shape, TurnInv, NEW h \in Hosts, Submit(h)
  PROVE  \E r \in Receipts :
           /\ r \notin Elements(Asked(journal))
           /\ \E n \in DOMAIN AcceptedSeq(receipt) :
                /\ AcceptedSeq(receipt)[n] = r
                /\ \A i \in 1 .. n - 1 : AnswerOf(receipt)[AcceptedSeq(receipt)[i]] # 0
           /\ Asked(journal') = Append(Asked(journal), r)
           /\ receipt' = receipt
<1> DEFINE r == exec[h].head
           acc == AcceptedSeq(receipt)
           N == Cardinality(AcceptedIn(receipt))
<1>1. r \in Receipts /\ Front(receipt, r) /\ receipt[r].mark = Len(journal)  BY SubmitStep
<1>2. receipt \in Tables /\ SeqOK(receipt) /\ RowsInv(receipt, journal)
      /\ journal \in Seq(TurnShape) /\ Len(journal) \in Nat
  BY LenProperties DEF Shape, TurnInv, QueueInv, RowsInv
<1>3. receipt' = receipt /\ journal' = Append(journal, [turn |-> r, session |-> exec[h].x,
                                                        state |-> "running"])
  BY DEF Submit
<1>4. exec[h].x \in Sessions  BY SubmitStep
<1> HIDE DEF r
<1>5. r \notin Elements(Asked(journal))
  <2> SUFFICES ASSUME NEW i \in 1 .. Len(journal), journal[i].turn = r
               PROVE  FALSE
    BY <1>2, AskedIsSeq DEF Elements
  <2>1. receipt[r].mark = i - 1  BY <1>2 DEF RowsInv, JournalOK
  <2> QED  BY <1>1, <1>2, <2>1
<1>6. \E n \in DOMAIN acc : /\ acc[n] = r
                            /\ \A i \in 1 .. n - 1 : AnswerOf(receipt)[acc[i]] # 0
  <2> DEFINE n == receipt[r].seq
  <2>1. n # 0  BY <1>1 DEF Front
  <2>2. n \in 1 .. N /\ acc[n] = r  BY <1>1, <1>2, <2>1, AcceptedAt
  <2>3. n \in DOMAIN acc  BY <1>2, <2>2, AcceptedIsSeq
  <2>4. \A i \in 1 .. n - 1 : AnswerOf(receipt)[acc[i]] # 0
    <3> SUFFICES ASSUME NEW i \in 1 .. n - 1
                 PROVE  AnswerOf(receipt)[acc[i]] # 0
      OBVIOUS
    <3>1. N \in Nat  BY CountIsNat
    <3> HIDE DEF N
    <3>2. i \in 1 .. N /\ i # 0 /\ i < n  BY <2>2, <3>1
    <3> DEFINE o == acc[i]
    <3>3. o \in Receipts /\ receipt[o].seq = i  BY <1>2, <3>2, AcceptedAt DEF N
    <3> HIDE DEF o
    <3>4. receipt[o].status = "completed"  BY <1>1, <3>2, <3>3 DEF Front
    <3>5. receipt[o].reply \in 1 .. Len(journal)  BY <1>2, <3>3, <3>4 DEF RowsInv, ReplyOK
    <3>6. AnswerOf(receipt)[o] = receipt[o].reply  BY <3>3 DEF AnswerOf
    <3>7. AnswerOf(receipt)[o] # 0  BY <1>2, <3>5, <3>6
    <3> QED  BY <3>7 DEF o
  <2> HIDE DEF acc, n
  <2> QED  BY <2>2, <2>3, <2>4
<1>7. Asked(journal') = Append(Asked(journal), r)
  <2> DEFINE turn == [turn |-> r, session |-> exec[h].x, state |-> "running"]
  <2>1. turn \in TurnShape /\ turn.turn = r  BY <1>1, <1>4 DEF TurnShape
  <2> HIDE DEF turn
  <2>2. /\ journal' \in Seq(TurnShape)
        /\ Len(journal') = Len(journal) + 1
        /\ \A i \in 1 .. Len(journal) : journal'[i] = journal[i]
        /\ journal'[Len(journal) + 1] = turn
    BY <1>2, <1>3, <2>1, AppendProperties DEF turn
  <2> DEFINE old == Asked(journal)
             new == Asked(journal')
  <2>3. /\ old \in Seq(Receipts) /\ Len(old) = Len(journal)
        /\ \A i \in 1 .. Len(journal) : old[i] = journal[i].turn
    BY <1>2, AskedIsSeq
  <2>4. /\ new \in Seq(Receipts) /\ Len(new) = Len(journal) + 1
        /\ \A i \in 1 .. Len(journal) + 1 : new[i] = journal'[i].turn
    BY <2>2, AskedIsSeq
  <2> HIDE DEF old, new
  <2>5. /\ Append(old, r) \in Seq(Receipts)
        /\ Len(Append(old, r)) = Len(journal) + 1
        /\ \A i \in 1 .. Len(journal) : Append(old, r)[i] = old[i]
        /\ Append(old, r)[Len(journal) + 1] = r
    BY <1>1, <2>3, AppendProperties
  <2>6. \A i \in 1 .. Len(journal) + 1 : new[i] = Append(old, r)[i]
    <3> SUFFICES ASSUME NEW i \in 1 .. Len(journal) + 1
                 PROVE  new[i] = Append(old, r)[i]
      OBVIOUS
    <3>1. i \in 1 .. Len(journal) \/ i = Len(journal) + 1  BY <1>2
    <3> QED  BY <2>1, <2>2, <2>3, <2>4, <2>5, <3>1
  <2>7. new = Append(old, r)  BY <2>4, <2>5, <2>6, SeqEqual
  <2> QED  BY <2>7 DEF old, new
<1> QED  BY <1>1, <1>3, <1>5, <1>6, <1>7

LEMMA AnswerStep ==
  ASSUME Shape, TurnInv, TurnInv', Shape',
         NEW r \in Receipts, NEW i \in 1 .. Len(journal),
         Answers(r, i), journal[i].turn = r, journal' = journal
  PROVE  /\ AnswerOf(receipt)[r] = 0
         /\ r \notin CancelledIn(receipt)
         /\ i \in DOMAIN Asked(journal) /\ Asked(journal)[i] = r
         /\ AnswerOf(receipt') = [AnswerOf(receipt) EXCEPT ![r] = i]
         /\ AcceptedSeq(receipt') = AcceptedSeq(receipt)
         /\ Asked(journal') = Asked(journal)
         /\ CancelledIn(receipt') = CancelledIn(receipt)
<1>1. /\ receipt \in Tables /\ receipt' \in Tables /\ SeqOK(receipt) /\ SeqOK(receipt')
      /\ journal \in Seq(TurnShape) /\ ReplyOK(receipt, journal)
  BY DEF Shape, TurnInv, QueueInv, RowsInv
<1> DEFINE row == [Released(receipt[r]) EXCEPT !.status = "completed", !.reply = i]
<1>2. receipt[r] \in ReceiptShape /\ receipt[r].status \in {"sending", "uncertain"}
  BY <1>1 DEF Tables, Answers
<1>3. row.status = "completed" /\ row.reply = i /\ row.seq = receipt[r].seq
  BY <1>2 DEF Released, ReceiptShape
<1>4. receipt'[r] = row /\ \A o \in Receipts : o # r => receipt'[o] = receipt[o]
  BY DEF Answers
<1> HIDE DEF row
<1>5. AnswerOf(receipt)[r] = 0  BY <1>1, <1>2 DEF ReplyOK, AnswerOf
<1>6. r \notin CancelledIn(receipt)  BY <1>2 DEF CancelledIn
<1>7. i \in DOMAIN Asked(journal) /\ Asked(journal)[i] = r  BY <1>1, AskedIsSeq
<1>8. AnswerOf(receipt') = [AnswerOf(receipt) EXCEPT ![r] = i]  BY <1>3, <1>4 DEF AnswerOf
<1>9. AcceptedSeq(receipt') = AcceptedSeq(receipt)
  <2>1. \A o \in Receipts : receipt'[o].seq = receipt[o].seq  BY <1>3, <1>4
  <2> QED  BY <1>1, <2>1, SameAccepted
<1>10. CancelledIn(receipt') = CancelledIn(receipt)  BY <1>2, <1>3, <1>4 DEF CancelledIn
<1> QED  BY <1>5, <1>6, <1>7, <1>8, <1>9, <1>10

LEMMA CancelStep ==
  ASSUME Shape, TurnInv, TurnInv', Shape', GivesUp, journal' = journal
  PROVE  /\ CancelledIn(receipt') =
              {r \in Elements(AcceptedSeq(receipt)) : AnswerOf(receipt)[r] = 0}
         /\ AcceptedSeq(receipt') = AcceptedSeq(receipt)
         /\ Asked(journal') = Asked(journal)
         /\ AnswerOf(receipt') = AnswerOf(receipt)
<1>1. /\ receipt \in Tables /\ receipt' \in Tables /\ SeqOK(receipt) /\ SeqOK(receipt')
      /\ journal \in Seq(TurnShape) /\ Len(journal) \in Nat
      /\ ReplyOK(receipt, journal)
  BY LenProperties DEF Shape, TurnInv, QueueInv, RowsInv
<1>2. \A o \in Receipts : /\ receipt'[o].seq = receipt[o].seq
                          /\ receipt'[o].reply = receipt[o].reply
                          /\ receipt'[o].status = IF receipt[o].status \in Working
                                                  THEN "abandoned" ELSE receipt[o].status
  BY GivesUpRows
<1>3. AcceptedSeq(receipt') = AcceptedSeq(receipt)  BY <1>1, <1>2, SameAccepted
<1>4. AnswerOf(receipt') = AnswerOf(receipt)  BY <1>2 DEF AnswerOf
<1>5. \A o \in Receipts : o \in Elements(AcceptedSeq(receipt)) <=> receipt[o].seq # 0
  <2> SUFFICES ASSUME NEW o \in Receipts
               PROVE  o \in Elements(AcceptedSeq(receipt)) <=> receipt[o].seq # 0
    OBVIOUS
  <2> DEFINE N == Cardinality(AcceptedIn(receipt))
             acc == AcceptedSeq(receipt)
  <2>1. DOMAIN acc = 1 .. N /\ N \in Nat  BY <1>1, AcceptedIsSeq, CountIsNat
  <2>2. \A n \in 1 .. N : receipt[acc[n]].seq = n  BY <1>1, AcceptedAt
  <2>3. receipt[o].seq # 0 => receipt[o].seq \in 1 .. N /\ acc[receipt[o].seq] = o
    BY <1>1, AcceptedAt
  <2> HIDE DEF N, acc
  <2>4. \A n \in 1 .. N : n # 0  BY <2>1
  <2>5. o \in Elements(acc) <=> receipt[o].seq # 0
    BY <2>1, <2>2, <2>3, <2>4 DEF Elements
  <2> QED  BY <2>5 DEF acc
<1>6. Elements(AcceptedSeq(receipt)) \subseteq Receipts
  <2>1. \A n \in DOMAIN AcceptedSeq(receipt) : AcceptedSeq(receipt)[n] \in Receipts
    BY <1>1, AcceptedIsSeq, AcceptedAt
  <2> QED  BY <2>1 DEF Elements
<1>7. \A o \in Receipts : o \in CancelledIn(receipt') <=>
                            receipt[o].seq # 0 /\ AnswerOf(receipt)[o] = 0
  <2> SUFFICES ASSUME NEW o \in Receipts
               PROVE  o \in CancelledIn(receipt') <=>
                        receipt[o].seq # 0 /\ AnswerOf(receipt)[o] = 0
    OBVIOUS
  <2>1. o \in CancelledIn(receipt') <=> receipt'[o].status = "abandoned"  BY DEF CancelledIn
  <2>2. receipt[o].status \in Statuses  BY <1>1, RowFields
  <2>3. o \in CancelledIn(receipt') <=> receipt[o].status \notin {"absent", "completed"}
    BY <1>2, <2>1, <2>2 DEF Statuses, Working
  <2>4. receipt[o].seq # 0 <=> receipt[o].status # "absent"  BY <1>1 DEF SeqOK
  <2>5. AnswerOf(receipt)[o] = 0 <=> receipt[o].status # "completed"
    <3>1. AnswerOf(receipt)[o] = receipt[o].reply  BY DEF AnswerOf
    <3>2. receipt[o].status = "completed" => receipt[o].reply \in 1 .. Len(journal)
      BY <1>1 DEF ReplyOK
    <3>3. receipt[o].status # "completed" => receipt[o].reply = 0  BY <1>1 DEF ReplyOK
    <3> QED  BY <1>1, <3>1, <3>2, <3>3
  <2> QED  BY <2>3, <2>4, <2>5
<1>8. CancelledIn(receipt') = {r \in Elements(AcceptedSeq(receipt)) : AnswerOf(receipt)[r] = 0}
  <2>1. CancelledIn(receipt') \subseteq Receipts  BY DEF CancelledIn
  <2> QED  BY <1>5, <1>6, <1>7, <2>1
<1> QED  BY <1>3, <1>4, <1>8

LEMMA MappedNext ==
  /\ Accepted' = AcceptedIn(receipt')
  /\ [n \in 1 .. Cardinality(Accepted') |-> CHOOSE r \in Receipts : receipt'[r].seq = n] =
       AcceptedSeq(receipt')
<1>1. Accepted' = AcceptedIn(receipt')  BY DEF Accepted, AcceptedIn
<1> QED  BY <1>1 DEF AcceptedSeq

LEMMA SameElements ==
  ASSUME NEW seq
  PROVE  Conversation!Elements(seq) = Elements(seq)
BY DEF Conversation!Elements, Elements

\* Whatever the hosts, leases, crashes, recoveries and retries, the native
\* conversation is one of the abstract specification: prompts reach the agent
\* in enqueue order, each at most once and only after the previous answer, and
\* a receipt completes with the answer to its own prompt.
THEOREM ConversationKept == Spec => KeepsConversation
<1>1. Init => Conversation!Init
  <2> SUFFICES ASSUME Init
               PROVE  Conversation!Init
    OBVIOUS
  <2>1. \A r \in Receipts : /\ receipt[r].seq = 0 /\ receipt[r].reply = 0
                            /\ receipt[r].status = "absent"
    BY DEF Init, Fresh
  <2>2. Cardinality(AcceptedIn(receipt)) = 0
    <3>1. AcceptedIn(receipt) = {}  BY <2>1 DEF AcceptedIn
    <3> QED  BY <3>1, FS_EmptySet
  <2>3. AcceptedSeq(receipt) = <<>>
    <3>1. receipt \in Tables /\ SeqOK(receipt)
      BY TurnInit DEF Shape, TurnInv, QueueInv, RowsInv
    <3> QED  BY <2>2, <3>1, AcceptedIsSeq, EmptySeq
  <2>4. Asked(journal) = <<>>  BY DEF Init, Asked
  <2>5. AnswerOf(receipt) = [r \in Receipts |-> 0]  BY <2>1 DEF AnswerOf
  <2>6. CancelledIn(receipt) = {}  BY <2>1 DEF CancelledIn
  <2> QED  BY <2>3, <2>4, <2>5, <2>6, Mapped DEF Conversation!Init
<1>2. (Shape /\ TurnInv) /\ (Shape /\ TurnInv)' /\ [Next]_vars
        => [Conversation!Next]_(Conversation!conversation)
  <2> SUFFICES ASSUME Shape, TurnInv, Shape', TurnInv', [Next]_vars
               PROVE  [Conversation!Next]_(Conversation!conversation)
    OBVIOUS
  <2>1. CASE Unseen
    <3>1. UNCHANGED Conversation!conversation
      BY <2>1, UnseenStep, Mapped, MappedNext DEF Conversation!conversation, Asked, AnswerOf, CancelledIn
    <3> QED  BY <3>1
  <2>2. ASSUME NEW r \in Receipts, Enqueue(r)
        PROVE  Conversation!Next
    <3>1. /\ r \notin Elements(AcceptedSeq(receipt))
          /\ CancelledIn(receipt) = {}
          /\ AcceptedSeq(receipt') = Append(AcceptedSeq(receipt), r)
          /\ Asked(journal') = Asked(journal)
          /\ AnswerOf(receipt') = AnswerOf(receipt)
          /\ CancelledIn(receipt') = CancelledIn(receipt)
      BY <2>2, AcceptStep
    <3>2. Conversation!Accept(r)
      <4>1. r \notin Conversation!Elements(
                       [n \in 1 .. Cardinality(Accepted) |-> CHOOSE o \in Receipts : receipt[o].seq = n])
        BY <3>1, Mapped, SameElements
      <4> QED  BY <3>1, <4>1, Mapped, MappedNext
               DEF Conversation!Accept, Asked, AnswerOf, CancelledIn
    <3> QED  BY <3>2 DEF Conversation!Next
  <2>3. ASSUME NEW h \in Hosts, Submit(h)
        PROVE  Conversation!Next
    <3>1. PICK r \in Receipts :
           /\ r \notin Elements(Asked(journal))
           /\ \E n \in DOMAIN AcceptedSeq(receipt) :
                /\ AcceptedSeq(receipt)[n] = r
                /\ \A i \in 1 .. n - 1 : AnswerOf(receipt)[AcceptedSeq(receipt)[i]] # 0
           /\ Asked(journal') = Append(Asked(journal), r)
           /\ receipt' = receipt
      BY <2>3, AskStep
    <3>3. AcceptedSeq(receipt') = AcceptedSeq(receipt)  BY <3>1
    <3>4. Conversation!Ask(r)
      <4>1. r \notin Conversation!Elements([i \in DOMAIN journal |-> journal[i].turn])
        BY <3>1, Mapped, SameElements
      <4> DEFINE acc == [n \in 1 .. Cardinality(Accepted) |->
                           CHOOSE o \in Receipts : receipt[o].seq = n]
                 ans == [o \in Receipts |-> receipt[o].reply]
      <4>2. acc = AcceptedSeq(receipt) /\ ans = AnswerOf(receipt)  BY Mapped
      <4> HIDE DEF acc, ans
      <4>3. \E n \in DOMAIN acc : acc[n] = r /\ \A i \in 1 .. n - 1 : ans[acc[i]] # 0
        BY <3>1, <4>2
      <4>4. [i \in DOMAIN journal' |-> journal'[i].turn] =
              Append([i \in DOMAIN journal |-> journal[i].turn], r)
        BY <3>1 DEF Asked
      <4>5. /\ acc' = acc
            /\ ans' = ans
            /\ {o \in Receipts : receipt'[o].status = "abandoned"} =
                 {o \in Receipts : receipt[o].status = "abandoned"}
        BY <3>1, <3>3, <4>2, MappedNext DEF acc, ans, AnswerOf
      <4> QED  BY <4>1, <4>3, <4>4, <4>5 DEF Conversation!Ask, acc, ans
    <3> QED  BY <3>4 DEF Conversation!Next
  <2>4. CASE AnswersOwn
    <3>1. PICK r \in Receipts, i \in 1 .. Len(journal) :
            Answers(r, i) /\ journal[i].turn = r /\ journal' = journal
      BY <2>4 DEF AnswersOwn
    <3>2. /\ AnswerOf(receipt)[r] = 0
          /\ r \notin CancelledIn(receipt)
          /\ i \in DOMAIN Asked(journal) /\ Asked(journal)[i] = r
          /\ AnswerOf(receipt') = [AnswerOf(receipt) EXCEPT ![r] = i]
          /\ AcceptedSeq(receipt') = AcceptedSeq(receipt)
          /\ Asked(journal') = Asked(journal)
          /\ CancelledIn(receipt') = CancelledIn(receipt)
      BY <3>1, AnswerStep
    <3>3. Conversation!Answer(r)
      BY <3>2, Mapped, MappedNext DEF Conversation!Answer, Asked, AnswerOf, CancelledIn
    <3> QED  BY <3>3 DEF Conversation!Next
  <2>5. CASE GivesUp /\ journal' = journal
    <3>1. /\ CancelledIn(receipt') =
                {r \in Elements(AcceptedSeq(receipt)) : AnswerOf(receipt)[r] = 0}
          /\ AcceptedSeq(receipt') = AcceptedSeq(receipt)
          /\ Asked(journal') = Asked(journal)
          /\ AnswerOf(receipt') = AnswerOf(receipt)
      BY <2>5, CancelStep
    <3>2. Conversation!Cancel
      <4>1. Elements(AcceptedSeq(receipt)) = Conversation!Elements(
              [n \in 1 .. Cardinality(Accepted) |-> CHOOSE o \in Receipts : receipt[o].seq = n])
        BY Mapped, SameElements
      <4> QED  BY <3>1, <4>1, Mapped, MappedNext
               DEF Conversation!Cancel, Asked, AnswerOf, CancelledIn
    <3> QED  BY <3>2 DEF Conversation!Next
  <2> QED  BY <2>1, <2>2, <2>3, <2>4, <2>5, StepKinds
<1> QED
  BY <1>1, <1>2, TurnInvariant, PTL DEF Spec, KeepsConversation, Conversation!Spec

-----------------------------------------------------------------------------
(* The sessions                                                            *)

Writing == {"ready", "mark", "submit"}
Free == {"idle", "claim", "reclaim", "binding", "recover", "sent"}

\* what is bound, attempted or asked is a session that exists
PlacedOK ==
  /\ bound # None => session[bound].state # "none"
  /\ \A h \in Hosts : exec[h].x # None => session[exec[h].x].state # "none"
  /\ \A i \in 1 .. Len(journal) : session[journal[i].session].state # "none"

LineageOK ==
  \A x \in Sessions : session[x].parent # None =>
    /\ session[session[x].parent].state # "none"
    /\ session[x].native = session[session[x].parent].native

BoundNative(x) == bound # None /\ session[x].native = session[bound].native

ClaimsOK == \A r \in Receipts : receipt[r].status = "completed" => receipt[r].claim = None

\* an attempt that still has its claim works from what is bound; one without it
\* may hold any session, and gets no further than bind() with it
AttemptsOK ==
  \A h \in Hosts :
    /\ exec[h].pc = "prepare" /\ Mine(h, "run", exec[h].head) => exec[h].x = bound
    /\ exec[h].pc \in {"launch", "bind"} /\ Mine(h, "run", exec[h].head)
         => bound = None \/ BoundNative(exec[h].x)
    /\ exec[h].pc \in Writing => BoundNative(exec[h].x)

AskedOK == \A i \in 1 .. Len(journal) : BoundNative(journal[i].session)

\* a session launched since the abandonment began has no turn and gets none
StoppedOK ==
  \A h \in Hosts : stop[h].head # None =>
    \A x \in Sessions : Live(h, x) /\ x \notin stop[h].left =>
      /\ ~Running(x)
      /\ \A k \in Hosts : exec[k].pc \in Writing => exec[k].x # x

NativeInv == PlacedOK /\ LineageOK /\ ClaimsOK /\ AttemptsOK /\ AskedOK /\ StoppedOK

-----------------------------------------------------------------------------
(* Steps that leave all this alone                                         *)

KeepsSessions ==
  \A y \in Sessions :
    /\ session'[y].parent = session[y].parent
    /\ session'[y].native = session[y].native
    /\ session'[y].host = session[y].host
    /\ \/ session'[y].state = session[y].state
       \/ session[y].state = "live" /\ session'[y].state = "stopped"

\* an attempt begins, ends, reads the binding, finds a session of the native
\* conversation it read, records its own, or goes on in the bound one
ExecGoesOn ==
  \A k \in Hosts :
    \/ exec'[k].pc \in Free /\ exec'[k].x \in {None, exec[k].x}
    \/ exec'[k] = exec[k]
    \/ exec'[k].pc = "prepare" /\ exec'[k].x = bound
    \/ /\ exec[k].pc = "prepare" /\ exec'[k].pc = "bind"
       /\ exec'[k].head = exec[k].head
       /\ session[exec'[k].x].state # "none"
       /\ exec[k].x # None => session[exec'[k].x].native = session[exec[k].x].native
    \/ /\ exec[k].pc = "launch" /\ exec'[k].pc = "bind"
       /\ exec'[k].head = exec[k].head /\ exec'[k].x = exec[k].x
    \/ exec[k].pc \in Writing /\ exec'[k].pc \in Writing /\ exec'[k].x = exec[k].x

\* only an attempt that has not read the binding yet gets a claim
RowsGoOn ==
  \A r \in Receipts :
    /\ receipt'[r].status = "completed" => receipt'[r].claim = None
    /\ \A k \in Hosts : Mine(k, "run", r)' => Mine(k, "run", r) \/ exec'[k].pc \in Free

StopsGoOn == \A h \in Hosts : stop'[h] = stop[h] \/ stop'[h] = NoStop

LEMMA KeptSessions ==
  ASSUME Shape, KeepsSessions
  PROVE  /\ \A y \in Sessions : session[y].state # "none" => session'[y].state # "none"
         /\ \A h \in Hosts, y \in Sessions : Live(h, y)' => Live(h, y)
BY DEF KeepsSessions, Live

LEMMA RunningKept ==
  ASSUME Shape, Shape', SameTurns(journal, journal'), NEW x
  PROVE  Running(x)' => Running(x)
<1>1. DOMAIN journal = 1 .. Len(journal) /\ DOMAIN journal' = 1 .. Len(journal)
  BY LenProperties DEF Shape, SameTurns
<1> QED  BY <1>1 DEF Running, SameTurns

LEMMA AtSession ==
  ASSUME TurnInv, NEW h \in Hosts, exec[h].pc \notin Free, exec[h].pc # "prepare"
  PROVE  exec[h].x \in Sessions /\ exec[h].x # None
BY TurnsAssumption DEF TurnInv, ExecOK, HostOK, Free

\* an attempt's session is one it had, the bound one, or another that exists
ExecSafe ==
  \A k \in Hosts :
    /\ exec'[k].x = None \/ exec'[k].x = exec[k].x \/ session[exec'[k].x].state # "none"
    /\ exec'[k].pc \in Writing => exec[k].pc \in Writing /\ exec'[k].x = exec[k].x

LEMMA GoesOnSafely ==
  ASSUME PlacedOK, ExecGoesOn
  PROVE  ExecSafe
BY DEF PlacedOK, ExecGoesOn, ExecSafe, Free, Writing

LEMMA PlacedKept ==
  ASSUME Shape, Shape', PlacedOK, KeepsSessions, SameTurns(journal, journal'), ExecSafe,
         bound' = bound
  PROVE  PlacedOK'
<1>1. \A y \in Sessions : session[y].state # "none" => session'[y].state # "none"
  BY KeptSessions
<1>2. bound # None => session'[bound].state # "none"  BY <1>1 DEF PlacedOK, Shape
<1>3. ASSUME NEW h \in Hosts, exec'[h].x # None
      PROVE  session'[exec'[h].x].state # "none"
  <2>1. exec'[h].x \in Sessions  BY <1>3 DEF Shape, ExecShape
  <2>2. session[exec'[h].x].state # "none"  BY <1>3 DEF PlacedOK, ExecSafe
  <2> QED  BY <1>1, <2>1, <2>2
<1>4. ASSUME NEW i \in 1 .. Len(journal')
      PROVE  session'[journal'[i].session].state # "none"
  <2>1. i \in 1 .. Len(journal) /\ journal'[i].session = journal[i].session
    BY DEF SameTurns
  <2>2. journal[i].session \in Sessions  BY <2>1, TurnFields DEF Shape
  <2> QED  BY <1>1, <2>1, <2>2 DEF PlacedOK
<1> QED  BY <1>2, <1>3, <1>4 DEF PlacedOK

LEMMA LineageKept ==
  ASSUME Shape, LineageOK, KeepsSessions
  PROVE  LineageOK'
<1> SUFFICES ASSUME NEW x \in Sessions, session'[x].parent # None
             PROVE  /\ session'[session'[x].parent].state # "none"
                    /\ session'[x].native = session'[session'[x].parent].native
  BY DEF LineageOK
<1> DEFINE p == session[x].parent
<1>1. session'[x].parent = p  BY DEF KeepsSessions
<1>2. p \in Sessions
  <2>1. session[x] \in SessionShape  BY DEF Shape
  <2>2. p \in Sessions \cup {None}  BY <2>1 DEF SessionShape
  <2> QED  BY <1>1, <2>2
<1>3. session[p].state # "none" /\ session[x].native = session[p].native
  BY <1>1 DEF LineageOK
<1> HIDE DEF p
<1>4. session'[p].state # "none"  BY <1>2, <1>3, KeptSessions
<1> QED  BY <1>1, <1>2, <1>3, <1>4 DEF KeepsSessions

LEMMA BoundNativeKept ==
  ASSUME Shape, KeepsSessions, bound' = bound, NEW x \in Sessions
  PROVE  BoundNative(x)' <=> BoundNative(x)
BY DEF BoundNative, KeepsSessions, Shape

LEMMA AttemptsKept ==
  ASSUME Shape, Shape', TurnInv, TurnInv', NativeInv, KeepsSessions, ExecGoesOn, RowsGoOn,
         bound' = bound
  PROVE  AttemptsOK'
<1> SUFFICES ASSUME NEW h \in Hosts
             PROVE  /\ exec'[h].pc = "prepare" /\ Mine(h, "run", exec[h].head)' => exec'[h].x = bound
                    /\ exec'[h].pc \in {"launch", "bind"} /\ Mine(h, "run", exec[h].head)'
                         => bound = None \/ BoundNative(exec[h].x)'
                    /\ exec'[h].pc \in Writing => BoundNative(exec[h].x)'
  BY DEF AttemptsOK
<1>1. CASE exec'[h].pc \in Free  BY <1>1 DEF Free, Writing
<1>2. CASE exec'[h].pc \notin Free
  <2>1. exec'[h].head \in Receipts
    BY <1>2 DEF Free, TurnInv, ExecOK, HostOK
  <2>2. Mine(h, "run", exec[h].head)' => Mine(h, "run", exec'[h].head)
    BY <1>2, <2>1 DEF RowsGoOn, Mine
  <2>3. exec'[h].pc # "prepare" => exec'[h].x \in Sessions
    BY <1>2 DEF Free, TurnInv, ExecOK, HostOK
  <2>4. exec'[h].pc # "prepare" => (BoundNative(exec[h].x)' <=> BoundNative(exec'[h].x))
    BY <2>3, BoundNativeKept DEF BoundNative
  <2>5. exec[h].pc = "prepare" /\ Mine(h, "run", exec[h].head) => exec[h].x = bound
    BY DEF NativeInv, AttemptsOK
  <2>6. exec[h].pc \in {"launch", "bind"} /\ Mine(h, "run", exec[h].head)
          => bound = None \/ BoundNative(exec[h].x)
    BY DEF NativeInv, AttemptsOK
  <2>7. exec[h].pc \in Writing => BoundNative(exec[h].x)  BY DEF NativeInv, AttemptsOK
  <2>8. CASE exec'[h] = exec[h]  BY <2>2, <2>4, <2>5, <2>6, <2>7, <2>8 DEF Writing
  <2>9. CASE exec'[h].pc = "prepare" /\ exec'[h].x = bound  BY <2>9 DEF Writing
  <2>10. CASE /\ exec[h].pc = "prepare" /\ exec'[h].pc = "bind"
              /\ exec'[h].head = exec[h].head
              /\ exec[h].x # None => session[exec'[h].x].native = session[exec[h].x].native
    <3>1. exec'[h].pc \notin Writing /\ exec'[h].pc # "prepare"  BY <2>10 DEF Writing
    <3>2. ASSUME Mine(h, "run", exec[h].head)', bound # None
          PROVE  BoundNative(exec'[h].x)
      <4>1. exec[h].x = bound  BY <2>2, <2>5, <2>10, <3>2
      <4> QED  BY <2>10, <3>2, <4>1 DEF BoundNative
    <3> QED  BY <2>4, <3>1, <3>2
  <2>11. CASE /\ exec[h].pc = "launch" /\ exec'[h].pc = "bind"
              /\ exec'[h].head = exec[h].head /\ exec'[h].x = exec[h].x
    BY <2>2, <2>4, <2>6, <2>11 DEF Writing
  <2>12. CASE exec[h].pc \in Writing /\ exec'[h].pc \in Writing /\ exec'[h].x = exec[h].x
    BY <2>4, <2>7, <2>12 DEF Writing
  <2> QED  BY <1>2, <2>8, <2>9, <2>10, <2>11, <2>12 DEF ExecGoesOn
<1> QED  BY <1>1, <1>2

LEMMA AskedKept ==
  ASSUME Shape, AskedOK, KeepsSessions, SameTurns(journal, journal'), bound' = bound
  PROVE  AskedOK'
<1> SUFFICES ASSUME NEW i \in 1 .. Len(journal')
             PROVE  BoundNative(journal[i].session)'
  BY DEF AskedOK
<1>1. i \in 1 .. Len(journal) /\ journal'[i].session = journal[i].session  BY DEF SameTurns
<1>2. journal[i].session \in Sessions  BY <1>1, TurnFields DEF Shape
<1>3. BoundNative(journal[i].session)  BY <1>1 DEF AskedOK
<1> QED  BY <1>1, <1>2, <1>3 DEF BoundNative, KeepsSessions, Shape

LEMMA StoppedKept ==
  ASSUME Shape, Shape', StoppedOK, KeepsSessions, SameTurns(journal, journal'), ExecSafe,
         StopsGoOn
  PROVE  StoppedOK'
<1> SUFFICES ASSUME NEW h \in Hosts, stop'[h].head # None,
                    NEW x \in Sessions, Live(h, x)', x \notin stop'[h].left
             PROVE  /\ ~Running(x)'
                    /\ \A k \in Hosts : exec'[k].pc \in Writing => exec'[k].x # x
  BY DEF StoppedOK
<1>1. stop'[h] = stop[h]  BY DEF StopsGoOn, NoStop
<1>2. Live(h, x)  BY KeptSessions
<1>3. /\ ~Running(x)
      /\ \A k \in Hosts : exec[k].pc \in Writing => exec[k].x # x
  BY <1>1, <1>2 DEF StoppedOK
<1>4. ~Running(x)'  BY <1>3, RunningKept
<1>5. \A k \in Hosts : exec'[k].pc \in Writing => exec[k].pc \in Writing /\ exec'[k].x = exec[k].x
  BY DEF ExecSafe
<1> QED  BY <1>3, <1>4, <1>5

LEMMA NativeKept ==
  ASSUME Shape, Shape', TurnInv, TurnInv', NativeInv, KeepsSessions, SameTurns(journal, journal'),
         ExecGoesOn, RowsGoOn, StopsGoOn, bound' = bound
  PROVE  NativeInv'
<1>1. ExecSafe  BY GoesOnSafely DEF NativeInv
<1>2. PlacedOK'  BY <1>1, PlacedKept DEF NativeInv
<1>3. LineageOK'  BY LineageKept DEF NativeInv
<1>4. ClaimsOK'  BY DEF RowsGoOn, ClaimsOK
<1>5. AttemptsOK'  BY AttemptsKept
<1>6. AskedOK'  BY AskedKept DEF NativeInv
<1>7. StoppedOK'  BY <1>1, StoppedKept DEF NativeInv
<1> QED  BY <1>2, <1>3, <1>4, <1>5, <1>6, <1>7 DEF NativeInv

LEMMA SameSessions ==
  ASSUME session' = session
  PROVE  KeepsSessions
BY DEF KeepsSessions

LEMMA SameStops ==
  ASSUME stop' = stop
  PROVE  StopsGoOn
BY DEF StopsGoOn

LEMMA SameExec ==
  ASSUME exec' = exec
  PROVE  ExecGoesOn
BY DEF ExecGoesOn

LEMMA SameRows ==
  ASSUME NativeInv, receipt' = receipt
  PROVE  RowsGoOn
BY DEF NativeInv, ClaimsOK, RowsGoOn, Mine

LEMMA IdledExec ==
  ASSUME Shape, NEW h \in Hosts, exec' = [exec EXCEPT ![h] = Idle]
  PROVE  ExecGoesOn
<1>1. exec'[h] = Idle /\ \A k \in Hosts : k # h => exec'[k] = exec[k]
  BY PutExec, IdleHost
<1>2. Idle.pc = "idle" /\ Idle.x = None  BY DEF Idle
<1>3. \A k \in Hosts : k = h => exec'[k].pc \in Free /\ exec'[k].x = None  BY <1>1, <1>2 DEF Free
<1> QED  BY <1>1, <1>3 DEF ExecGoesOn

LEMMA PutNoStopGoesOn ==
  ASSUME Shape, NEW h \in Hosts, stop' = [stop EXCEPT ![h] = NoStop]
  PROVE  StopsGoOn
BY DEF Shape, StopsGoOn

LEMMA NoneIsNoClaim ==
  \A k \in Hosts : <<k, "run">> # None /\ <<k, "stop">> # <<k, "run">>
BY TurnsAssumption

\* a row written without giving an attempt its claim
LEMMA RowPut ==
  ASSUME Shape, NativeInv, NEW r \in Receipts, NEW row,
         receipt' = [receipt EXCEPT ![r] = row],
         row.status = "completed" => row.claim = None,
         \A k \in Hosts : row.claim = <<k, "run">> => row.claim = receipt[r].claim
  PROVE  RowsGoOn
<1>1. receipt'[r] = row /\ \A o \in Receipts : o # r => receipt'[o] = receipt[o]
  BY DEF Shape, Tables
<1>2. ASSUME NEW o \in Receipts, NEW k \in Hosts, Mine(k, "run", o)'
      PROVE  Mine(k, "run", o)
  <2>1. receipt'[o].claim = <<k, "run">>  BY <1>2 DEF Mine
  <2>2. CASE o = r  BY <1>1, <2>1, <2>2 DEF Mine
  <2>3. CASE o # r  BY <1>1, <2>1, <2>3 DEF Mine
  <2> QED  BY <2>2, <2>3
<1>3. \A o \in Receipts : receipt'[o].status = "completed" => receipt'[o].claim = None
  BY <1>1 DEF NativeInv, ClaimsOK
<1> QED  BY <1>2, <1>3 DEF RowsGoOn

LEMMA ReleasedFields ==
  ASSUME NEW row \in ReceiptShape
  PROVE  /\ Released(row) \in ReceiptShape
         /\ Released(row).claim = None /\ Released(row).status = row.status
BY DEF Released, ReceiptShape

LEMMA UncertainFields ==
  ASSUME Shape, NEW h, NEW kind, NEW r \in Receipts
  PROVE  \/ Uncertain(h, kind, r) = receipt[r]
         \/ Uncertain(h, kind, r).claim = None
<1>1. receipt[r] \in ReceiptShape  BY DEF Shape, Tables
<1>2. /\ Released(receipt[r]) \in ReceiptShape
      /\ Released(receipt[r]).claim = None
  BY <1>1, ReleasedFields
<1> QED  BY <1>2 DEF Uncertain, ReceiptShape

LEMMA UncertainGoesOn ==
  ASSUME Shape, NativeInv, NEW h, NEW kind, NEW r \in Receipts,
         receipt' = [receipt EXCEPT ![r] = Uncertain(h, kind, r)]
  PROVE  RowsGoOn
<1> DEFINE row == Uncertain(h, kind, r)
<1>1. row = receipt[r] \/ row.claim = None  BY UncertainFields
<1>2. row.status = "completed" => row.claim = None
  BY <1>1 DEF NativeInv, ClaimsOK
<1>3. \A k \in Hosts : row.claim = <<k, "run">> => row.claim = receipt[r].claim
  BY <1>1, NoneIsNoClaim
<1> HIDE DEF row
<1> QED  BY <1>2, <1>3, RowPut DEF row

LEMMA NativeInit ==
  ASSUME Init
  PROVE  NativeInv
<1>1. \A h \in Hosts : exec[h] = Idle /\ stop[h] = NoStop  BY DEF Init
<1>2. \A h \in Hosts : exec[h].pc = "idle" /\ exec[h].x = None /\ stop[h].head = None
  BY <1>1 DEF Idle, NoStop
<1>3. \A x \in Sessions : session[x].parent = None  BY DEF Init
<1>4. \A r \in Receipts : receipt[r] = Fresh  BY DEF Init
<1>5. \A r \in Receipts : receipt[r].status = "absent"  BY <1>4 DEF Fresh
<1>6. Len(journal) = 0 /\ bound = None  BY EmptySeq DEF Init
<1>7. PlacedOK  BY <1>2, <1>6 DEF PlacedOK
<1>8. LineageOK /\ ClaimsOK  BY <1>3, <1>5 DEF LineageOK, ClaimsOK
<1>9. AttemptsOK  BY <1>2 DEF AttemptsOK, Writing
<1>10. AskedOK  BY <1>6 DEF AskedOK
<1>11. StoppedOK  BY <1>2 DEF StoppedOK
<1> QED  BY <1>7, <1>8, <1>9, <1>10, <1>11 DEF NativeInv

LEMMA HeldNative ==
  ASSUME Shape, TurnInv, NativeInv, NEW r \in Receipts,
         Renew(r) \/ LeaseExpires(r) \/ ToolCall(r)
  PROVE  NativeInv'
<1>1. PICK b \in BOOLEAN : receipt' = [receipt EXCEPT ![r].held = b]
  BY DEF Renew, LeaseExpires, ToolCall
<1>2. UNCHANGED <<bound, session, journal, exec, stop>>
  BY DEF Renew, LeaseExpires, ToolCall
<1> DEFINE row == [receipt[r] EXCEPT !.held = b]
<1>3. receipt[r] \in ReceiptShape  BY DEF Shape, Tables
<1>4. row.claim = receipt[r].claim /\ row.status = receipt[r].status
  BY <1>3 DEF ReceiptShape
<1>5. receipt' = [receipt EXCEPT ![r] = row]  BY <1>1 DEF Shape, Tables
<1> HIDE DEF row
<1>6. row.status = "completed" => row.claim = None  BY <1>4 DEF NativeInv, ClaimsOK
<1>7. RowsGoOn  BY <1>4, <1>5, <1>6, RowPut
<1>8. Shape' /\ TurnInv'  BY HeldStep
<1> QED  BY <1>2, <1>7, <1>8, SameSessions, SameJournal, SameExec, SameStops, NativeKept

LEMMA EnqueueNative ==
  ASSUME Shape, TurnInv, NativeInv, NEW r \in Receipts, Enqueue(r)
  PROVE  NativeInv'
<1> DEFINE row == [receipt[r] EXCEPT !.status = "queued", !.seq = Cardinality(Accepted) + 1]
<1>1. receipt[r] \in ReceiptShape  BY DEF Shape, Tables
<1>2. receipt' = [receipt EXCEPT ![r] = row]  BY DEF Enqueue, Shape, Tables
<1>3. row.status = "queued" /\ row.claim = receipt[r].claim  BY <1>1 DEF ReceiptShape
<1> HIDE DEF row
<1>4. RowsGoOn  BY <1>2, <1>3, RowPut
<1>5. UNCHANGED <<bound, session, journal, exec, stop>>  BY DEF Enqueue
<1>6. Shape' /\ TurnInv'  BY EnqueueStep
<1> QED  BY <1>4, <1>5, <1>6, SameSessions, SameJournal, SameExec, SameStops, NativeKept

LEMMA RecoverPreparationNative ==
  ASSUME Shape, TurnInv, NativeInv, NEW r \in Receipts, RecoverPreparation(r)
  PROVE  NativeInv'
<1> DEFINE row == [receipt[r] EXCEPT !.status = "queued", !.missing = FALSE]
<1>1. receipt[r] \in ReceiptShape  BY DEF Shape, Tables
<1>2. receipt' = [receipt EXCEPT ![r] = row]  BY DEF RecoverPreparation, Shape, Tables
<1>3. row.status = "queued" /\ row.claim = receipt[r].claim  BY <1>1 DEF ReceiptShape
<1> HIDE DEF row
<1>4. RowsGoOn  BY <1>2, <1>3, RowPut
<1>5. UNCHANGED <<bound, session, journal, exec, stop>>  BY DEF RecoverPreparation
<1>6. Shape' /\ TurnInv'  BY RecoverPreparationStep
<1> QED  BY <1>4, <1>5, <1>6, SameSessions, SameJournal, SameExec, SameStops, NativeKept

LEMMA BeginDeletionNative ==
  ASSUME Shape, TurnInv, NativeInv, BeginDeletion
  PROVE  NativeInv'
<1>1. UNCHANGED <<receipt, bound, session, journal, exec, stop>>  BY DEF BeginDeletion
<1>2. Shape' /\ TurnInv'  BY BeginDeletionStep
<1> QED
  BY <1>1, <1>2, SameRows, SameSessions, SameJournal, SameExec, SameStops, NativeKept

\* nothing is claimed yet, and nothing is held of any session
LEMMA ReadHeadNative ==
  ASSUME Shape, TurnInv, NativeInv, NEW h \in Hosts, ReadHead(h) \/ ClaimRefused(h)
  PROVE  NativeInv'
<1>1. UNCHANGED <<receipt, bound, session, journal, stop>>  BY DEF ReadHead, ClaimRefused
<1>2. Shape' /\ TurnInv'  BY ReadHeadStep, ClaimRefusedStep
<1>3. ExecGoesOn
  <2>1. CASE ReadHead(h)
    <3>1. /\ exec'[h].pc \in {"claim", "reclaim"}
          /\ \A k \in Hosts : k # h => exec'[k] = exec[k]
      BY <2>1, ReadHeadStep
    <3>2. exec'[h].x = None
      <4>1. PICK r \in HeadRow :
              exec' = [exec EXCEPT ![h] = [Idle EXCEPT
                !.pc = IF receipt[r].status \in {"sending", "uncertain"} THEN "reclaim"
                       ELSE "claim",
                !.head = r,
                !.rec = receipt[r].status # "queued" /\ receipt[r].session = None]]
        BY <2>1 DEF ReadHead
      <4>2. exec \in [Hosts -> ExecShape]  BY DEF Shape
      <4>3. \A p, b : [Idle EXCEPT !.pc = p, !.head = r, !.rec = b].x = None  BY DEF Idle
      <4> QED  BY <4>1, <4>2, <4>3
    <3> QED  BY <3>1, <3>2 DEF ExecGoesOn, Free
  <2>2. CASE ClaimRefused(h)  BY <2>2, IdledExec DEF ClaimRefused
  <2> QED  BY <2>1, <2>2
<1> QED  BY <1>1, <1>2, <1>3, SameRows, SameSessions, SameJournal, SameStops, NativeKept

\* whoever had the claim has it no longer
LEMMA ClaimNative ==
  ASSUME Shape, TurnInv, NativeInv, NEW h \in Hosts, Claim(h)
  PROVE  NativeInv'
<1> DEFINE r == exec[h].head
           row == [receipt[r] EXCEPT
             !.status = Prepared(receipt[r].status),
             !.claim = <<h, "run">>, !.held = TRUE, !.sender = None, !.missing = FALSE]
<1>1. /\ UNCHANGED <<bound, session, journal, stop>>
      /\ receipt' = [receipt EXCEPT ![r] = row]
      /\ exec[h].pc # "idle" /\ receipt[r].status \in Working
  BY DEF Claim, Claimable
<1>2. /\ Shape' /\ TurnInv'
      /\ \/ exec'[h] = [exec[h] EXCEPT !.pc = "recover"]
         \/ exec'[h] = [exec[h] EXCEPT !.pc = "binding"]
      /\ \A k \in Hosts : k # h => exec'[k] = exec[k]
  BY ClaimStep
<1>3. r \in Receipts  BY <1>1, HeadOf
<1>4. receipt[r] \in ReceiptShape  BY <1>3 DEF Shape, Tables
<1>5. row.claim = <<h, "run">> /\ row.status # "completed"
  BY <1>1, <1>4 DEF ReceiptShape, Prepared, Working
<1> HIDE DEF row, r
<1>6. receipt'[r] = row /\ \A o \in Receipts : o # r => receipt'[o] = receipt[o]
  BY <1>1, <1>3 DEF Shape, Tables
<1>7. exec[h] \in ExecShape  BY DEF Shape
<1>8. exec'[h].pc \in Free /\ exec'[h].x = exec[h].x  BY <1>2, <1>7 DEF ExecShape, Free
<1>9. ExecGoesOn  BY <1>2, <1>8 DEF ExecGoesOn
<1>10. RowsGoOn
  <2>1. ASSUME NEW o \in Receipts, NEW k \in Hosts, Mine(k, "run", o)'
        PROVE  Mine(k, "run", o) \/ exec'[k].pc \in Free
    <3>1. receipt'[o].claim = <<k, "run">>  BY <2>1 DEF Mine
    <3>2. CASE o = r
      <4>1. k = h  BY <1>5, <1>6, <3>1, <3>2
      <4> QED  BY <1>8, <4>1
    <3>3. CASE o # r  BY <1>6, <3>1, <3>3 DEF Mine
    <3> QED  BY <3>2, <3>3
  <2>2. \A o \in Receipts : receipt'[o].status = "completed" => receipt'[o].claim = None
    BY <1>5, <1>6 DEF NativeInv, ClaimsOK
  <2> QED  BY <2>1, <2>2 DEF RowsGoOn
<1> QED  BY <1>1, <1>2, <1>9, <1>10, SameSessions, SameJournal, SameStops, NativeKept

LEMMA ReadBindingNative ==
  ASSUME Shape, TurnInv, NativeInv, NEW h \in Hosts, ReadBinding(h)
  PROVE  NativeInv'
<1>1. UNCHANGED <<receipt, bound, session, journal, stop>>  BY DEF ReadBinding
<1>2. /\ Shape' /\ TurnInv'
      /\ exec'[h] = [exec[h] EXCEPT !.pc = "prepare", !.x = bound]
      /\ \A k \in Hosts : k # h => exec'[k] = exec[k]
  BY ReadBindingStep
<1>3. exec[h] \in ExecShape  BY DEF Shape
<1>4. exec'[h].pc = "prepare" /\ exec'[h].x = bound  BY <1>2, <1>3 DEF ExecShape
<1>5. ExecGoesOn  BY <1>2, <1>4 DEF ExecGoesOn
<1> QED  BY <1>1, <1>2, <1>5, SameRows, SameSessions, SameJournal, SameStops, NativeKept

\* the session that was read, or the child that continues it
LEMMA ReuseNative ==
  ASSUME Shape, TurnInv, NativeInv, NEW h \in Hosts, Reuse(h)
  PROVE  NativeInv'
<1>1. UNCHANGED <<receipt, bound, session, journal, stop>> /\ exec[h].pc = "prepare"
  BY DEF Reuse, At
<1>2. /\ Shape' /\ TurnInv'
      /\ \A k \in Hosts : k # h => exec'[k] = exec[k]
  BY ReuseStep
<1>3. exec[h] \in ExecShape  BY DEF Shape
<1>4. PICK c \in Candidates(h) :
        \/ /\ Live(h, c)
           /\ exec' = [exec EXCEPT ![h].pc = "bind", ![h].x = c]
        \/ \E y \in Children(c) : /\ Live(h, y)
                                  /\ exec' = [exec EXCEPT ![h].pc = "bind", ![h].x = y]
  BY DEF Reuse
<1>5. PICK x \in Children(c) \cup {c} :
        /\ Live(h, x)
        /\ exec' = [exec EXCEPT ![h].pc = "bind", ![h].x = x]
  BY <1>4
<1>6. exec'[h].pc = "bind" /\ exec'[h].x = x /\ exec'[h].head = exec[h].head
  BY <1>3, <1>5 DEF Shape, ExecShape
<1>7. session[x].state # "none"  BY <1>5 DEF Live
<1>8. exec[h].x # None => session[x].native = session[exec[h].x].native
  <2> SUFFICES ASSUME exec[h].x # None
               PROVE  session[x].native = session[c].native
    BY <1>4 DEF Candidates
  <2>1. c \in Sessions  BY <1>3, <1>4 DEF Candidates, ExecShape
  <2>2. c # None  BY <2>1, TurnsAssumption
  <2>3. CASE x = c  BY <2>3
  <2>4. CASE x \in Children(c)
    <3>1. x \in Sessions /\ session[x].parent = c  BY <2>4 DEF Children
    <3> QED  BY <2>2, <3>1 DEF NativeInv, LineageOK
  <2> QED  BY <1>5, <2>3, <2>4
<1>9. ExecGoesOn  BY <1>1, <1>2, <1>6, <1>7, <1>8 DEF ExecGoesOn
<1> QED  BY <1>1, <1>2, <1>9, SameRows, SameSessions, SameJournal, SameStops, NativeKept

LEMMA RecordNative ==
  ASSUME Shape, TurnInv, NativeInv, NEW h \in Hosts, Record(h)
  PROVE  NativeInv'
<1>1. /\ UNCHANGED <<receipt, bound, journal, stop>> /\ exec[h].pc = "launch"
      /\ session' = [session EXCEPT ![exec[h].x].recorded = TRUE]
  BY DEF Record, At
<1>2. /\ Shape' /\ TurnInv'
      /\ exec'[h] = [exec[h] EXCEPT !.pc = "bind"]
      /\ \A k \in Hosts : k # h => exec'[k] = exec[k]
  BY RecordStep
<1>3. exec[h].x \in Sessions  BY <1>1, AtSession DEF Free
<1>4. exec[h] \in ExecShape  BY DEF Shape
<1>5. exec'[h].pc = "bind" /\ exec'[h].x = exec[h].x /\ exec'[h].head = exec[h].head
  BY <1>2, <1>4 DEF ExecShape
<1>6. ExecGoesOn  BY <1>1, <1>2, <1>5 DEF ExecGoesOn
<1>7. KeepsSessions
  <2>1. \A y \in Sessions : session[y] \in SessionShape  BY DEF Shape
  <2>2. \A y \in Sessions :
          session'[y] = session[y] \/ session'[y] = [session[y] EXCEPT !.recorded = TRUE]
    BY <1>1, <1>3 DEF Shape
  <2>3. \A y \in Sessions : /\ session'[y].parent = session[y].parent
                            /\ session'[y].native = session[y].native
                            /\ session'[y].host = session[y].host
                            /\ session'[y].state = session[y].state
    BY <2>1, <2>2 DEF SessionShape
  <2> QED  BY <2>3 DEF KeepsSessions
<1> QED  BY <1>1, <1>2, <1>6, <1>7, SameRows, SameJournal, SameStops, NativeKept

LEMMA ReadyNative ==
  ASSUME Shape, TurnInv, NativeInv, NEW h \in Hosts, Ready(h)
  PROVE  NativeInv'
<1>1. UNCHANGED <<receipt, bound, session, journal, stop>> /\ exec[h].pc = "ready"
  BY DEF Ready, At
<1>2. /\ Shape' /\ TurnInv'
      /\ exec'[h].pc = "mark" /\ exec'[h].x = exec[h].x
      /\ \A k \in Hosts : k # h => exec'[k] = exec[k]
  BY ReadyStep
<1>3. ExecGoesOn  BY <1>1, <1>2 DEF ExecGoesOn, Writing
<1> QED  BY <1>1, <1>2, <1>3, SameRows, SameSessions, SameJournal, SameStops, NativeKept

LEMMA MarkSendingNative ==
  ASSUME Shape, TurnInv, NativeInv, NEW h \in Hosts, MarkSending(h)
  PROVE  NativeInv'
<1> DEFINE r == exec[h].head
           row == [receipt[r] EXCEPT !.status = "sending", !.mark = exec[h].mark,
                                     !.sender = <<h, "run">>, !.held = TRUE]
<1>1. /\ UNCHANGED <<bound, session, journal, stop>> /\ exec[h].pc = "mark"
      /\ receipt' = [receipt EXCEPT ![r] = row]
  BY DEF MarkSending, At
<1>2. /\ Shape' /\ TurnInv'
      /\ exec'[h] = [exec[h] EXCEPT !.pc = "submit"]
      /\ \A k \in Hosts : k # h => exec'[k] = exec[k]
  BY MarkSendingStep
<1>3. exec[h] \in ExecShape  BY DEF Shape
<1>4. exec'[h].pc = "submit" /\ exec'[h].x = exec[h].x  BY <1>2, <1>3 DEF ExecShape
<1>5. ExecGoesOn  BY <1>1, <1>2, <1>4 DEF ExecGoesOn, Writing
<1>6. r \in Receipts  BY <1>1, HeadOf
<1>7. receipt[r] \in ReceiptShape  BY <1>6 DEF Shape, Tables
<1>8. row.status = "sending" /\ row.claim = receipt[r].claim  BY <1>7 DEF ReceiptShape
<1> HIDE DEF row, r
<1>9. RowsGoOn  BY <1>1, <1>6, <1>8, RowPut
<1> QED  BY <1>1, <1>2, <1>5, <1>9, SameSessions, SameJournal, SameStops, NativeKept

LEMMA CompletionNative ==
  ASSUME Shape, TurnInv, NativeInv, NEW h \in Hosts, TurnCompleted(h) \/ RecoverFromTranscript(h)
  PROVE  NativeInv'
<1>1. PICK i \in 1 .. Len(journal) : exec[h].pc \in {"sent", "recover"} /\ Complete(h, i)
  BY CompletesOwn
<1>2. UNCHANGED <<bound, session, journal, stop>> /\ exec' = [exec EXCEPT ![h] = Idle]
  BY <1>1 DEF Complete
<1>3. Shape' /\ TurnInv'  BY CompletionStep
<1> DEFINE r == exec[h].head
           row == [Released(receipt[r]) EXCEPT !.status = "completed", !.reply = i]
<1>4. r \in Receipts  BY <1>1, HeadOf
<1>5. RowsGoOn
  <2>1. CASE receipt' = [receipt EXCEPT ![r] = Uncertain(h, "run", r)]
    BY <1>4, <2>1, UncertainGoesOn
  <2>2. CASE receipt' = [receipt EXCEPT ![r] = row]
    <3>1. receipt[r] \in ReceiptShape  BY <1>4 DEF Shape, Tables
    <3>2. Released(receipt[r]) \in ReceiptShape /\ Released(receipt[r]).claim = None
      BY <3>1, ReleasedFields
    <3>3. row.claim = None  BY <3>2 DEF ReceiptShape
    <3> HIDE DEF row, r
    <3>4. \A k \in Hosts : row.claim = <<k, "run">> => row.claim = receipt[r].claim
      BY <3>3, NoneIsNoClaim
    <3> QED  BY <1>4, <2>2, <3>3, <3>4, RowPut
  <2> QED  BY <1>1, <2>1, <2>2 DEF Complete
<1>6. ExecGoesOn  BY <1>2, IdledExec
<1> QED  BY <1>2, <1>3, <1>5, <1>6, SameSessions, SameJournal, SameStops, NativeKept

LEMMA FailsNative ==
  ASSUME Shape, TurnInv, NativeInv, NEW h \in Hosts, Fails(h) \/ BoundSessionMissing(h)
  PROVE  NativeInv'
<1> DEFINE r == exec[h].head
           old == Uncertain(h, "run", r)
           row == [old EXCEPT !.missing = IF Mine(h, "run", r) THEN TRUE ELSE @]
<1>1. /\ UNCHANGED <<bound, session, journal, stop>>
      /\ exec' = [exec EXCEPT ![h] = Idle]
      /\ exec[h].pc # "idle"
  BY DEF Fails, Claimed, BoundSessionMissing, At
<1>2. Shape' /\ TurnInv'  BY FailsStep
<1>3. r \in Receipts  BY <1>1, HeadOf
<1>4. RowsGoOn
  <2>1. CASE Fails(h)
    <3>1. receipt' = [receipt EXCEPT ![r] = old]  BY <2>1 DEF Fails
    <3> QED  BY <1>3, <3>1, UncertainGoesOn
  <2>2. CASE BoundSessionMissing(h)
    <3>1. receipt' = [receipt EXCEPT ![r] = row]  BY <2>2 DEF BoundSessionMissing
    <3>2. old \in ReceiptShape /\ (old = receipt[r] \/ old.claim = None)
      BY <1>3, UncertainRow, UncertainFields
    <3> HIDE DEF old
    <3>3. row.claim = old.claim /\ row.status = old.status  BY <3>2 DEF ReceiptShape
    <3> HIDE DEF row, r
    <3>4. row.status = "completed" => row.claim = None
      BY <1>3, <3>2, <3>3 DEF NativeInv, ClaimsOK
    <3>5. \A k \in Hosts : row.claim = <<k, "run">> => row.claim = receipt[r].claim
      BY <3>2, <3>3, NoneIsNoClaim
    <3> QED  BY <1>3, <3>1, <3>4, <3>5, RowPut
  <2> QED  BY <2>1, <2>2
<1>5. ExecGoesOn  BY <1>1, IdledExec
<1> QED  BY <1>1, <1>2, <1>4, <1>5, SameSessions, SameJournal, SameStops, NativeKept

LEMMA StopFailsNative ==
  ASSUME Shape, TurnInv, NativeInv, NEW h \in Hosts, StopFails(h)
  PROVE  NativeInv'
<1>1. /\ UNCHANGED <<bound, retired, deleted, session, journal, exec, crashes>>
      /\ stop' = [stop EXCEPT ![h] = NoStop]
      /\ stop[h].head # None
      /\ receipt' = [receipt EXCEPT ![stop[h].head] = Uncertain(h, "stop", stop[h].head)]
  BY DEF StopFails
<1>2. stop[h].head \in Receipts  BY <1>1 DEF Shape, StopShape
<1>3. Shape' /\ TurnInv'  BY <1>1, <1>2, StopFailsStep
<1>4. RowsGoOn  BY <1>1, <1>2, UncertainGoesOn
<1>5. StopsGoOn  BY <1>1, PutNoStopGoesOn
<1> QED  BY <1>1, <1>3, <1>4, <1>5, SameSessions, SameJournal, SameExec, NativeKept

LEMMA AbandonCommitsNative ==
  ASSUME Shape, TurnInv, NativeInv, NEW h \in Hosts, AbandonCommits(h)
  PROVE  NativeInv'
<1> DEFINE r == stop[h].head
           Up(o) == [Released(receipt[o]) EXCEPT !.status = "abandoned"]
<1>1. /\ UNCHANGED <<bound, session, journal, exec>>
      /\ stop' = [stop EXCEPT ![h] = NoStop]
      /\ r # None
  BY DEF AbandonCommits, Abandon
<1>2. Shape' /\ TurnInv'  BY AbandonCommitsStep
<1>3. r \in Receipts  BY <1>1 DEF Shape, StopShape
<1>4. RowsGoOn
  <2>1. CASE receipt' = [receipt EXCEPT ![r] = Uncertain(h, "stop", r)]
    BY <1>3, <2>1, UncertainGoesOn
  <2>2. CASE receipt' = [o \in Receipts |-> IF receipt[o].status \in Working THEN Up(o)
                                            ELSE receipt[o]]
    <3>1. ASSUME NEW o \in Receipts
          PROVE  receipt'[o] = receipt[o] \/ receipt'[o].claim = None
      <4>1. receipt[o] \in ReceiptShape  BY DEF Shape, Tables
      <4>2. Released(receipt[o]) \in ReceiptShape /\ Released(receipt[o]).claim = None
        BY <4>1, ReleasedFields
      <4>3. Up(o).claim = None  BY <4>2 DEF ReceiptShape
      <4> HIDE DEF Up
      <4> QED  BY <2>2, <4>3
    <3>2. ASSUME NEW o \in Receipts, NEW k \in Hosts, Mine(k, "run", o)'
          PROVE  Mine(k, "run", o)
      <4>1. receipt'[o].claim = <<k, "run">>  BY <3>2 DEF Mine
      <4>2. receipt'[o].claim # None  BY <4>1, NoneIsNoClaim
      <4> QED  BY <3>1, <4>1, <4>2 DEF Mine
    <3>3. \A o \in Receipts : receipt'[o].status = "completed" => receipt'[o].claim = None
      BY <3>1 DEF NativeInv, ClaimsOK
    <3> QED  BY <3>2, <3>3 DEF RowsGoOn
  <2> QED  BY <2>1, <2>2 DEF AbandonCommits, Abandon
<1>5. StopsGoOn  BY <1>1, PutNoStopGoesOn
<1> QED  BY <1>1, <1>2, <1>4, <1>5, SameSessions, SameJournal, SameExec, NativeKept

LEMMA SessionNative ==
  ASSUME Shape, TurnInv, NativeInv, Shape', TurnInv', NEW x \in Sessions,
         session[x].state = "live",
         \/ session' = [session EXCEPT ![x].state = "stopped", ![x].recorded = TRUE]
         \/ session' = [session EXCEPT ![x].state = "stopped"],
         journal' = Interrupted({x}),
         UNCHANGED <<receipt, bound, exec, stop>>
  PROVE  NativeInv'
<1>1. \A y \in Sessions : /\ session'[y].parent = session[y].parent
                          /\ session'[y].native = session[y].native
                          /\ session'[y].host = session[y].host
                          /\ session'[y].state = IF y = x THEN "stopped" ELSE session[y].state
  BY StoppedShape
<1>2. KeepsSessions  BY <1>1 DEF KeepsSessions
<1>3. SameTurns(journal, journal')  BY InterruptedTurns
<1> QED  BY <1>2, <1>3, SameRows, SameExec, SameStops, NativeKept

LEMMA StopSessionNative ==
  ASSUME Shape, TurnInv, NativeInv, NEW h \in Hosts, StopSession(h)
  PROVE  NativeInv'
<1>1. PICK x \in stop[h].left :
        /\ Live(h, x)
        /\ session' = [session EXCEPT ![x].state = "stopped", ![x].recorded = TRUE]
        /\ journal' = Interrupted({x})
  BY DEF StopSession
<1>2. x \in Sessions  BY DEF Shape, StopShape
<1>3. session[x].state = "live"  BY <1>1 DEF Live
<1>4. UNCHANGED <<receipt, bound, exec, stop>>  BY DEF StopSession
<1>5. Shape' /\ TurnInv'  BY StopSessionStep
<1> QED  BY <1>1, <1>2, <1>3, <1>4, <1>5, SessionNative

LEMMA SessionStopsNative ==
  ASSUME Shape, TurnInv, NativeInv, SessionStops
  PROVE  NativeInv'
<1>1. PICK x \in Sessions :
        /\ session[x].state = "live"
        /\ session' = [session EXCEPT ![x].state = "stopped"]
        /\ journal' = Interrupted({x})
  BY DEF SessionStops
<1>2. UNCHANGED <<receipt, bound, exec, stop>>  BY DEF SessionStops
<1>3. Shape' /\ TurnInv'  BY SessionStopsStep
<1> QED  BY <1>1, <1>2, <1>3, SessionNative

LEMMA TurnEndsNative ==
  ASSUME Shape, TurnInv, NativeInv, TurnEnds
  PROVE  NativeInv'
<1>1. UNCHANGED <<receipt, bound, session, exec, stop>>  BY DEF TurnEnds
<1>2. SameTurns(journal, journal')  BY TurnEndsTurns
<1>3. Shape' /\ TurnInv'  BY TurnEndsStep
<1> QED  BY <1>1, <1>2, <1>3, SameRows, SameSessions, SameExec, SameStops, NativeKept

LEMMA CrashNative ==
  ASSUME Shape, TurnInv, NativeInv, NEW h \in Hosts, Crash(h)
  PROVE  NativeInv'
<1>1. /\ UNCHANGED <<receipt, bound, journal>>
      /\ exec' = [exec EXCEPT ![h] = Idle]
      /\ stop' = [stop EXCEPT ![h] = NoStop]
  BY DEF Crash
<1>2. /\ Shape' /\ TurnInv'
      /\ \A y \in Sessions : /\ session'[y].parent = session[y].parent
                             /\ session'[y].native = session[y].native
                             /\ session'[y].host = session[y].host
                             /\ session'[y].state = IF Live(h, y) THEN "stopped"
                                                    ELSE session[y].state
  BY CrashStep
<1>3. KeepsSessions  BY <1>2 DEF KeepsSessions, Live
<1>4. ExecGoesOn  BY <1>1, IdledExec
<1>5. StopsGoOn  BY <1>1, PutNoStopGoesOn
<1> QED  BY <1>1, <1>2, <1>3, <1>4, <1>5, SameRows, SameJournal, NativeKept

\* a new session continues what the attempt read, and nobody is in it yet
LEMMA LaunchNative ==
  ASSUME Shape, TurnInv, NativeInv, NEW h \in Hosts, Launch(h)
  PROVE  NativeInv'
<1>1. UNCHANGED <<receipt, bound, journal, stop>> /\ exec[h].pc = "prepare"
  BY DEF Launch, At
<1>2. /\ Shape' /\ TurnInv'
      /\ \A k \in Hosts : k # h => exec'[k] = exec[k]
  BY LaunchStep
<1> DEFINE Row(z) == [state |-> "live", host |-> h, parent |-> exec[h].x,
                      native |-> NativeFor(h, z), recorded |-> FALSE]
<1>3. PICK y \in Sessions : /\ session[y].state = "none"
                            /\ session' = [session EXCEPT ![y] = Row(y)]
                            /\ exec'[h] = [exec[h] EXCEPT !.pc = "launch", !.x = y]
  BY LaunchStep
<1> DEFINE row == Row(y)
<1>4. exec[h] \in ExecShape  BY DEF Shape
<1>5. exec'[h].pc = "launch" /\ exec'[h].x = y /\ exec'[h].head = exec[h].head
  BY <1>3, <1>4 DEF ExecShape
<1>6. /\ row.state = "live" /\ row.parent = exec[h].x
      /\ exec[h].x # None => row.native = session[exec[h].x].native
  BY DEF NativeFor
<1> HIDE DEF row, Row
<1>7. session'[y] = row /\ \A z \in Sessions : z # y => session'[z] = session[z]
  BY <1>3 DEF Shape, row
<1>8. \A z \in Sessions : session[z].state # "none" => z # y /\ session'[z] = session[z]
  BY <1>3, <1>7
<1>9. /\ bound \in Sessions \cup {None}
      /\ bound # None => session[bound].state # "none" /\ session'[bound] = session[bound]
  BY <1>8 DEF NativeInv, PlacedOK, Shape
<1>10. \A k \in Hosts : exec[k].x # None =>
         /\ exec[k].x \in Sessions
         /\ session[exec[k].x].state # "none"
         /\ session'[exec[k].x] = session[exec[k].x]
  BY <1>8 DEF NativeInv, PlacedOK, Shape, ExecShape
<1>11. \A i \in 1 .. Len(journal) :
         /\ session[journal[i].session].state # "none"
         /\ journal[i].session # y
         /\ session'[journal[i].session] = session[journal[i].session]
  <2>1. \A i \in 1 .. Len(journal) : journal[i].session \in Sessions
    BY TurnFields DEF Shape
  <2> QED  BY <1>8, <2>1 DEF NativeInv, PlacedOK
<1>12. PlacedOK'
  <2>1. ASSUME NEW k \in Hosts, exec'[k].x # None
        PROVE  session'[exec'[k].x].state # "none"
    <3>1. CASE k = h  BY <1>5, <1>6, <1>7, <3>1
    <3>2. CASE k # h  BY <1>2, <1>10, <2>1, <3>2
    <3> QED  BY <3>1, <3>2
  <2> QED  BY <1>1, <1>9, <1>11, <2>1 DEF PlacedOK
<1>13. LineageOK'
  <2> SUFFICES ASSUME NEW x \in Sessions, session'[x].parent # None
               PROVE  /\ session'[session'[x].parent].state # "none"
                      /\ session'[x].native = session'[session'[x].parent].native
    BY DEF LineageOK
  <2>1. CASE x = y
    <3>1. session'[x].parent = exec[h].x  BY <1>6, <1>7, <2>1
    <3> QED  BY <1>6, <1>7, <1>10, <2>1, <3>1
  <2>2. CASE x # y
    <3>1. session'[x] = session[x]  BY <1>7, <2>2
    <3>2. session[x] \in SessionShape  BY DEF Shape
    <3>3. session[x].parent \in Sessions  BY <3>1, <3>2 DEF SessionShape
    <3>4. /\ session[session[x].parent].state # "none"
          /\ session[x].native = session[session[x].parent].native
      BY <3>1 DEF NativeInv, LineageOK
    <3> QED  BY <1>8, <3>1, <3>3, <3>4
  <2> QED  BY <2>1, <2>2
<1>14. AttemptsOK'
  <2> SUFFICES ASSUME NEW k \in Hosts
               PROVE  /\ exec'[k].pc = "prepare" /\ Mine(k, "run", exec[k].head)'
                           => exec'[k].x = bound
                      /\ exec'[k].pc \in {"launch", "bind"} /\ Mine(k, "run", exec[k].head)'
                           => bound = None \/ BoundNative(exec[k].x)'
                      /\ exec'[k].pc \in Writing => BoundNative(exec[k].x)'
    BY <1>1 DEF AttemptsOK
  <2>1. CASE k = h
    <3>1. Mine(k, "run", exec[k].head)' => Mine(h, "run", exec[h].head)
      BY <1>1, <1>5, <2>1 DEF Mine
    <3>2. Mine(h, "run", exec[h].head) => exec[h].x = bound
      BY <1>1 DEF NativeInv, AttemptsOK
    <3>3. exec[h].x = bound => bound = None \/ BoundNative(exec[h].x)'
      BY <1>1, <1>5, <1>6, <1>7, <1>9 DEF BoundNative
    <3> QED  BY <1>5, <2>1, <3>1, <3>2, <3>3 DEF Writing
  <2>2. CASE k # h
    <3>1. exec'[k] = exec[k]  BY <1>2, <2>2
    <3>2. Mine(k, "run", exec[k].head)' <=> Mine(k, "run", exec[k].head)
      BY <1>1, <3>1 DEF Mine
    <3>3. exec[k].x # None /\ BoundNative(exec[k].x) => BoundNative(exec[k].x)'
      BY <1>1, <1>9, <1>10, <3>1 DEF BoundNative
    <3>4. exec[k].pc \in {"launch", "bind"} \cup Writing => exec[k].x # None
      BY AtSession DEF Free, Writing
    <3> QED  BY <3>1, <3>2, <3>3, <3>4 DEF NativeInv, AttemptsOK
  <2> QED  BY <2>1, <2>2
<1>15. AskedOK'  BY <1>1, <1>9, <1>11 DEF NativeInv, AskedOK, BoundNative
<1>16. ClaimsOK'  BY <1>1 DEF NativeInv, ClaimsOK
<1>17. StoppedOK'
  <2> SUFFICES ASSUME NEW k \in Hosts, stop[k].head # None,
                      NEW x \in Sessions, Live(k, x)', x \notin stop[k].left
               PROVE  /\ ~Running(x)'
                      /\ \A m \in Hosts : exec'[m].pc \in Writing => exec'[m].x # x
    BY <1>1 DEF StoppedOK
  <2>1. \A m \in Hosts : exec'[m].pc \in Writing => exec'[m] = exec[m]
    BY <1>2, <1>5 DEF Writing
  <2>2. CASE x = y
    <3>1. \A m \in Hosts : exec[m].pc \in Writing => exec[m].x # y
      <4>1. \A m \in Hosts : exec[m].pc \in Writing => exec[m].x # None
        BY AtSession DEF Free, Writing
      <4> QED  BY <1>3, <1>10, <4>1
    <3>2. DOMAIN journal = 1 .. Len(journal)  BY LenProperties DEF Shape
    <3>3. ~Running(y)'  BY <1>1, <1>11, <3>2 DEF Running
    <3> QED  BY <2>1, <2>2, <3>1, <3>3
  <2>3. CASE x # y
    <3>1. Live(k, x)  BY <1>7, <2>3 DEF Live
    <3>2. ~Running(x) /\ \A m \in Hosts : exec[m].pc \in Writing => exec[m].x # x
      BY <3>1 DEF NativeInv, StoppedOK
    <3>3. ~Running(x)'  BY <1>1, <3>2 DEF Running
    <3> QED  BY <2>1, <3>2, <3>3
  <2> QED  BY <2>2, <2>3
<1> QED  BY <1>12, <1>13, <1>14, <1>15, <1>16, <1>17 DEF NativeInv

\* A prompt in preparation is claimed by one attempt, so no other that still has
\* a claim can be between the binding it read and its own bind(); and it means
\* that no abandonment is under way.
LEMMA BindNative ==
  ASSUME Shape, TurnInv, NativeInv, NEW h \in Hosts, Bind(h)
  PROVE  NativeInv'
<1> DEFINE r == exec[h].head
           row == [receipt[r] EXCEPT !.session = exec[h].x]
<1>1. /\ UNCHANGED <<session, journal, stop>>
      /\ exec[h].pc = "bind" /\ bound' = exec[h].x
      /\ receipt[r].status = "preparing" /\ Mine(h, "run", r)
  BY DEF Bind, At
<1>2. /\ Shape' /\ TurnInv'
      /\ exec'[h] = [exec[h] EXCEPT !.pc = "ready"]
      /\ \A k \in Hosts : k # h => exec'[k] = exec[k]
  BY BindStep
<1>3. exec[h].x \in Sessions /\ exec[h].x # None  BY <1>1, AtSession DEF Free
<1>4. exec[h] \in ExecShape  BY DEF Shape
<1>5. exec'[h].pc = "ready" /\ exec'[h].x = exec[h].x /\ exec'[h].head = r
  BY <1>2, <1>4 DEF ExecShape
<1>6. r \in Receipts /\ Front(receipt, r)  BY <1>1, HeadOf
<1>7. receipt \in Tables /\ SeqOK(receipt) /\ receipt[r] \in ReceiptShape
  BY <1>6 DEF Shape, Tables, TurnInv, QueueInv, RowsInv
<1>8. receipt' = [receipt EXCEPT ![r] = row]  BY <1>6 DEF Bind, Shape, Tables
<1>9. row.claim = receipt[r].claim /\ row.status = receipt[r].status
  BY <1>7 DEF ReceiptShape
<1> HIDE DEF row
<1>10. \A o \in Receipts : receipt'[o].claim = receipt[o].claim
                           /\ receipt'[o].status = receipt[o].status
  BY <1>6, <1>8, <1>9 DEF Shape, Tables
<1>11. \A x \in Sessions : BoundNative(x) => BoundNative(x)'
  <2>1. bound = None \/ BoundNative(exec[h].x)  BY <1>1 DEF NativeInv, AttemptsOK
  <2> QED  BY <1>1, <1>3, <2>1 DEF BoundNative
<1>12. PlacedOK'
  <2>1. \A k \in Hosts : exec'[k].x = exec[k].x  BY <1>2, <1>5
  <2> QED  BY <1>1, <1>3, <2>1 DEF NativeInv, PlacedOK
<1>13. LineageOK' /\ ClaimsOK'  BY <1>1, <1>10 DEF NativeInv, LineageOK, ClaimsOK
<1>14. ASSUME NEW k \in Hosts, k # h, exec[k].pc \in {"prepare", "launch", "bind"}
       PROVE  ~Mine(k, "run", exec[k].head)
  <2> SUFFICES ASSUME Mine(k, "run", exec[k].head)
               PROVE  FALSE
    OBVIOUS
  <2>1. exec[k].head \in Receipts /\ Front(receipt, exec[k].head)  BY <1>14, HeadOf
  <2>2. receipt[exec[k].head].status # "completed"
    <3>1. receipt[exec[k].head].claim # None  BY NoneIsNoClaim DEF Mine
    <3> QED  BY <2>1, <3>1 DEF NativeInv, ClaimsOK
  <2>3. exec[k].head = r  BY <1>1, <1>6, <1>7, <2>1, <2>2, FrontIsOne
  <2>4. <<k, "run">> = <<h, "run">>  BY <1>1, <2>3 DEF Mine
  <2> QED  BY <1>14, <2>4
<1>15. AttemptsOK'
  <2> SUFFICES ASSUME NEW k \in Hosts
               PROVE  /\ exec'[k].pc = "prepare" /\ Mine(k, "run", exec[k].head)'
                           => exec'[k].x = bound'
                      /\ exec'[k].pc \in {"launch", "bind"} /\ Mine(k, "run", exec[k].head)'
                           => bound' = None \/ BoundNative(exec[k].x)'
                      /\ exec'[k].pc \in Writing => BoundNative(exec[k].x)'
    BY DEF AttemptsOK
  <2>1. CASE k = h
    <3>1. BoundNative(exec[h].x)'  BY <1>1, <1>3, <1>5 DEF BoundNative
    <3> QED  BY <1>5, <2>1, <3>1
  <2>2. CASE k # h
    <3>1. exec'[k] = exec[k]  BY <1>2, <2>2
    <3>2. exec[k].pc # "idle" => exec[k].head \in Receipts  BY HeadOf
    <3>3. exec[k].pc \in {"prepare", "launch", "bind"} => ~Mine(k, "run", exec[k].head)'
      BY <1>10, <1>14, <2>2, <3>1, <3>2 DEF Mine
    <3>4. exec[k].pc \in Writing => exec[k].x \in Sessions /\ BoundNative(exec[k].x)
      BY AtSession DEF Free, Writing, NativeInv, AttemptsOK
    <3>5. exec[k].pc \in Writing => BoundNative(exec[k].x)'
      BY <1>11, <3>1, <3>4 DEF BoundNative
    <3> QED  BY <3>1, <3>3, <3>5
  <2> QED  BY <2>1, <2>2
<1>16. AskedOK'
  <2>1. \A i \in 1 .. Len(journal) : journal[i].session \in Sessions
    BY TurnFields DEF Shape
  <2> QED  BY <1>1, <1>11, <2>1 DEF NativeInv, AskedOK, BoundNative
<1>17. StoppedOK'
  <2>1. r \in Unsettled(receipt)  BY <1>1, <1>6 DEF Unsettled, Working
  <2>2. ~Stopping(receipt)
    <3> SUFFICES ASSUME NEW o \in Receipts, receipt[o].status = "abandoning", Front(receipt, o)
                 PROVE  FALSE
      BY DEF Stopping
    <3>1. o = r  BY <1>1, <1>6, <1>7, FrontIsOne
    <3> QED  BY <1>1, <3>1
  <2>3. ~retired  BY <2>1, <2>2 DEF TurnInv, QueueInv, RetiredOK
  <2>4. \A k \in Hosts : stop[k].head = None  BY <2>3 DEF TurnInv, StopsRetire
  <2> QED  BY <1>1, <2>4 DEF StoppedOK
<1> QED  BY <1>12, <1>13, <1>15, <1>16, <1>17 DEF NativeInv

LEMMA SubmitNative ==
  ASSUME Shape, TurnInv, NativeInv, NEW h \in Hosts, Submit(h)
  PROVE  NativeInv'
<1> DEFINE turn == [turn |-> exec[h].head, session |-> exec[h].x, state |-> "running"]
<1>1. /\ UNCHANGED <<receipt, bound, session, stop>>
      /\ exec[h].pc = "submit" /\ journal' = Append(journal, turn)
  BY DEF Submit, At
<1>2. /\ Shape' /\ TurnInv'
      /\ exec'[h].pc = "sent" /\ exec'[h].x = exec[h].x
      /\ \A k \in Hosts : k # h => exec'[k] = exec[k]
      /\ exec[h].head \in Receipts /\ exec[h].x \in Sessions
  BY SubmitStep
<1>3. turn \in TurnShape /\ turn.session = exec[h].x  BY <1>2 DEF TurnShape
<1> HIDE DEF turn
<1>4. /\ journal \in Seq(TurnShape) /\ journal' \in Seq(TurnShape)
      /\ Len(journal) \in Nat
      /\ Len(journal') = Len(journal) + 1
      /\ \A i \in 1 .. Len(journal) : journal'[i] = journal[i]
      /\ journal'[Len(journal) + 1] = turn
      /\ DOMAIN journal = 1 .. Len(journal) /\ DOMAIN journal' = 1 .. Len(journal')
  BY <1>1, <1>2, <1>3, LenProperties, AppendProperties DEF Shape
<1>5. \A i \in 1 .. Len(journal') : \/ i \in 1 .. Len(journal) /\ journal'[i] = journal[i]
                                    \/ journal'[i] = turn
  BY <1>4
<1>6. exec[h].x # None  BY <1>2, TurnsAssumption
<1>7. PlacedOK'
  <2>1. session[exec[h].x].state # "none"  BY <1>6 DEF NativeInv, PlacedOK
  <2>2. \A i \in 1 .. Len(journal') : session[journal'[i].session].state # "none"
    BY <1>3, <1>5, <2>1 DEF NativeInv, PlacedOK
  <2>3. \A k \in Hosts : exec'[k].x = exec[k].x  BY <1>2
  <2> QED  BY <1>1, <2>2, <2>3 DEF NativeInv, PlacedOK
<1>8. LineageOK' /\ ClaimsOK'  BY <1>1 DEF NativeInv, LineageOK, ClaimsOK
<1>9. AttemptsOK'
  <2> SUFFICES ASSUME NEW k \in Hosts
               PROVE  /\ exec'[k].pc = "prepare" /\ Mine(k, "run", exec[k].head)'
                           => exec'[k].x = bound
                      /\ exec'[k].pc \in {"launch", "bind"} /\ Mine(k, "run", exec[k].head)'
                           => bound = None \/ BoundNative(exec[k].x)'
                      /\ exec'[k].pc \in Writing => BoundNative(exec[k].x)'
    BY <1>1 DEF AttemptsOK
  <2>1. CASE k = h  BY <1>2, <2>1 DEF Writing
  <2>2. CASE k # h
    <3>1. exec'[k] = exec[k]  BY <1>2, <2>2
    <3>2. Mine(k, "run", exec[k].head)' <=> Mine(k, "run", exec[k].head)
      BY <1>1, <3>1 DEF Mine
    <3>3. BoundNative(exec[k].x)' <=> BoundNative(exec[k].x)  BY <1>1, <3>1 DEF BoundNative
    <3> QED  BY <3>1, <3>2, <3>3 DEF NativeInv, AttemptsOK
  <2> QED  BY <2>1, <2>2
<1>10. AskedOK'
  <2>1. BoundNative(exec[h].x)  BY <1>1 DEF NativeInv, AttemptsOK, Writing
  <2>2. \A i \in 1 .. Len(journal') : BoundNative(journal'[i].session)
    BY <1>3, <1>5, <2>1 DEF NativeInv, AskedOK
  <2> QED  BY <1>1, <2>2 DEF AskedOK, BoundNative
<1>11. StoppedOK'
  <2> SUFFICES ASSUME NEW k \in Hosts, stop[k].head # None,
                      NEW x \in Sessions, Live(k, x), x \notin stop[k].left
               PROVE  /\ ~Running(x)'
                      /\ \A m \in Hosts : exec'[m].pc \in Writing => exec'[m].x # x
    BY <1>1 DEF StoppedOK, Live
  <2>1. ~Running(x) /\ \A m \in Hosts : exec[m].pc \in Writing => exec[m].x # x
    BY DEF NativeInv, StoppedOK
  <2>2. exec[h].x # x  BY <1>1, <2>1 DEF Writing
  <2>3. ~Running(x)'  BY <1>3, <1>4, <1>5, <2>1, <2>2 DEF Running
  <2>4. \A m \in Hosts : exec'[m].pc \in Writing => exec'[m] = exec[m]  BY <1>2 DEF Writing
  <2> QED  BY <2>1, <2>3, <2>4
<1> QED  BY <1>7, <1>8, <1>9, <1>10, <1>11 DEF NativeInv

LEMMA AbandonBeginsNative ==
  ASSUME Shape, TurnInv, NativeInv, NEW h \in Hosts, AbandonBegins(h)
  PROVE  NativeInv'
<1>1. UNCHANGED <<bound, session, journal, exec>>  BY DEF AbandonBegins
<1>2. PICK r \in HeadRow :
        /\ receipt' = [receipt EXCEPT ![r] = [@ EXCEPT
             !.status = "abandoning", !.claim = <<h, "stop">>, !.held = TRUE, !.sender = None]]
        /\ stop' = [stop EXCEPT ![h] = [head |-> r, left |-> {x \in Sessions : Live(h, x)}]]
  BY DEF AbandonBegins
<1> DEFINE row == [receipt[r] EXCEPT
             !.status = "abandoning", !.claim = <<h, "stop">>, !.held = TRUE, !.sender = None]
<1>3. r \in Receipts  BY DEF HeadRow
<1>4. receipt[r] \in ReceiptShape  BY <1>3 DEF Shape, Tables
<1>5. row.status = "abandoning" /\ row.claim = <<h, "stop">>  BY <1>4 DEF ReceiptShape
<1>6. receipt' = [receipt EXCEPT ![r] = row]  BY <1>2
<1> HIDE DEF row
<1>7. \A k \in Hosts : row.claim # <<k, "run">>  BY <1>5
<1>8. RowsGoOn  BY <1>3, <1>5, <1>6, <1>7, RowPut
<1>9. Shape' /\ TurnInv'  BY AbandonBeginsStep
<1>10. PlacedOK' /\ LineageOK' /\ AskedOK'
  BY <1>1 DEF NativeInv, PlacedOK, LineageOK, AskedOK, BoundNative
<1>11. ClaimsOK'  BY <1>8 DEF RowsGoOn, ClaimsOK
<1>12. AttemptsOK'
  BY <1>1, <1>8, <1>9, SameSessions, SameExec, AttemptsKept
<1>13. StoppedOK'
  <2>1. stop'[h].left = {x \in Sessions : Live(h, x)}  BY <1>2 DEF Shape
  <2>2. \A k \in Hosts : k # h => stop'[k] = stop[k]  BY <1>2 DEF Shape
  <2>3. \A k \in Hosts, x \in Sessions : Live(k, x)' <=> Live(k, x)  BY <1>1 DEF Live
  <2>4. \A x \in Sessions : Running(x)' <=> Running(x)  BY <1>1 DEF Running
  <2> SUFFICES ASSUME NEW k \in Hosts, stop'[k].head # None,
                      NEW x \in Sessions, Live(k, x), x \notin stop'[k].left
               PROVE  ~Running(x) /\ \A m \in Hosts : exec[m].pc \in Writing => exec[m].x # x
    BY <1>1, <2>3, <2>4 DEF StoppedOK
  <2>5. k # h  BY <2>1
  <2> QED  BY <2>2, <2>5 DEF NativeInv, StoppedOK
<1> QED  BY <1>10, <1>11, <1>12, <1>13 DEF NativeInv

LEMMA NativeStep ==
  ASSUME Shape, TurnInv, NativeInv, [Next]_vars
  PROVE  NativeInv'
<1>1. ASSUME NEW r \in Receipts,
             \/ Enqueue(r) \/ Renew(r) \/ LeaseExpires(r) \/ ToolCall(r) \/ RecoverPreparation(r)
      PROVE  NativeInv'
  BY <1>1, EnqueueNative, HeldNative, RecoverPreparationNative
<1>2. ASSUME NEW h \in Hosts,
             \/ ReadHead(h) \/ Claim(h) \/ ClaimRefused(h) \/ ReadBinding(h) \/ Reuse(h)
             \/ Launch(h) \/ Record(h) \/ Bind(h) \/ Ready(h)
      PROVE  NativeInv'
  BY <1>2, ReadHeadNative, ClaimNative, ReadBindingNative, ReuseNative, LaunchNative,
     RecordNative, BindNative, ReadyNative
<1>3. ASSUME NEW h \in Hosts,
             \/ MarkSending(h) \/ Submit(h) \/ TurnCompleted(h) \/ RecoverFromTranscript(h)
             \/ Fails(h) \/ BoundSessionMissing(h)
      PROVE  NativeInv'
  BY <1>3, MarkSendingNative, SubmitNative, CompletionNative, FailsNative
<1>4. ASSUME NEW h \in Hosts,
             \/ AbandonBegins(h) \/ StopSession(h) \/ StopFails(h) \/ AbandonCommits(h)
             \/ Crash(h)
      PROVE  NativeInv'
  BY <1>4, AbandonBeginsNative, StopSessionNative, StopFailsNative, AbandonCommitsNative,
     CrashNative
<1>5. CASE BeginDeletion  BY <1>5, BeginDeletionNative
<1>6. CASE TurnEnds  BY <1>6, TurnEndsNative
<1>7. CASE SessionStops  BY <1>7, SessionStopsNative
<1>8. CASE UNCHANGED vars
  <2>1. UNCHANGED <<receipt, bound, session, journal, exec, stop>>  BY <1>8 DEF vars
  <2>2. Shape' /\ TurnInv'  BY <1>8, TurnStep
  <2> QED
    BY <2>1, <2>2, SameRows, SameSessions, SameJournal, SameExec, SameStops, NativeKept
<1> QED  BY <1>1, <1>2, <1>3, <1>4, <1>5, <1>6, <1>7, <1>8 DEF Next

LEMMA NativeInvariant == Spec => [](Shape /\ TurnInv /\ NativeInv)
<1>1. Init => Shape /\ TurnInv /\ NativeInv  BY TurnInit, NativeInit
<1>2. Shape /\ TurnInv /\ NativeInv /\ [Next]_vars => Shape' /\ TurnInv' /\ NativeInv'
  BY TurnStep, NativeStep
<1> QED  BY <1>1, <1>2, PTL DEF Spec

-----------------------------------------------------------------------------
(* What the sessions make true                                             *)

\* However many hosts try, lose their leases or die between the launch and the
\* binding, every prompt is asked in the native conversation that the binding
\* leads to: a session started by an attempt that has lost its claim is never
\* bound, and one bound in its place continues the same conversation (bind()).
THEOREM OneConversation == Spec => []OneNativeConversation
<1>1. Shape /\ NativeInv => OneNativeConversation
  <2> SUFFICES ASSUME Shape, NativeInv, NEW i \in DOMAIN journal
               PROVE  BoundNative(journal[i].session)
    BY DEF OneNativeConversation, BoundNative
  <2>1. i \in 1 .. Len(journal)  BY LenProperties DEF Shape
  <2> QED  BY <2>1 DEF NativeInv, AskedOK
<1> QED  BY <1>1, NativeInvariant, PTL

\* the only step that gives a request up is the commit of an abandonment
LEMMA GivenUpByCommit ==
  ASSUME Shape, TurnInv, [Next]_vars, NEW h \in Hosts, stop[h].head # None,
         stop'[h].head = None,
         NEW r \in Receipts, receipt[r].status # "abandoned", receipt'[r].status = "abandoned"
  PROVE  AbandonCommits(h)
<1>1. ~Unseen  BY DEF Unseen, Still
<1>2. ASSUME NEW o \in Receipts, Enqueue(o)
      PROVE  FALSE
  <2>1. receipt[o] \in ReceiptShape  BY DEF Shape, Tables
  <2>2. receipt' = [receipt EXCEPT ![o] = [receipt[o] EXCEPT !.status = "queued",
                                             !.seq = Cardinality(Accepted) + 1]]
    BY <1>2 DEF Enqueue, Shape, Tables
  <2>3. receipt'[o].status = "queued" /\ \A p \in Receipts : p # o => receipt'[p] = receipt[p]
    BY <2>1, <2>2 DEF Shape, Tables, ReceiptShape
  <2> QED  BY <2>3
<1>3. \A k \in Hosts : ~Submit(k)
  <2>1. receipt' # receipt  OBVIOUS
  <2> QED  BY <2>1 DEF Submit
<1>4. ~AnswersOwn
  <2> SUFFICES ASSUME NEW o \in Receipts, NEW i \in 1 .. Len(journal), Answers(o, i)
               PROVE  FALSE
    BY DEF AnswersOwn
  <2>1. receipt[o] \in ReceiptShape  BY DEF Shape, Tables
  <2>2. receipt'[o].status = "completed"  BY <2>1 DEF Answers, Released, ReceiptShape
  <2>3. \A p \in Receipts : p # o => receipt'[p] = receipt[p]  BY DEF Answers
  <2> QED  BY <2>2, <2>3
<1>5. PICK k \in Hosts : AbandonCommits(k)  BY <1>1, <1>2, <1>3, <1>4, StepKinds
<1>6. stop' = [stop EXCEPT ![k] = NoStop]  BY <1>5 DEF AbandonCommits, Abandon
<1>7. k = h  BY <1>6 DEF Shape
<1> QED  BY <1>5, <1>7

\* A receipt that says writerStopped says so of every session of the process
\* that stopped them: those it knew of when it began, and those started since,
\* which no attempt of a retired conversation may write to (abandon()).
THEOREM WriterIsStopped == Spec => AbandonedWriterIsStopped
<1>1. Shape /\ TurnInv /\ NativeInv /\ [Next]_vars =>
        [\A h \in Hosts : stop[h].head # None /\ stop'[h].head = None
            /\ (\E r \in Receipts : receipt[r].status # "abandoned"
                                     /\ receipt'[r].status = "abandoned")
            => \A x \in Sessions : Live(h, x) => ~Running(x)]_vars
  <2> SUFFICES ASSUME Shape, TurnInv, NativeInv, [Next]_vars,
                      NEW h \in Hosts, stop[h].head # None, stop'[h].head = None,
                      NEW r \in Receipts, receipt[r].status # "abandoned",
                      receipt'[r].status = "abandoned",
                      NEW x \in Sessions, Live(h, x)
               PROVE  ~Running(x)
    OBVIOUS
  <2>1. AbandonCommits(h)  BY GivenUpByCommit
  <2>2. x \notin stop[h].left  BY <2>1 DEF AbandonCommits
  <2> QED  BY <2>2 DEF NativeInv, StoppedOK
<1> QED  BY <1>1, NativeInvariant, PTL DEF Spec, AbandonedWriterIsStopped

-----------------------------------------------------------------------------
(* What the refinement brings                                              *)

Promised == INSTANCE TurnConversationProofs WITH
  Turns <- Receipts,
  accepted <- [n \in 1 .. Cardinality(Accepted) |-> CHOOSE r \in Receipts : receipt[r].seq = n],
  asked <- [i \in DOMAIN journal |-> journal[i].turn],
  answer <- [r \in Receipts |-> receipt[r].reply],
  cancelled <- {r \in Receipts : receipt[r].status = "abandoned"}

\* Over any number of hosts, crashes, lapsed leases and retries the prompts in the
\* transcript are the first accepted ones in their order, none twice, each after the
\* answers to all before it; a receipt is completed with the answer to its own
\* prompt, and an abandoned one has none (what KeepsConversation comes to).
THEOREM PromisesKept == Spec => []Promised!Promises
<1>1. Conversation!Init => Promised!Init  BY DEF Conversation!Init, Promised!Init
<1>2. [Conversation!Next]_(Conversation!conversation)
        => [Promised!Next]_(Promised!conversation)
  <2>1. Conversation!Next => Promised!Next
    BY DEF Conversation!Next, Promised!Next, Conversation!Accept, Promised!Accept,
           Conversation!Ask, Promised!Ask, Conversation!Answer, Promised!Answer,
           Conversation!Cancel, Promised!Cancel, Conversation!Elements, Promised!Elements
  <2>2. UNCHANGED Conversation!conversation => UNCHANGED Promised!conversation
    BY DEF Conversation!conversation, Promised!conversation
  <2> QED  BY <2>1, <2>2
<1>3. Conversation!Spec => Promised!Spec
  BY <1>1, <1>2, PTL DEF Conversation!Spec, Promised!Spec
<1>4. Promised!Spec => []Promised!Promises  BY Promised!KeepsPromises
<1> QED  BY <1>3, <1>4, ConversationKept, PTL DEF KeepsConversation
=============================================================================

-------------------------- MODULE DispatchInboxProofs --------------------------
(***************************************************************************)
(* What the callback inbox keeps for any number of sessions, dispatches,   *)
(* activations, triggers, rebinds and crashes.                             *)
(*                                                                         *)
(* The inductive invariant ties three things together: the wake record of  *)
(* a session, the wakes sent about its inbox as it is, and what an         *)
(* activation under way remembers of its claim.  A record changes hands    *)
(* many times; SoftWake is what every writer but a claim, a submission and *)
(* its answer respects.                                                    *)
(***************************************************************************)
EXTENDS DispatchInbox, FiniteSetTheorems, TLAPS

-----------------------------------------------------------------------------
(* The invariant                                                           *)

\* the wakes sent about the inbox of s as it is, and those whose fate nobody knows
About(s) == {n \in Wakes : sent[n].session = s /\ sent[n].current}
Blind(s) == {n \in About(s) : sent[n].fate \in {"wire", "run"} /\ ~sent[n].answered}

\* wakes are numbered in the order in which they are sent
SentOK ==
  /\ \E k \in 0 .. MaxSends : {n \in Wakes : sent[n].fate # "none"} = 1 .. k
  /\ \A n \in Wakes : IF sent[n].fate = "none" THEN ~sent[n].current
                                               ELSE sent[n].session \in Sessions

DispatchOK ==
  \A d \in Dispatches : dispatch[d].state # "absent" => dispatch[d].session \in Sessions

CallOK(c) ==
  /\ call[c].pc # "idle" => call[c].session \in Sessions
  /\ call[c].pc \notin {"idle", "probe"} => call[c].claim.fp # {} /\ call[c].claim.attempt # 0
  /\ call[c].pc \in {"probe", "ready", "adapter"} => call[c].reply = "none"
  /\ call[c].pc = "sent" =>
       /\ call[c].sub \in Wakes
       /\ sent[call[c].sub].fate # "none"
       /\ call[c].reply = "ok" => sent[call[c].sub].fate = "run"

Alone ==
  \A c, d \in Callers :
    call[c].pc # "idle" /\ call[d].pc # "idle" /\ call[c].session = call[d].session => c = d

\* a record w, the unresolved dispatches U, the wakes sent about them A, of which
\* the fate of B is unknown: no wake was sent that the record does not count, and
\* none of unknown fate that it does not hold
Counts(w, U, A, B) ==
  /\ w # None /\ w.state = "pending" => w.attempt < MaxAttempts
  /\ A # {} => /\ w # None
               /\ w.fp = U
               /\ U # {}
               /\ Cardinality(A) <= w.attempt
  /\ B # {} => w.state \in {"blocked", "resolved"}

InboxOK(s) ==
  /\ Counts(wake[s], Unresolved(s), About(s), Blind(s))
  /\ wake[s] # None /\ wake[s].state = "submitted" =>
       wake[s].sub # None /\ sent[wake[s].sub].fate = "run"

\* the claim of an activation that may still send, and of one that has sent
HoldOK(c) ==
  LET s == call[c].session IN
  /\ call[c].pc \in {"ready", "adapter"} /\ Matches(wake[s], call[c].claim) =>
       Cardinality(About(s)) < wake[s].attempt
  /\ call[c].pc = "sent" /\ Matches(wake[s], call[c].claim) =>
       wake[s].sub = call[c].sub /\ Blind(s) \subseteq {call[c].sub}

InboxInv ==
  /\ TypeOK
  /\ SentOK
  /\ DispatchOK
  /\ Alone
  /\ \A c \in Callers : CallOK(c) /\ HoldOK(c)
  /\ \A s \in Sessions : InboxOK(s)

-----------------------------------------------------------------------------
(* What the writers of a record do to it                                   *)

PendingOK(w) == w # None /\ w.state = "pending" => w.attempt < MaxAttempts

\* v is what is left of the record w: it still counts the wakes about U and holds
\* what w held, and it was submitted only if w was
SoftWake(w, v, U) ==
  \/ v = w
  \/ /\ w # None
     /\ v \in Wake
     /\ v.sub = w.sub
     /\ PendingOK(v)
     /\ v.state = "submitted" => w.state = "submitted"
     /\ v.attempt = 0 \/ (v.fp = w.fp /\ v.attempt = w.attempt)
     /\ w.fp = U /\ U # {} =>
          /\ v.fp = w.fp /\ v.attempt = w.attempt
          /\ w.state \in {"blocked", "resolved"} => v.state \in {"blocked", "resolved"}

LEMMA WakeFields ==
  ASSUME NEW w \in Wake
  PROVE  /\ w # None
         /\ w.fp \subseteq Dispatches
         /\ w.state \in WakeStates
         /\ w.attempt \in Nat /\ w.attempt <= MaxAttempts
         /\ w.sub \in Wakes \cup {None}
<1>1. w # None  BY WakeAssumption
<1>2. MaxAttempts \in Nat  BY InboxAssumption
<1> QED  BY <1>1, <1>2 DEF Wake, Attempts

\* a record put together from w, a state and whether it counts afresh
LEMMA ReleasedFields ==
  ASSUME NEW w \in Wake
  PROVE  /\ Released(w) \in Wake
         /\ Released(w).fp = w.fp /\ Released(w).state = w.state
         /\ Released(w).attempt = w.attempt /\ Released(w).sub = w.sub
BY DEF Released, Wake

LEMMA FailedFields ==
  ASSUME NEW w \in Wake
  PROVE  /\ FailedAttempt(w) \in Wake
         /\ FailedAttempt(w).fp = w.fp /\ FailedAttempt(w).attempt = w.attempt
         /\ FailedAttempt(w).sub = w.sub
         /\ FailedAttempt(w).state \in {"blocked", "pending"}
         /\ PendingOK(FailedAttempt(w))
<1>1. w.attempt \in Nat /\ MaxAttempts \in Nat  BY WakeFields, InboxAssumption
<1>2. CASE w.attempt >= MaxAttempts
  <2> DEFINE v == [w EXCEPT !.state = "blocked", !.lease = "none", !.delayed = FALSE]
  <2>1. v \in Wake /\ v.fp = w.fp /\ v.state = "blocked" /\ v.attempt = w.attempt
        /\ v.sub = w.sub
    BY DEF Wake, WakeStates
  <2>2. FailedAttempt(w) = v  BY <1>2 DEF FailedAttempt
  <2> HIDE DEF v
  <2> QED  BY <2>1, <2>2 DEF PendingOK
<1>3. CASE w.attempt < MaxAttempts
  <2> DEFINE r == Released(w)
             v == [r EXCEPT !.state = "pending", !.delayed = TRUE]
  <2>1. r \in Wake /\ r.fp = w.fp /\ r.attempt = w.attempt /\ r.sub = w.sub
    BY ReleasedFields
  <2>2. FailedAttempt(w) = v  BY <1>1, <1>3 DEF FailedAttempt
  <2> HIDE DEF r
  <2>3. v \in Wake /\ v.fp = r.fp /\ v.state = "pending" /\ v.attempt = r.attempt
        /\ v.sub = r.sub
    BY <2>1 DEF Wake, WakeStates
  <2> HIDE DEF v
  <2> QED  BY <1>3, <2>1, <2>2, <2>3 DEF PendingOK
<1> QED  BY <1>1, <1>2, <1>3

LEMMA FailedIsSoft ==
  ASSUME NEW w \in Wake, NEW U, w.state \notin {"blocked", "resolved"}
  PROVE  SoftWake(w, FailedAttempt(w), U)
BY FailedFields, WakeFields DEF SoftWake

\* a record for another inbox, counting afresh
AfreshFor(w, fp, state) == [Released(w) EXCEPT !.fp = fp, !.state = state, !.attempt = 0]

LEMMA Afresh ==
  ASSUME NEW w \in Wake, NEW fp \in SUBSET Dispatches, NEW state \in {"pending", "resolved"}
  PROVE  /\ AfreshFor(w, fp, state) \in Wake
         /\ AfreshFor(w, fp, state).state = state /\ AfreshFor(w, fp, state).attempt = 0
         /\ AfreshFor(w, fp, state).sub = w.sub
         /\ PendingOK(AfreshFor(w, fp, state))
<1> DEFINE r == Released(w)
           v == [r EXCEPT !.fp = fp, !.state = state, !.attempt = 0]
<1>1. r \in Wake /\ r.sub = w.sub  BY ReleasedFields
<1>2. AfreshFor(w, fp, state) = v  BY DEF AfreshFor
<1> HIDE DEF r
<1>3. MaxAttempts \in Nat /\ 0 < MaxAttempts /\ 0 \in Attempts  BY InboxAssumption DEF Attempts
<1>4. state \in WakeStates  BY DEF WakeStates
<1>5. v \in Wake /\ v.state = state /\ v.attempt = 0 /\ v.sub = r.sub
  BY <1>1, <1>3, <1>4 DEF Wake
<1> HIDE DEF v
<1>6. PendingOK(v)  BY <1>3, <1>5 DEF PendingOK
<1> QED  BY <1>1, <1>2, <1>5, <1>6

LEMMA ReconciledIsSoft ==
  ASSUME NEW w \in Wake \cup {None}, NEW U \in SUBSET Dispatches
  PROVE  /\ SoftWake(w, Reconciled(w, U), U)
         /\ w # None /\ w.fp # U => Reconciled(w, U).attempt = 0
<1>1. CASE w = None \/ w.fp = U  BY <1>1 DEF Reconciled, SoftWake
<1>2. CASE w # None /\ w.fp # U
  <2> DEFINE fp == IF U = {} THEN w.fp ELSE U
             state == IF U = {} THEN "resolved" ELSE "pending"
  <2>1. w \in Wake /\ fp \in SUBSET Dispatches  BY <1>2, WakeFields
  <2>2. state \in {"pending", "resolved"}  OBVIOUS
  <2>3. Released(w).fp = w.fp  BY <2>1, ReleasedFields
  <2>4. Reconciled(w, U) = AfreshFor(w, fp, state)  BY <1>2, <2>3 DEF Reconciled, AfreshFor
  <2> HIDE DEF fp, state
  <2> DEFINE v == AfreshFor(w, fp, state)
  <2>5. v \in Wake /\ v.state = state /\ v.attempt = 0 /\ v.sub = w.sub /\ PendingOK(v)
    BY <2>1, <2>2, Afresh
  <2> HIDE DEF v
  <2>6. Reconciled(w, U) = v  BY <2>4 DEF v
  <2> QED  BY <1>2, <2>2, <2>5, <2>6 DEF SoftWake
<1> QED  BY <1>1, <1>2

LEMMA CompletedIsSoft ==
  ASSUME NEW w \in Wake, NEW U \in SUBSET Dispatches, w.state = "submitted"
  PROVE  SoftWake(w, CompletedTurn(w, U), U)
<1>1. CASE w.fp = U  BY <1>1, FailedIsSoft DEF CompletedTurn
<1>2. CASE w.fp # U
  <2> DEFINE v == AfreshFor(w, U, "pending")
  <2>1. CompletedTurn(w, U) = v  BY <1>2 DEF CompletedTurn, AfreshFor
  <2>2. v \in Wake /\ v.state = "pending" /\ v.attempt = 0 /\ v.sub = w.sub /\ PendingOK(v)
    BY Afresh
  <2> HIDE DEF v
  <2> QED  BY <1>2, <2>1, <2>2, WakeFields DEF SoftWake
<1> QED  BY <1>1, <1>2

LEMMA SettledIsSoft ==
  ASSUME NEW w \in Wake \cup {None}, NEW U \in SUBSET Dispatches
  PROVE  SoftWake(w, Settled(w, U), U)
<1>1. CASE w = None  BY <1>1 DEF Settled, SoftWake
<1>2. CASE w \in Wake
  <2>1. w # None  BY <1>2, WakeFields
  <2>2. CASE w.state = "claimed" /\ w.lease = "over"
    <3>1. Settled(w, U) = FailedAttempt(w)  BY <2>1, <2>2 DEF Settled
    <3> QED  BY <1>2, <2>2, <3>1, FailedIsSoft
  <2>3. CASE w.state = "submitted" /\ (w.busy \/ w.lease = "over")
    <3>1. Settled(w, U) = CompletedTurn(w, U)  BY <2>1, <2>3 DEF Settled
    <3> QED  BY <1>2, <2>3, <3>1, CompletedIsSoft
  <2>4. CASE ~(w.state = "claimed" /\ w.lease = "over")
             /\ ~(w.state = "submitted" /\ (w.busy \/ w.lease = "over"))
    <3>1. Settled(w, U) = w  BY <2>1, <2>4 DEF Settled
    <3> QED  BY <3>1 DEF SoftWake
  <2> QED  BY <2>2, <2>3, <2>4
<1> QED  BY <1>1, <1>2

LEMMA BusyIsSoft ==
  ASSUME NEW w \in Wake \cup {None}, NEW U, PendingOK(w)
  PROVE  SoftWake(w, BusyNoted(w), U)
<1>1. CASE w # None /\ w.state = "submitted"
  <2> DEFINE v == [w EXCEPT !.busy = TRUE]
  <2>1. w \in Wake /\ BusyNoted(w) = v  BY <1>1 DEF BusyNoted
  <2>2. /\ v \in Wake /\ v.fp = w.fp /\ v.state = w.state /\ v.attempt = w.attempt
        /\ v.sub = w.sub
    BY <2>1 DEF Wake
  <2> HIDE DEF v
  <2> QED  BY <1>1, <2>1, <2>2 DEF SoftWake, PendingOK
<1>2. CASE ~(w # None /\ w.state = "submitted")
  <2>1. BusyNoted(w) = w  BY <1>2 DEF BusyNoted
  <2> QED  BY <2>1 DEF SoftWake
<1> QED  BY <1>1, <1>2

LEMMA TimeIsSoft ==
  ASSUME NEW w \in Wake, NEW U, PendingOK(w), NEW v,
         v = [w EXCEPT !.lease = "over"] \/ v = [w EXCEPT !.delayed = FALSE]
  PROVE  SoftWake(w, v, U)
<1>1. /\ v \in Wake /\ v.fp = w.fp /\ v.state = w.state /\ v.attempt = w.attempt
      /\ v.sub = w.sub
  BY DEF Wake
<1> QED  BY <1>1, WakeFields DEF SoftWake, PendingOK

LEMMA ResolvedIsSoft ==
  ASSUME NEW w \in Wake, NEW U, NEW v, v = [Released(w) EXCEPT !.state = "resolved"]
  PROVE  SoftWake(w, v, U)
<1> DEFINE r == Released(w)
<1>1. r \in Wake /\ r.fp = w.fp /\ r.attempt = w.attempt /\ r.sub = w.sub  BY ReleasedFields
<1>2. v = [r EXCEPT !.state = "resolved"]  OBVIOUS
<1> HIDE DEF r
<1>3. /\ v \in Wake /\ v.fp = r.fp /\ v.state = "resolved" /\ v.attempt = r.attempt
      /\ v.sub = r.sub
  BY <1>1, <1>2 DEF Wake, WakeStates
<1> QED  BY <1>1, <1>3, WakeFields DEF SoftWake, PendingOK

LEMMA SubmissionFailedIsSoft ==
  ASSUME NEW w \in Wake \cup {None}, NEW claim, NEW U
  PROVE  SoftWake(w, SubmissionFailed(w, claim), U)
<1>1. CASE Matches(w, claim) /\ w.state = "claimed"
  <2>1. w \in Wake  BY <1>1 DEF Matches
  <2>2. SubmissionFailed(w, claim) = FailedAttempt(w)  BY <1>1 DEF SubmissionFailed
  <2> QED  BY <1>1, <2>1, <2>2, FailedIsSoft
<1>2. CASE ~(Matches(w, claim) /\ w.state = "claimed")
  BY <1>2 DEF SubmissionFailed, SoftWake
<1> QED  BY <1>1, <1>2

LEMMA SoftType ==
  ASSUME NEW w \in Wake \cup {None}, NEW v, NEW U, SoftWake(w, v, U)
  PROVE  v \in Wake \cup {None}
BY DEF SoftWake

LEMMA SoftTwice ==
  ASSUME NEW w \in Wake \cup {None}, NEW v, NEW x, NEW U, SoftWake(w, v, U), SoftWake(v, x, U)
  PROVE  SoftWake(w, x, U)
<1>1. CASE v = w \/ x = v  BY <1>1
<1>2. CASE v # w /\ x # v
  <2>1. /\ w # None /\ v \in Wake
        /\ v.sub = w.sub
        /\ v.state = "submitted" => w.state = "submitted"
        /\ v.attempt = 0 \/ (v.fp = w.fp /\ v.attempt = w.attempt)
        /\ w.fp = U /\ U # {} =>
             /\ v.fp = w.fp /\ v.attempt = w.attempt
             /\ w.state \in {"blocked", "resolved"} => v.state \in {"blocked", "resolved"}
    BY <1>2 DEF SoftWake
  <2>2. /\ x \in Wake
        /\ x.sub = v.sub
        /\ PendingOK(x)
        /\ x.state = "submitted" => v.state = "submitted"
        /\ x.attempt = 0 \/ (x.fp = v.fp /\ x.attempt = v.attempt)
        /\ v.fp = U /\ U # {} =>
             /\ x.fp = v.fp /\ x.attempt = v.attempt
             /\ v.state \in {"blocked", "resolved"} => x.state \in {"blocked", "resolved"}
    BY <1>2 DEF SoftWake
  <2>3. x.attempt = 0 \/ (x.fp = w.fp /\ x.attempt = w.attempt)  BY <2>1, <2>2
  <2>4. ASSUME w.fp = U, U # {}
        PROVE  /\ x.fp = w.fp /\ x.attempt = w.attempt
               /\ w.state \in {"blocked", "resolved"} => x.state \in {"blocked", "resolved"}
    BY <2>1, <2>2, <2>4
  <2> QED  BY <2>1, <2>2, <2>3, <2>4 DEF SoftWake
<1> QED  BY <1>1, <1>2

-----------------------------------------------------------------------------
(* Steps that only leave less                                              *)

\* no wake is sent; the fate of one on the wire may become known
Fades ==
  \A n \in Wakes :
    /\ sent'[n].session = sent[n].session
    /\ sent'[n].current => sent[n].current
    /\ sent[n].answered => sent'[n].answered
    /\ \/ sent'[n].fate = sent[n].fate
       \/ sent[n].fate = "wire" /\ sent'[n].fate # "none"

\* what an activation or a record may know of the wakes stays so
FatesKept ==
  \A n \in Wakes : sent[n].fate # "none" =>
    \/ sent'[n].fate = sent[n].fate
    \/ sent[n].fate = "wire" /\ sent'[n].fate # "none"

LessAbout(s) == About(s)' \subseteq About(s) /\ Blind(s)' \subseteq Blind(s)

KeepsInbox(s) == Unresolved(s)' = Unresolved(s) \/ About(s)' = {}

\* an activation goes on with the claim it has, or ends
Carries(c) ==
  /\ call'[c].session = call[c].session
  /\ call'[c].claim = call[c].claim
  /\ call'[c].sub = call[c].sub
  /\ \/ call'[c].pc = call[c].pc
     \/ call[c].pc = "ready" /\ call'[c].pc = "adapter"
     \/ call[c].pc = "sent" /\ call'[c].pc \in {"sync", "released"}
  /\ \/ call'[c].reply = call[c].reply
     \/ call[c].pc = "sent" /\ (call'[c].reply = "ok" => sent'[call[c].sub].fate = "run")

LEMMA WakesFinite ==
  ASSUME NEW T \in SUBSET Wakes
  PROVE  IsFiniteSet(T) /\ Cardinality(T) \in Nat
<1>1. IsFiniteSet(Wakes)  BY FS_Interval, InboxAssumption DEF Wakes
<1>2. IsFiniteSet(T)  BY <1>1, FS_Subset
<1> QED  BY <1>2, FS_CardinalityType

LEMMA FewerWakes ==
  ASSUME NEW S \in SUBSET Wakes, NEW T \in SUBSET S
  PROVE  Cardinality(T) <= Cardinality(S)
BY WakesFinite, FS_Subset

LEMMA FewerAbout ==
  ASSUME Fades, NEW s
  PROVE  FatesKept /\ LessAbout(s)
<1>1. About(s)' \subseteq About(s)  BY DEF About, Fades
<1>2. \A n \in Wakes : /\ sent'[n].fate \in {"wire", "run"} => sent[n].fate \in {"wire", "run"}
                       /\ ~sent'[n].answered => ~sent[n].answered
  BY DEF Fades
<1>3. About(s)' \subseteq Wakes  BY DEF About
<1>4. Blind(s)' \subseteq Blind(s)  BY <1>1, <1>2, <1>3 DEF Blind
<1> QED  BY <1>1, <1>4 DEF LessAbout, FatesKept, Fades

LEMMA SentKept ==
  ASSUME SentOK, Fades
  PROVE  SentOK'
<1>1. \A n \in Wakes : sent'[n].fate # "none" <=> sent[n].fate # "none"  BY DEF Fades
<1>2. {n \in Wakes : sent'[n].fate # "none"} = {n \in Wakes : sent[n].fate # "none"}  BY <1>1
<1>3. \A n \in Wakes : IF sent'[n].fate = "none" THEN ~sent'[n].current
                                                ELSE sent'[n].session \in Sessions
  BY <1>1 DEF SentOK, Fades
<1> QED  BY <1>2, <1>3 DEF SentOK

LEMMA SoftCounts ==
  ASSUME NEW w, NEW v, NEW U, NEW A \in SUBSET Wakes, NEW B \in SUBSET A, Counts(w, U, A, B),
         SoftWake(w, v, U)
  PROVE  Counts(v, U, A, B)
<1>1. CASE v = w  BY <1>1
<1>2. CASE v # w
  <2>1. /\ w # None /\ v \in Wake /\ PendingOK(v)
        /\ w.fp = U /\ U # {} =>
             /\ v.fp = w.fp /\ v.attempt = w.attempt
             /\ w.state \in {"blocked", "resolved"} => v.state \in {"blocked", "resolved"}
    BY <1>2 DEF SoftWake
  <2>2. v # None  BY <2>1, WakeFields
  <2> QED  BY <2>1, <2>2 DEF Counts, PendingOK
<1> QED  BY <1>1, <1>2

LEMMA FewerCounts ==
  ASSUME NEW w \in Wake \cup {None}, NEW U, NEW V, NEW A \in SUBSET Wakes, NEW B \in SUBSET A,
         Counts(w, U, A, B),
         NEW C \in SUBSET A, NEW D \in SUBSET C, D \subseteq B, V = U \/ C = {}
  PROVE  Counts(w, V, C, D)
<1>1. CASE C = {}  BY <1>1 DEF Counts
<1>2. CASE C # {}
  <2>1. A # {} /\ V = U  BY <1>2
  <2>2. w # None /\ w.fp = U /\ U # {} /\ Cardinality(A) <= w.attempt  BY <2>1 DEF Counts
  <2>3. w.attempt \in Nat  BY <2>2, WakeFields
  <2>4. Cardinality(C) <= Cardinality(A) /\ Cardinality(A) \in Nat /\ Cardinality(C) \in Nat
    BY FewerWakes, WakesFinite
  <2>5. Cardinality(C) <= w.attempt  BY <2>2, <2>3, <2>4
  <2> QED  BY <2>1, <2>2, <2>5 DEF Counts
<1> QED  BY <1>1, <1>2

LEMMA InboxKept ==
  ASSUME TypeOK, NEW s \in Sessions, InboxOK(s), FatesKept, LessAbout(s), KeepsInbox(s),
         SoftWake(wake[s], wake'[s], Unresolved(s))
  PROVE  InboxOK(s)'
<1>1. wake[s] \in Wake \cup {None}  BY DEF TypeOK
<1>2. wake'[s] \in Wake \cup {None}  BY <1>1, SoftType
<1>3. /\ About(s)' \subseteq About(s) /\ Blind(s)' \subseteq Blind(s)
      /\ About(s) \subseteq Wakes /\ Blind(s) \subseteq About(s) /\ Blind(s)' \subseteq About(s)'
  BY DEF LessAbout, About, Blind
<1>4. Counts(wake'[s], Unresolved(s), About(s), Blind(s))  BY <1>3, SoftCounts DEF InboxOK
<1> DEFINE A == About(s)
           B == Blind(s)
           C == About(s)'
           D == Blind(s)'
           U == Unresolved(s)
           V == Unresolved(s)'
<1>5. V = U \/ C = {}  BY DEF KeepsInbox
<1>6. Counts(wake'[s], V, C, D)
  <2> HIDE DEF A, B, C, D, U, V
  <2>1. /\ A \subseteq Wakes /\ B \subseteq A /\ C \subseteq A /\ D \subseteq C /\ D \subseteq B
        /\ Counts(wake'[s], U, A, B)
    BY <1>3, <1>4 DEF A, B, C, D, U
  <2> QED  BY <1>2, <1>5, <2>1, FewerCounts
<1>7. ASSUME wake'[s] # None, wake'[s].state = "submitted"
      PROVE  wake'[s].sub # None /\ sent'[wake'[s].sub].fate = "run"
  <2>1. wake[s] # None /\ wake[s].state = "submitted" /\ wake'[s].sub = wake[s].sub
    BY <1>7 DEF SoftWake
  <2>2. wake[s].sub # None /\ sent[wake[s].sub].fate = "run"  BY <2>1 DEF InboxOK
  <2>3. wake[s].sub \in Wakes  BY <1>1, <2>1, <2>2, WakeFields
  <2> QED  BY <2>1, <2>2, <2>3 DEF FatesKept
<1> QED  BY <1>6, <1>7 DEF InboxOK

LEMMA HoldKept ==
  ASSUME TypeOK, NEW c \in Callers, CallOK(c), HoldOK(c), Carries(c),
         NEW s \in Sessions, s = call[c].session, LessAbout(s),
         SoftWake(wake[s], wake'[s], Unresolved(s))
  PROVE  HoldOK(c)'
<1>1. wake[s] \in Wake \cup {None}  BY DEF TypeOK
<1>2. /\ About(s)' \subseteq About(s) /\ Blind(s)' \subseteq Blind(s)
      /\ About(s) \subseteq Wakes
  BY DEF LessAbout, About
<1>3. call'[c].session = s /\ call'[c].claim = call[c].claim /\ call'[c].sub = call[c].sub
  BY DEF Carries
<1>4. ASSUME call'[c].pc \in {"ready", "adapter", "sent"}, Matches(wake'[s], call[c].claim)
      PROVE  /\ Matches(wake[s], call[c].claim)
             /\ wake'[s].attempt = wake[s].attempt
             /\ wake'[s].sub = wake[s].sub
  <2>1. call[c].pc \notin {"idle", "probe"}  BY <1>4 DEF Carries
  <2>2. call[c].claim.attempt # 0  BY <2>1 DEF CallOK
  <2> QED  BY <1>4, <2>2 DEF SoftWake, Matches
<1>5. ASSUME call'[c].pc \in {"ready", "adapter"}, Matches(wake'[s], call[c].claim)
      PROVE  Cardinality(About(s)') < wake'[s].attempt
  <2>1. call[c].pc \in {"ready", "adapter"}  BY <1>5 DEF Carries
  <2>2. Matches(wake[s], call[c].claim) /\ wake'[s].attempt = wake[s].attempt  BY <1>4, <1>5
  <2>3. Cardinality(About(s)) < wake[s].attempt  BY <2>1, <2>2 DEF HoldOK
  <2>4. wake[s] \in Wake  BY <1>1, <2>2 DEF Matches
  <2>5. wake[s].attempt \in Nat  BY <2>4, WakeFields
  <2>6. /\ Cardinality(About(s)') <= Cardinality(About(s))
        /\ Cardinality(About(s)) \in Nat /\ Cardinality(About(s)') \in Nat
    BY <1>2, FewerWakes, WakesFinite
  <2> QED  BY <2>2, <2>3, <2>5, <2>6
<1>6. ASSUME call'[c].pc = "sent", Matches(wake'[s], call[c].claim)
      PROVE  wake'[s].sub = call[c].sub /\ Blind(s)' \subseteq {call[c].sub}
  <2>1. call[c].pc = "sent"  BY <1>6 DEF Carries
  <2>2. Matches(wake[s], call[c].claim) /\ wake'[s].sub = wake[s].sub  BY <1>4, <1>6
  <2>3. wake[s].sub = call[c].sub /\ Blind(s) \subseteq {call[c].sub}  BY <2>1, <2>2 DEF HoldOK
  <2> QED  BY <1>2, <2>2, <2>3
<1>7. About(call[c].session)' = About(s)' /\ Blind(call[c].session)' = Blind(s)'
  BY <1>3 DEF About, Blind
<1> QED  BY <1>3, <1>5, <1>6, <1>7 DEF HoldOK

LEMMA CallKept ==
  ASSUME FatesKept, NEW c \in Callers, CallOK(c), Carries(c)
  PROVE  CallOK(c)'
<1>1. ASSUME call'[c].pc = "sent"
      PROVE  /\ call'[c].sub \in Wakes
             /\ sent'[call'[c].sub].fate # "none"
             /\ call'[c].reply = "ok" => sent'[call'[c].sub].fate = "run"
  <2>1. call[c].pc = "sent" /\ call'[c].sub = call[c].sub  BY <1>1 DEF Carries
  <2> DEFINE n == call[c].sub
  <2>2. /\ n \in Wakes /\ sent[n].fate # "none"
        /\ call[c].reply = "ok" => sent[n].fate = "run"
    BY <2>1 DEF CallOK
  <2>3. sent'[n].fate = sent[n].fate \/ (sent[n].fate = "wire" /\ sent'[n].fate # "none")
    BY <2>2 DEF FatesKept
  <2>4. call'[c].reply = "ok" => call[c].reply = "ok" \/ sent'[n].fate = "run"
    BY DEF Carries
  <2> HIDE DEF n
  <2>5. call'[c].reply = "ok" => sent'[n].fate = "run"  BY <2>2, <2>3, <2>4
  <2> QED  BY <2>1, <2>2, <2>3, <2>5 DEF n
<1>2. call'[c].pc # "idle" => call'[c].session \in Sessions  BY DEF CallOK, Carries
<1>3. call'[c].pc \notin {"idle", "probe"} => call'[c].claim.fp # {} /\ call'[c].claim.attempt # 0
  BY DEF CallOK, Carries
<1>4. call'[c].pc \in {"probe", "ready", "adapter"} => call'[c].reply = "none"
  BY DEF CallOK, Carries
<1> QED  BY <1>1, <1>2, <1>3, <1>4 DEF CallOK

LEMMA AloneKept ==
  ASSUME Alone, \A c \in Callers : call'[c].pc = "idle" \/ Carries(c)
  PROVE  Alone'
<1>1. \A c \in Callers : call'[c].pc # "idle" =>
        call[c].pc # "idle" /\ call'[c].session = call[c].session
  BY DEF Carries
<1> QED  BY <1>1 DEF Alone

\* a step after which no record, wake or activation stands for more than before
LEMMA KeptStep ==
  ASSUME InboxInv, TypeOK', DispatchOK', Fades,
         \A s \in Sessions : KeepsInbox(s) /\ SoftWake(wake[s], wake'[s], Unresolved(s)),
         \A c \in Callers : call'[c].pc = "idle" \/ Carries(c)
  PROVE  InboxInv'
<1>1. SentOK'  BY SentKept DEF InboxInv
<1>5. FatesKept /\ \A s : LessAbout(s)  BY FewerAbout
<1>2. Alone'  BY AloneKept DEF InboxInv
<1>3. ASSUME NEW c \in Callers PROVE CallOK(c)' /\ HoldOK(c)'
  <2>1. CASE call'[c].pc = "idle"  BY <2>1 DEF CallOK, HoldOK
  <2>2. CASE Carries(c) /\ call'[c].pc # "idle"
    <3>1. CallOK(c) /\ HoldOK(c) /\ TypeOK  BY DEF InboxInv
    <3>2. CallOK(c)'  BY <1>5, <2>2, <3>1, CallKept
    <3>3. call[c].pc # "idle"  BY <2>2 DEF Carries
    <3>4. call[c].session \in Sessions  BY <3>1, <3>3 DEF CallOK
    <3>5. HoldOK(c)'  BY <1>5, <2>2, <3>1, <3>4, HoldKept
    <3> QED  BY <3>2, <3>5
  <2> QED  BY <2>1, <2>2
<1>4. ASSUME NEW s \in Sessions PROVE InboxOK(s)'
  BY <1>5, InboxKept DEF InboxInv
<1> QED  BY <1>1, <1>2, <1>3, <1>4 DEF InboxInv

-----------------------------------------------------------------------------
(* The pieces of a step                                                    *)

CallType == [pc : Phases, session : Sessions \cup {None}, claim : Claim,
             sub : Wakes \cup {None}, reply : Replies]

Ends == \A c \in Callers : call'[c].pc = "idle" \/ Carries(c)

LEMMA CallsSame ==
  ASSUME TypeOK, UNCHANGED call
  PROVE  call' \in [Callers -> CallType] /\ Ends
BY DEF TypeOK, CallType, Ends, Carries

LEMMA IdleType == Idle \in CallType
<1>1. NoClaim \in Claim  BY InboxAssumption DEF NoClaim, Claim, Attempts
<1> QED  BY <1>1 DEF Idle, CallType, Phases, Replies

LEMMA Leaves ==
  ASSUME TypeOK, NEW c \in Callers, Leave(c)
  PROVE  call' \in [Callers -> CallType] /\ Ends
<1>1. call \in [Callers -> CallType]  BY DEF TypeOK, CallType
<1>2. call' = [call EXCEPT ![c] = Idle]  BY DEF Leave
<1>3. call' \in [Callers -> CallType]  BY <1>1, <1>2, IdleType
<1>4. \A d \in Callers : call'[d] = IF d = c THEN Idle ELSE call[d]  BY <1>1, <1>2
<1>5. \A d \in Callers : d # c => Carries(d)  BY <1>4 DEF Carries
<1>6. call'[c].pc = "idle"  BY <1>4 DEF Idle
<1> QED  BY <1>3, <1>5, <1>6 DEF Ends

LEMMA Goes ==
  ASSUME TypeOK, NEW c \in Callers, NEW pc \in Phases, Goto(c, pc),
         \/ call[c].pc = "ready" /\ pc = "adapter"
         \/ call[c].pc = "sent" /\ pc \in {"sync", "released"}
  PROVE  call' \in [Callers -> CallType] /\ Ends
<1>1. call \in [Callers -> CallType]  BY DEF TypeOK, CallType
<1>2. call' = [call EXCEPT ![c].pc = pc]  BY DEF Goto
<1>3. call' \in [Callers -> CallType]  BY <1>1, <1>2 DEF CallType
<1>4. \A d \in Callers : d # c => Carries(d)  BY <1>1, <1>2 DEF Carries
<1>5. /\ call'[c].pc = pc /\ call'[c].session = call[c].session
      /\ call'[c].claim = call[c].claim /\ call'[c].sub = call[c].sub
      /\ call'[c].reply = call[c].reply
  BY <1>1, <1>2 DEF CallType
<1>6. Carries(c)  BY <1>5 DEF Carries
<1> QED  BY <1>3, <1>4, <1>6 DEF Ends

LEMMA Puts ==
  ASSUME TypeOK, NEW s \in Sessions, NEW v, SetWake(s, v)
  PROVE  /\ wake'[s] = v
         /\ \A t \in Sessions : t # s => wake'[t] = wake[t]
         /\ v \in Wake \cup {None} => wake' \in [Sessions -> Wake \cup {None}]
BY DEF TypeOK, SetWake

LEMMA SentSame ==
  ASSUME UNCHANGED sent
  PROVE  Fades
BY DEF Fades

LEMMA InboxSame ==
  ASSUME UNCHANGED dispatch, NEW s
  PROVE  Unresolved(s)' = Unresolved(s)
BY DEF Unresolved

\* a record is written the soft way, and nothing is sent
LEMMA SoftMove ==
  ASSUME InboxInv, NEW s \in Sessions, NEW v, SetWake(s, v),
         SoftWake(wake[s], v, Unresolved(s)),
         call' \in [Callers -> CallType], Ends, owed' = owed \/ owed' = Nothing,
         UNCHANGED <<dispatch, sent, crashes>>, UNCHANGED boundary, UNCHANGED agent
  PROVE  InboxInv'
<1>1. TypeOK  BY DEF InboxInv
<1>2. v \in Wake \cup {None}  BY <1>1, SoftType DEF TypeOK
<1>3. /\ wake'[s] = v /\ \A t \in Sessions : t # s => wake'[t] = wake[t]
      /\ wake' \in [Sessions -> Wake \cup {None}]
  BY <1>1, <1>2, Puts
<1>4. TypeOK'  BY <1>1, <1>3 DEF TypeOK, CallType, boundary, agent
<1>8. DispatchOK'  BY DEF InboxInv, DispatchOK
<1>5. Fades  BY SentSame
<1>6. \A t \in Sessions : KeepsInbox(t)  BY InboxSame DEF KeepsInbox
<1>7. \A t \in Sessions : SoftWake(wake[t], wake'[t], Unresolved(t))  BY <1>3 DEF SoftWake
<1> QED  BY <1>4, <1>5, <1>6, <1>7, <1>8, KeptStep DEF Ends

LEMMA OutdatedFades ==
  ASSUME TypeOK, NEW X, Outdated(X)
  PROVE  /\ sent' \in [Wakes -> [session : Sessions \cup {None}, fate : Fates,
                                 answered : BOOLEAN, current : BOOLEAN]]
         /\ Fades
         /\ \A s \in X : About(s)' = {}
<1> DEFINE SentType == [session : Sessions \cup {None}, fate : Fates,
                        answered : BOOLEAN, current : BOOLEAN]
<1>1. sent \in [Wakes -> SentType]  BY DEF TypeOK
<1>2. ASSUME NEW n \in Wakes
      PROVE  /\ sent'[n] \in SentType
             /\ sent'[n].session = sent[n].session /\ sent'[n].fate = sent[n].fate
             /\ sent'[n].answered = sent[n].answered
             /\ sent'[n].current => sent[n].current
             /\ sent[n].session \in X => ~sent'[n].current
  <2>1. sent'[n] = IF sent[n].session \in X THEN [sent[n] EXCEPT !.current = FALSE] ELSE sent[n]
    BY DEF Outdated
  <2>2. sent[n] \in SentType  BY <1>1
  <2>3. CASE sent[n].session \in X
    <3>1. sent'[n] = [sent[n] EXCEPT !.current = FALSE]  BY <2>1, <2>3
    <3> QED  BY <2>2, <3>1
  <2>4. CASE sent[n].session \notin X  BY <2>1, <2>2, <2>4
  <2> QED  BY <2>3, <2>4
<1>3. sent' \in [Wakes -> SentType]
  <2> DEFINE E(n) == IF sent[n].session \in X THEN [sent[n] EXCEPT !.current = FALSE] ELSE sent[n]
  <2>1. sent' = [n \in Wakes |-> E(n)]  BY DEF Outdated
  <2> HIDE DEF E, SentType
  <2>2. \A n \in Wakes : sent'[n] = E(n)  BY <2>1
  <2>3. \A n \in Wakes : E(n) \in SentType  BY <1>2, <2>2
  <2> QED  BY <2>1, <2>3
<1>4. Fades  BY <1>2 DEF Fades
<1>5. \A s \in X : About(s)' = {}  BY <1>2 DEF About
<1> QED  BY <1>3, <1>4, <1>5

DispatchType == [state : DispatchStates, session : Sessions \cup {None}]

\* the state of one dispatch changes
LEMMA OneDispatch ==
  ASSUME TypeOK, DispatchOK, NEW d \in Dispatches, NEW r \in DispatchType, r.session \in Sessions,
         dispatch' = [dispatch EXCEPT ![d] = r],
         NEW X,
         \/ dispatch[d].session \in X /\ r.session \in X
         \/ dispatch[d].state # "callback_pending" /\ r.state # "callback_pending"
         \/ dispatch[d] = r
  PROVE  /\ dispatch' \in [Dispatches -> DispatchType] /\ DispatchOK'
         /\ \A s : s \in X \/ Unresolved(s)' = Unresolved(s)
<1>1. dispatch \in [Dispatches -> DispatchType]  BY DEF TypeOK, DispatchType
<1>2. \A e \in Dispatches : dispatch'[e] = IF e = d THEN r ELSE dispatch[e]  BY <1>1
<1>3. ASSUME NEW s, s \notin X
      PROVE  Unresolved(s)' = Unresolved(s)
  <2>1. \A e \in Dispatches :
          /\ dispatch'[e].session = s /\ dispatch'[e].state = "callback_pending"
          <=> dispatch[e].session = s /\ dispatch[e].state = "callback_pending"
    BY <1>2, <1>3
  <2> QED  BY <2>1 DEF Unresolved
<1>4. DispatchOK'  BY <1>2 DEF DispatchOK
<1> QED  BY <1>1, <1>3, <1>4

OwedType == {Nothing} \cup [op : {"reconcile"}, of : Sessions] \cup [op : {"retire"}, of : Triggers]

\* the dispatches change, and the wakes sent about an inbox that does are outdated
LEMMA DispatchMove ==
  ASSUME InboxInv, dispatch' \in [Dispatches -> DispatchType], DispatchOK',
         NEW X, Outdated(X) \/ (UNCHANGED sent /\ X = {}),
         \A s : s \in X \/ Unresolved(s)' = Unresolved(s),
         owed' \in OwedType,
         UNCHANGED <<wake, call, crashes>>, UNCHANGED boundary, UNCHANGED agent
  PROVE  InboxInv'
<1>1. TypeOK  BY DEF InboxInv
<1>2. /\ sent' \in [Wakes -> [session : Sessions \cup {None}, fate : Fates,
                              answered : BOOLEAN, current : BOOLEAN]]
      /\ Fades /\ \A s \in X : About(s)' = {}
  <2>1. CASE Outdated(X)  BY <1>1, <2>1, OutdatedFades
  <2>2. CASE UNCHANGED sent /\ X = {}  BY <1>1, <2>2, SentSame DEF TypeOK
  <2> QED  BY <2>1, <2>2
<1>3. TypeOK'  BY <1>1, <1>2 DEF TypeOK, DispatchType, OwedType, boundary, agent
<1>4. \A s \in Sessions : KeepsInbox(s)  BY <1>2 DEF KeepsInbox
<1>5. \A s \in Sessions : SoftWake(wake[s], wake'[s], Unresolved(s))  BY DEF SoftWake
<1>6. Ends  BY <1>1, CallsSame
<1> QED  BY <1>2, <1>3, <1>4, <1>5, <1>6, KeptStep DEF Ends

-----------------------------------------------------------------------------
(* The supervisor's steps                                                  *)

LEMMA CreateKeeps ==
  ASSUME InboxInv, NEW d \in Dispatches, NEW s \in Sessions, CreateDispatch(d, s)
  PROVE  InboxInv'
<1>1. TypeOK  BY DEF InboxInv
<1>2. PICK state \in {"running", "failed"} :
        dispatch' = [dispatch EXCEPT ![d] = [state |-> state, session |-> s]]
  BY DEF CreateDispatch
<1> DEFINE r == [state |-> state, session |-> s]
<1>3. r \in DispatchType /\ r.state # "callback_pending"  BY DEF DispatchType, DispatchStates
<1>41. DispatchOK /\ r.session \in Sessions  BY DEF InboxInv
<1>4. dispatch[d].state # "callback_pending"  BY DEF CreateDispatch
<1>5. dispatch' = [dispatch EXCEPT ![d] = r]  BY <1>2
<1> DEFINE X == {}
<1> HIDE DEF r, X
<1>6. /\ dispatch' \in [Dispatches -> DispatchType] /\ DispatchOK'
      /\ \A t : t \in X \/ Unresolved(t)' = Unresolved(t)
  BY <1>1, <1>3, <1>4, <1>41, <1>5, OneDispatch
<1>7. owed' \in OwedType  BY <1>1 DEF TypeOK, OwedType, CreateDispatch
<1>8. UNCHANGED sent /\ X = {}  BY DEF CreateDispatch, X
<1>9. UNCHANGED <<wake, call, crashes>> /\ UNCHANGED boundary /\ UNCHANGED agent
  BY DEF CreateDispatch
<1> QED  BY <1>6, <1>7, <1>8, <1>9, DispatchMove

LEMMA MoveState ==
  ASSUME TypeOK, DispatchOK, NEW d \in Dispatches, dispatch[d].state # "absent",
         NEW state \in DispatchStates,
         dispatch' = [dispatch EXCEPT ![d].state = state], NEW X,
         \/ dispatch[d].session \in X
         \/ dispatch[d].state # "callback_pending" /\ state # "callback_pending"
         \/ dispatch[d].state = state
  PROVE  /\ dispatch' \in [Dispatches -> DispatchType] /\ DispatchOK'
         /\ \A s : s \in X \/ Unresolved(s)' = Unresolved(s)
<1> DEFINE r == [dispatch[d] EXCEPT !.state = state]
<1>1. dispatch[d] \in DispatchType  BY DEF TypeOK, DispatchType
<1>2. r \in DispatchType /\ r.state = state /\ r.session = dispatch[d].session
      /\ (dispatch[d].state = state => dispatch[d] = r)
  BY <1>1 DEF DispatchType
<1>3. dispatch' = [dispatch EXCEPT ![d] = r]  OBVIOUS
<1> HIDE DEF r
<1>4. \/ dispatch[d].session \in X /\ r.session \in X
      \/ dispatch[d].state # "callback_pending" /\ r.state # "callback_pending"
      \/ dispatch[d] = r
  BY <1>2
<1>5. r \in DispatchType /\ r.session \in Sessions  BY <1>2 DEF DispatchOK
<1> QED  BY <1>3, <1>4, <1>5, OneDispatch

LEMMA CaptureKeeps ==
  ASSUME InboxInv, NEW d \in Dispatches, CaptureTerminal(d)
  PROVE  InboxInv'
<1>1. TypeOK /\ DispatchOK  BY DEF InboxInv
<1> DEFINE X == {dispatch[d].session}
<1>2. /\ dispatch' \in [Dispatches -> DispatchType] /\ DispatchOK'
      /\ \A s : s \in X \/ Unresolved(s)' = Unresolved(s)
  BY <1>1, MoveState DEF CaptureTerminal, DispatchStates
<1>3. Outdated(X) /\ owed' \in OwedType  BY <1>1 DEF TypeOK, OwedType, CaptureTerminal
<1> HIDE DEF X
<1> QED  BY <1>2, <1>3, DispatchMove DEF CaptureTerminal

LEMMA AcknowledgeKeeps ==
  ASSUME InboxInv, NEW d \in Dispatches, Acknowledge(d)
  PROVE  InboxInv'
<1>1. TypeOK /\ DispatchOK  BY DEF InboxInv
<1> DEFINE X == IF dispatch[d].state = "callback_pending" THEN {dispatch[d].session} ELSE {}
<1>2. dispatch[d].state # "absent"  BY DEF Acknowledge
<1>3. /\ dispatch' \in [Dispatches -> DispatchType] /\ DispatchOK'
      /\ \A s : s \in X \/ Unresolved(s)' = Unresolved(s)
  <2>1. "acknowledged" \in DispatchStates  BY DEF DispatchStates
  <2>2. \/ dispatch[d].session \in X
        \/ dispatch[d].state # "callback_pending" /\ "acknowledged" # "callback_pending"
    OBVIOUS
  <2>3. dispatch' = [dispatch EXCEPT ![d].state = "acknowledged"]  BY DEF Acknowledge
  <2> HIDE DEF X
  <2> QED  BY <1>1, <1>2, <2>1, <2>2, <2>3, MoveState
<1>4. Outdated(X)  BY DEF Acknowledge
<1>5. owed' \in OwedType  BY <1>1, <1>2 DEF DispatchOK, OwedType, Acknowledge, Reconcile
<1>6. UNCHANGED <<wake, call, crashes>> /\ UNCHANGED boundary /\ UNCHANGED agent
  BY DEF Acknowledge
<1> HIDE DEF X
<1> QED  BY <1>3, <1>4, <1>5, <1>6, DispatchMove

LEMMA CloseKeeps ==
  ASSUME InboxInv, NEW d \in Dispatches, Close(d)
  PROVE  InboxInv'
<1>1. TypeOK /\ DispatchOK  BY DEF InboxInv
<1> DEFINE X == {}
<1>2. dispatch[d].state # "absent"  BY DEF Close
<1>3. /\ dispatch' \in [Dispatches -> DispatchType] /\ DispatchOK'
      /\ \A s : s \in X \/ Unresolved(s)' = Unresolved(s)
  <2>1. "closed" \in DispatchStates  BY DEF DispatchStates
  <2>2. dispatch[d].state # "callback_pending" /\ "closed" # "callback_pending"  BY DEF Close
  <2>3. dispatch' = [dispatch EXCEPT ![d].state = "closed"]  BY DEF Close
  <2> HIDE DEF X
  <2> QED  BY <1>1, <1>2, <2>1, <2>2, <2>3, MoveState
<1>4. UNCHANGED sent /\ X = {}  BY DEF Close
<1>5. owed' \in OwedType  BY <1>1, <1>2 DEF DispatchOK, OwedType, Close, Reconcile
<1>6. UNCHANGED <<wake, call, crashes>> /\ UNCHANGED boundary /\ UNCHANGED agent
  BY DEF Close
<1> HIDE DEF X
<1> QED  BY <1>3, <1>4, <1>5, <1>6, DispatchMove

LEMMA RetryCallbackKeeps ==
  ASSUME InboxInv, NEW d \in Dispatches, RetryCallback(d)
  PROVE  InboxInv'
<1>1. TypeOK /\ DispatchOK  BY DEF InboxInv
<1> DEFINE X == IF dispatch[d].state # "callback_pending" THEN {dispatch[d].session} ELSE {}
<1>2. dispatch[d].state # "absent"  BY DEF RetryCallback
<1>3. /\ dispatch' \in [Dispatches -> DispatchType] /\ DispatchOK'
      /\ \A s : s \in X \/ Unresolved(s)' = Unresolved(s)
  <2>1. "callback_pending" \in DispatchStates  BY DEF DispatchStates
  <2>2. dispatch[d].session \in X \/ dispatch[d].state = "callback_pending"
    OBVIOUS
  <2>3. dispatch' = [dispatch EXCEPT ![d].state = "callback_pending"]  BY DEF RetryCallback
  <2> HIDE DEF X
  <2> QED  BY <1>1, <1>2, <2>1, <2>2, <2>3, MoveState
<1>4. Outdated(X) /\ owed' \in OwedType  BY <1>1 DEF TypeOK, OwedType, RetryCallback
<1>6. UNCHANGED <<wake, call, crashes>> /\ UNCHANGED boundary /\ UNCHANGED agent
  BY DEF RetryCallback
<1> HIDE DEF X
<1> QED  BY <1>3, <1>4, <1>6, DispatchMove

LEMMA UnresolvedType ==
  ASSUME NEW s
  PROVE  Unresolved(s) \in SUBSET Dispatches
BY DEF Unresolved

LEMMA RunReconcileKeeps ==
  ASSUME InboxInv, RunReconcile
  PROVE  InboxInv'
<1>1. TypeOK  BY DEF InboxInv
<1> DEFINE s == owed.of
<1>2. s \in Sessions  BY <1>1 DEF TypeOK, RunReconcile, Nothing
<1>3. wake[s] \in Wake \cup {None}  BY <1>1, <1>2 DEF TypeOK
<1>4. SoftWake(wake[s], Reconciled(wake[s], Unresolved(s)), Unresolved(s))
  BY <1>3, ReconciledIsSoft, UnresolvedType
<1>5. call' \in [Callers -> CallType] /\ Ends  BY <1>1, CallsSame DEF RunReconcile
<1> QED  BY <1>2, <1>4, <1>5, SoftMove DEF RunReconcile

-----------------------------------------------------------------------------
(* The steps of an activation that write a record the soft way             *)

LEMMA RecordOK ==
  ASSUME InboxInv, NEW s \in Sessions
  PROVE  TypeOK /\ wake[s] \in Wake \cup {None} /\ PendingOK(wake[s])
BY DEF InboxInv, TypeOK, InboxOK, Counts, PendingOK

LEMMA CallerSession ==
  ASSUME InboxInv, NEW c \in Callers, call[c].pc # "idle"
  PROVE  call[c].session \in Sessions
BY DEF InboxInv, CallOK

LEMMA SoftSame ==
  ASSUME NEW w, NEW U
  PROVE  SoftWake(w, w, U)
BY DEF SoftWake

LEMMA SeenBusyKeeps ==
  ASSUME InboxInv, NEW s \in Sessions, SeenBusy(s)
  PROVE  InboxInv'
<1>1. SoftWake(wake[s], BusyNoted(wake[s]), Unresolved(s))  BY RecordOK, BusyIsSoft
<1>2. call' \in [Callers -> CallType] /\ Ends  BY RecordOK, CallsSame DEF SeenBusy
<1> QED  BY <1>1, <1>2, SoftMove DEF SeenBusy

LEMMA LeaseExpiresKeeps ==
  ASSUME InboxInv, NEW s \in Sessions, LeaseExpires(s)
  PROVE  InboxInv'
<1> DEFINE v == [wake[s] EXCEPT !.lease = "over"]
<1>1. wake[s] \in Wake /\ PendingOK(wake[s])  BY RecordOK DEF LeaseExpires
<1>2. SoftWake(wake[s], v, Unresolved(s))  BY <1>1, TimeIsSoft
<1>3. call' \in [Callers -> CallType] /\ Ends  BY RecordOK, CallsSame DEF LeaseExpires
<1>4. SetWake(s, v)  BY DEF LeaseExpires
<1> HIDE DEF v
<1> QED  BY <1>2, <1>3, <1>4, SoftMove DEF LeaseExpires

LEMMA DelayElapsesKeeps ==
  ASSUME InboxInv, NEW s \in Sessions, DelayElapses(s)
  PROVE  InboxInv'
<1> DEFINE v == [wake[s] EXCEPT !.delayed = FALSE]
<1>1. wake[s] \in Wake /\ PendingOK(wake[s])  BY RecordOK DEF DelayElapses
<1>2. SoftWake(wake[s], v, Unresolved(s))  BY <1>1, TimeIsSoft
<1>3. call' \in [Callers -> CallType] /\ Ends  BY RecordOK, CallsSame DEF DelayElapses
<1>4. SetWake(s, v)  BY DEF DelayElapses
<1> HIDE DEF v
<1> QED  BY <1>2, <1>3, <1>4, SoftMove DEF DelayElapses

\* an activation that ends, having written a record of its session the soft way
LEMMA LastWrite ==
  ASSUME InboxInv, NEW c \in Callers, call[c].pc # "idle", NEW v,
         SetWake(call[c].session, v),
         SoftWake(wake[call[c].session], v, Unresolved(call[c].session)), Leave(c),
         UNCHANGED <<dispatch, sent, owed, crashes>>, UNCHANGED boundary, UNCHANGED agent
  PROVE  InboxInv'
<1>1. call[c].session \in Sessions  BY CallerSession
<1>2. call' \in [Callers -> CallType] /\ Ends  BY Leaves DEF InboxInv
<1> QED  BY <1>1, <1>2, SoftMove

LEMMA ProbeBusyKeeps ==
  ASSUME InboxInv, NEW c \in Callers, ProbeBusy(c)
  PROVE  InboxInv'
<1> DEFINE s == call[c].session
<1>1. call[c].pc # "idle"  BY DEF ProbeBusy
<1>2. s \in Sessions  BY <1>1, CallerSession
<1>3. SoftWake(wake[s], BusyNoted(wake[s]), Unresolved(s))  BY <1>2, RecordOK, BusyIsSoft
<1> QED  BY <1>1, <1>3, LastWrite DEF ProbeBusy

LEMMA ProbeFailsKeeps ==
  ASSUME InboxInv, NEW c \in Callers, ProbeFails(c)
  PROVE  InboxInv'
<1> DEFINE s == call[c].session
<1>1. call[c].pc # "idle" /\ TypeOK  BY DEF ProbeFails, InboxInv
<1>2. wake' = [wake EXCEPT ![s] = wake[s]]
  <2>1. wake' = wake  BY DEF ProbeFails
  <2> QED  BY <1>1, <2>1 DEF TypeOK
<1>3. SetWake(s, wake[s])  BY <1>2 DEF SetWake
<1>4. SoftWake(wake[s], wake[s], Unresolved(s))  BY SoftSame
<1> QED  BY <1>1, <1>3, <1>4, LastWrite DEF ProbeFails

LEMMA ClaimResolvesKeeps ==
  ASSUME InboxInv, NEW c \in Callers, ClaimResolves(c)
  PROVE  InboxInv'
<1> DEFINE s == call[c].session
           v == IF wake[s] = None THEN None ELSE [Released(wake[s]) EXCEPT !.state = "resolved"]
<1>1. call[c].pc # "idle"  BY DEF ClaimResolves
<1>2. s \in Sessions  BY <1>1, CallerSession
<1>3. SoftWake(wake[s], v, Unresolved(s))
  <2>1. CASE wake[s] = None  BY <2>1, SoftSame
  <2>2. CASE wake[s] # None
    <3>1. wake[s] \in Wake  BY <1>2, <2>2, RecordOK
    <3>2. v = [Released(wake[s]) EXCEPT !.state = "resolved"]  BY <2>2
    <3> HIDE DEF v
    <3> QED  BY <3>1, <3>2, ResolvedIsSoft
  <2> QED  BY <2>1, <2>2
<1>4. SetWake(s, v)  BY DEF ClaimResolves
<1> HIDE DEF v
<1> QED  BY <1>1, <1>3, <1>4, LastWrite DEF ClaimResolves

LEMMA ClaimRefusedKeeps ==
  ASSUME InboxInv, NEW c \in Callers, ClaimRefused(c)
  PROVE  InboxInv'
<1> DEFINE s == call[c].session
<1>1. call[c].pc # "idle"  BY DEF ClaimRefused
<1>2. s \in Sessions  BY <1>1, CallerSession
<1>3. SoftWake(wake[s], Settled(wake[s], Unresolved(s)), Unresolved(s))
  BY <1>2, RecordOK, SettledIsSoft, UnresolvedType
<1> QED  BY <1>1, <1>3, LastWrite DEF ClaimRefused

LEMMA CheckedIsSoft ==
  ASSUME InboxInv, NEW s \in Sessions, NEW claim
  PROVE  SoftWake(wake[s], Checked(claim, s), Unresolved(s))
BY RecordOK, ReconciledIsSoft, UnresolvedType, SoftSame DEF Checked

LEMMA ReadyKeeps ==
  ASSUME InboxInv, NEW c \in Callers, Ready(c)
  PROVE  InboxInv'
<1> DEFINE s == call[c].session
           v == Checked(call[c].claim, s)
<1>1. call[c].pc = "ready" /\ TypeOK  BY DEF Ready, InboxInv
<1>2. s \in Sessions  BY <1>1, CallerSession
<1>3. SoftWake(wake[s], v, Unresolved(s))  BY <1>2, CheckedIsSoft
<1>4. call' \in [Callers -> CallType] /\ Ends
  <2>1. Leave(c) \/ Goto(c, "adapter")  BY DEF Ready
  <2>2. "adapter" \in Phases  BY DEF Phases
  <2> QED  BY <1>1, <2>1, <2>2, Leaves, Goes
<1>5. SetWake(s, v)  BY DEF Ready
<1> HIDE DEF v
<1> QED  BY <1>2, <1>3, <1>4, <1>5, SoftMove DEF Ready

\* markSubmissionFailed of an activation that then ends
LEMMA FailKeeps ==
  ASSUME InboxInv, NEW c \in Callers, call[c].pc # "idle", NEW w,
         SoftWake(wake[call[c].session], w, Unresolved(call[c].session)),
         Fail(c, w), Leave(c),
         UNCHANGED <<dispatch, sent, owed, crashes>>, UNCHANGED boundary, UNCHANGED agent
  PROVE  InboxInv'
<1> DEFINE s == call[c].session
           U == Unresolved(s)
           x == SubmissionFailed(w, call[c].claim)
<1>1. s \in Sessions  BY CallerSession
<1>2. wake[s] \in Wake \cup {None}  BY <1>1, RecordOK
<1>3. w \in Wake \cup {None}  BY <1>2, SoftType
<1>4. SoftWake(w, x, U)  BY <1>3, SubmissionFailedIsSoft
<1>5. SoftWake(wake[s], x, U)  BY <1>2, <1>4, SoftTwice
<1>6. CASE Current(call[c].claim, s)
  <2>1. SetWake(s, x)  BY <1>6 DEF Fail
  <2> HIDE DEF x
  <2> QED  BY <1>5, <2>1, LastWrite
<1>7. CASE ~Current(call[c].claim, s)
  <2>1. SetWake(s, w)  BY <1>7 DEF Fail
  <2> QED  BY <2>1, LastWrite
<1> QED  BY <1>6, <1>7

LEMMA FailuresKeep ==
  ASSUME InboxInv, NEW c \in Callers,
         DeliveryFails(c) \/ RejectedCounts(c) \/ Uncertain(c)
  PROVE  InboxInv'
<1> DEFINE w == wake[call[c].session]
<1>1. call[c].pc # "idle"  BY DEF DeliveryFails, RejectedCounts, Uncertain
<1>2. Fail(c, w) /\ Leave(c)  BY DEF DeliveryFails, RejectedCounts, Uncertain
<1>3. UNCHANGED <<dispatch, sent, owed, crashes>> /\ UNCHANGED boundary /\ UNCHANGED agent
  BY DEF DeliveryFails, RejectedCounts, Uncertain
<1>4. SoftWake(w, w, Unresolved(call[c].session))  BY SoftSame
<1> QED  BY <1>1, <1>2, <1>3, <1>4, FailKeeps

LEMMA SendRefusedKeeps ==
  ASSUME InboxInv, NEW c \in Callers, SendRefused(c)
  PROVE  InboxInv'
<1> DEFINE s == call[c].session
           w == Checked(call[c].claim, s)
<1>1. call[c].pc # "idle"  BY DEF SendRefused
<1>2. s \in Sessions  BY <1>1, CallerSession
<1>3. SoftWake(wake[s], w, Unresolved(s))  BY <1>2, CheckedIsSoft
<1>4. Fail(c, w) /\ Leave(c)  BY DEF SendRefused
<1> HIDE DEF w
<1> QED  BY <1>1, <1>3, <1>4, FailKeeps DEF SendRefused

LEMMA FinishKeeps ==
  ASSUME InboxInv, NEW c \in Callers, Finish(c)
  PROVE  InboxInv'
<1> DEFINE s == call[c].session
<1>1. call[c].pc # "idle" /\ TypeOK  BY DEF Finish, InboxInv
<1>2. s \in Sessions  BY <1>1, CallerSession
<1>3. CASE SetWake(s, BusyNoted(wake[s]))
  <2>1. SoftWake(wake[s], BusyNoted(wake[s]), Unresolved(s))  BY <1>2, RecordOK, BusyIsSoft
  <2> QED  BY <1>1, <1>3, <2>1, LastWrite DEF Finish
<1>4. CASE wake' = wake
  <2>1. wake' = [wake EXCEPT ![s] = wake[s]]  BY <1>1, <1>4 DEF TypeOK
  <2>2. SetWake(s, wake[s])  BY <2>1 DEF SetWake
  <2>3. SoftWake(wake[s], wake[s], Unresolved(s))  BY SoftSame
  <2> QED  BY <1>1, <2>2, <2>3, LastWrite DEF Finish
<1> QED  BY <1>3, <1>4 DEF Finish

-----------------------------------------------------------------------------
(* The environment's steps                                                 *)

LEMMA AutoBeginKeeps ==
  ASSUME InboxInv, NEW c \in Callers, NEW s \in Sessions, AutoBegin(c, s)
  PROVE  InboxInv'
<1>1. TypeOK /\ Alone  BY DEF InboxInv
<1> DEFINE r == [Idle EXCEPT !.pc = "probe", !.session = s]
<1>2. r \in CallType /\ r.pc = "probe" /\ r.session = s /\ r.reply = "none"
  <2>1. Idle \in CallType /\ Idle.reply = "none" /\ "probe" \in Phases
    BY IdleType DEF Idle, Phases
  <2> QED  BY <2>1 DEF CallType
<1>3. call \in [Callers -> CallType]  BY <1>1 DEF TypeOK, CallType
<1>4. call' = [call EXCEPT ![c] = r]  BY DEF AutoBegin, Enter
<1> HIDE DEF r
<1>5. \A d \in Callers : call'[d] = IF d = c THEN r ELSE call[d]  BY <1>3, <1>4
<1>6. TypeOK'
  <2>1. call' \in [Callers -> CallType]  BY <1>2, <1>3, <1>4
  <2> QED  BY <1>1, <2>1 DEF TypeOK, CallType, AutoBegin, boundary, agent
<1>7. Alone'
  <2>1. \A d \in Callers : call[d].pc # "idle" => call[d].session # s
    BY DEF AutoBegin, InFlight
  <2> QED  BY <1>1, <1>2, <1>5, <2>1 DEF Alone
<1>8. UNCHANGED <<dispatch, wake, sent>>  BY DEF AutoBegin
<1>9. Fades /\ FatesKept /\ \A t : LessAbout(t)  BY <1>8, SentSame, FewerAbout
<1>10. ASSUME NEW d \in Callers PROVE CallOK(d)' /\ HoldOK(d)'
  <2>1. CASE d = c  BY <1>2, <1>5, <2>1 DEF CallOK, HoldOK
  <2>2. CASE call'[d].pc = "idle"  BY <2>2 DEF CallOK, HoldOK
  <2>3. CASE d # c /\ call'[d].pc # "idle"
    <3>1. CallOK(d) /\ HoldOK(d)  BY DEF InboxInv
    <3>2. Carries(d)  BY <1>5, <2>3 DEF Carries
    <3>3. call[d].session \in Sessions  BY <1>5, <2>3, <3>1 DEF CallOK
    <3> DEFINE t == call[d].session
    <3>4. SoftWake(wake[t], wake'[t], Unresolved(t))  BY <1>8, SoftSame
    <3> QED  BY <1>1, <1>9, <3>1, <3>2, <3>3, <3>4, CallKept, HoldKept
  <2> QED  BY <2>1, <2>2, <2>3
<1>11. ASSUME NEW t \in Sessions PROVE InboxOK(t)'
  <2>1. SoftWake(wake[t], wake'[t], Unresolved(t))  BY <1>8, SoftSame
  <2>2. KeepsInbox(t)  BY <1>8, InboxSame DEF KeepsInbox
  <2> QED  BY <1>1, <1>9, <2>1, <2>2, InboxKept DEF InboxInv
<1>12. SentOK' /\ DispatchOK'  BY <1>8, <1>9, SentKept DEF InboxInv, DispatchOK
<1> QED  BY <1>6, <1>7, <1>10, <1>11, <1>12 DEF InboxInv

\* only what the agent, the boundary or the process does changes
LEMMA OutsideMove ==
  ASSUME InboxInv, TypeOK', Ends, UNCHANGED <<dispatch, wake, sent>>
  PROVE  InboxInv'
<1>1. Fades  BY SentSame
<1>2. \A t \in Sessions : KeepsInbox(t)  BY InboxSame DEF KeepsInbox
<1>3. \A t \in Sessions : SoftWake(wake[t], wake'[t], Unresolved(t))  BY SoftSame
<1>4. DispatchOK'  BY DEF InboxInv, DispatchOK
<1> QED  BY <1>1, <1>2, <1>3, <1>4, KeptStep DEF Ends

LEMMA AgentKeeps ==
  ASSUME InboxInv, NEW s \in Sessions,
         TurnEnds(s) \/ DirectTurnBegins(s) \/ DirectTurnPublished(s)
  PROVE  InboxInv'
<1>1. TypeOK  BY DEF InboxInv
<1>2. /\ UNCHANGED <<dispatch, wake, call, sent, owed, crashes>> /\ UNCHANGED boundary
      /\ turn' \subseteq turn \cup {s} /\ unpublished' \subseteq unpublished \cup {s}
  BY DEF TurnEnds, DirectTurnBegins, DirectTurnPublished
<1>3. TypeOK'  BY <1>1, <1>2 DEF TypeOK, boundary
<1>4. Ends  BY <1>1, <1>2, CallsSame
<1> QED  BY <1>2, <1>3, <1>4, OutsideMove

LEMMA BoundaryKeeps ==
  ASSUME InboxInv, NEW g \in Triggers,
         RetryBoundary(g) \/ (\E s \in Sessions : CaptureBoundary(g, s))
  PROVE  InboxInv'
<1>1. TypeOK  BY DEF InboxInv
<1>2. /\ UNCHANGED <<dispatch, wake, call, sent, retired, crashes>> /\ UNCHANGED agent
      /\ owed' = [op |-> "retire", of |-> g]
  BY DEF RetryBoundary, CaptureBoundary, boundary
<1> DEFINE CutType == {None} \cup [session : Sessions, callbacks : SUBSET Dispatches,
                                   fp : SUBSET Dispatches, attempt : Attempts]
<1>3. cut \in [Triggers -> CutType]  BY <1>1 DEF TypeOK
<1>4. cut' \in [Triggers -> CutType]
  <2>1. CASE RetryBoundary(g)  BY <1>3, <2>1 DEF RetryBoundary, boundary
  <2>2. ASSUME NEW s \in Sessions, CaptureBoundary(g, s) PROVE cut' \in [Triggers -> CutType]
    <3> DEFINE fp == IF wake[s] = None THEN {} ELSE wake[s].fp
               attempt == IF wake[s] = None THEN 0 ELSE wake[s].attempt
               r == [session |-> s, callbacks |-> Unresolved(s), fp |-> fp, attempt |-> attempt]
    <3>1. wake[s] \in Wake \cup {None}  BY RecordOK
    <3>2. fp \in SUBSET Dispatches /\ attempt \in Attempts
      BY <3>1, InboxAssumption DEF Wake, Attempts
    <3>3. cut' = [cut EXCEPT ![g] = r]  BY <2>2 DEF CaptureBoundary
    <3> HIDE DEF fp, attempt
    <3>4. r \in CutType  BY <3>2, UnresolvedType
    <3> HIDE DEF r, CutType
    <3> QED  BY <1>3, <3>3, <3>4
  <2> QED  BY <2>1, <2>2
<1>5. owed' \in OwedType  BY <1>2 DEF OwedType
<1>6. TypeOK'
  <2> HIDE DEF CutType
  <2>1. /\ dispatch' = dispatch /\ wake' = wake /\ call' = call /\ sent' = sent
        /\ retired' = retired /\ crashes' = crashes /\ turn' = turn /\ unpublished' = unpublished
    BY <1>2 DEF agent
  <2> QED  BY <1>1, <1>4, <1>5, <2>1 DEF TypeOK, OwedType, CutType
<1>7. Ends  BY <1>1, <1>2, CallsSame
<1> QED  BY <1>2, <1>6, <1>7, OutsideMove

LEMMA CrashKeeps ==
  ASSUME InboxInv, Crash
  PROVE  InboxInv'
<1>1. TypeOK  BY DEF InboxInv
<1>2. call' \in [Callers -> CallType]  BY IdleType DEF Crash
<1>3. \A c \in Callers : call'[c].pc = "idle"  BY DEF Crash, Idle
<1>4. TypeOK'  BY <1>1, <1>2 DEF TypeOK, CallType, Crash, boundary, agent
<1> QED  BY <1>3, <1>4, OutsideMove DEF Crash, Ends

LEMMA StutterKeeps ==
  ASSUME InboxInv, UNCHANGED vars
  PROVE  InboxInv'
<1>1. TypeOK  BY DEF InboxInv
<1>2. TypeOK'  BY <1>1 DEF TypeOK, vars
<1>3. Ends  BY <1>1, CallsSame DEF vars
<1> QED  BY <1>2, <1>3, OutsideMove DEF vars

LEMMA AgentAnswersKeeps ==
  ASSUME InboxInv, NEW n \in Wakes, AgentAnswers(n)
  PROVE  InboxInv'
<1>1. TypeOK  BY DEF InboxInv
<1>2. PICK fate \in {"run", "refused", "dropped"}, reply \in {"ok", "refused", "error"} :
        /\ fate = "refused" <=> reply = "refused"
        /\ fate = "dropped" => reply = "error"
        /\ sent' = [sent EXCEPT ![n].fate = fate]
        /\ call' = [c \in Callers |-> IF call[c].pc = "sent" /\ call[c].sub = n
                                        THEN [call[c] EXCEPT !.reply = reply] ELSE call[c]]
        /\ turn' = IF fate = "run" THEN turn \cup {sent[n].session} ELSE turn
  BY DEF AgentAnswers
<1> DEFINE SentType == [session : Sessions \cup {None}, fate : Fates,
                        answered : BOOLEAN, current : BOOLEAN]
<1>3. sent \in [Wakes -> SentType]  BY <1>1 DEF TypeOK
<1>4. fate \in Fates /\ reply \in Replies /\ fate # "none"  BY DEF Fates, Replies
<1>5. /\ sent' \in [Wakes -> SentType]
      /\ sent'[n].fate = fate /\ sent'[n].session = sent[n].session
      /\ sent'[n].current = sent[n].current /\ sent'[n].answered = sent[n].answered
      /\ \A m \in Wakes : m # n => sent'[m] = sent[m]
  BY <1>2, <1>3, <1>4
<1>6. sent[n].fate = "wire"  BY DEF AgentAnswers
<1>7. Fades  BY <1>4, <1>5, <1>6 DEF Fades
<1>8. call \in [Callers -> CallType]  BY <1>1 DEF TypeOK, CallType
<1>9. ASSUME NEW c \in Callers PROVE call'[c] \in CallType /\ Carries(c)
  <2>1. CASE call[c].pc = "sent" /\ call[c].sub = n
    <3>1. call'[c] = [call[c] EXCEPT !.reply = reply]  BY <1>2, <2>1
    <3>2. call[c] \in CallType  BY <1>8
    <3>3. /\ call'[c] \in CallType /\ call'[c].reply = reply
          /\ call'[c].pc = call[c].pc /\ call'[c].session = call[c].session
          /\ call'[c].claim = call[c].claim /\ call'[c].sub = call[c].sub
      BY <1>4, <3>1, <3>2 DEF CallType
    <3>4. reply = "ok" => fate = "run"  BY <1>2
    <3> QED  BY <1>5, <2>1, <3>3, <3>4 DEF Carries
  <2>2. CASE ~(call[c].pc = "sent" /\ call[c].sub = n)
    <3>1. call'[c] = call[c]  BY <1>2, <2>2
    <3> QED  BY <1>8, <3>1 DEF Carries
  <2> QED  BY <2>1, <2>2
<1>10. call' \in [Callers -> CallType]
  <2> DEFINE E(c) == IF call[c].pc = "sent" /\ call[c].sub = n
                       THEN [call[c] EXCEPT !.reply = reply] ELSE call[c]
  <2>1. call' = [c \in Callers |-> E(c)]  BY <1>2
  <2> HIDE DEF E
  <2>2. \A c \in Callers : call'[c] = E(c)  BY <2>1
  <2>3. \A c \in Callers : E(c) \in CallType  BY <1>9, <2>2
  <2> QED  BY <2>1, <2>3
<1>11. sent[n].session \in Sessions  BY <1>6 DEF InboxInv, SentOK
<1>12. turn' \subseteq Sessions  BY <1>1, <1>2, <1>11 DEF TypeOK
<1>13. UNCHANGED <<dispatch, wake, owed, unpublished, crashes>> /\ UNCHANGED boundary
  BY DEF AgentAnswers
<1>14. TypeOK'  BY <1>1, <1>5, <1>10, <1>12, <1>13 DEF TypeOK, CallType, boundary
<1>15. \A t \in Sessions : KeepsInbox(t)  BY <1>13, InboxSame DEF KeepsInbox
<1>16. \A t \in Sessions : SoftWake(wake[t], wake'[t], Unresolved(t))  BY <1>13, SoftSame
<1>17. DispatchOK'  BY <1>13 DEF InboxInv, DispatchOK
<1> QED  BY <1>7, <1>9, <1>14, <1>15, <1>16, <1>17, KeptStep

\* the snapshot's callbacks are superseded, and its record is resolved if it is
\* still the one that was saved
LEMMA RunRetireKeeps ==
  ASSUME InboxInv, RunRetire
  PROVE  InboxInv'
<1>1. TypeOK  BY DEF InboxInv
<1> DEFINE g == owed.of
           s == cut[g].session
           v == IF wake[s] # None /\ wake[s].fp = cut[g].fp /\ wake[s].attempt = cut[g].attempt
                  THEN [Released(wake[s]) EXCEPT !.state = "resolved"] ELSE wake[s]
           R == Retires(g)
           X == IF R # {} THEN {s} ELSE {}
<1>2. g \in Triggers  BY <1>1 DEF TypeOK, RunRetire, Nothing
<1>3. /\ retired' = retired \cup {g} /\ owed' = Nothing
      /\ UNCHANGED <<call, cut, crashes>> /\ UNCHANGED agent
  BY DEF RunRetire
<1>4. Ends  BY <1>1, <1>3, CallsSame
<1>5. CASE g \in retired
  <2>1. UNCHANGED <<dispatch, wake, sent>>  BY <1>5 DEF RunRetire
  <2>2. retired' = retired  BY <1>3, <1>5
  <2>3. TypeOK'  BY <1>1, <1>3, <2>1, <2>2 DEF TypeOK, agent
  <2> QED  BY <1>4, <2>1, <2>3, OutsideMove
<1>6. CASE g \notin retired
  <2>1. /\ dispatch' = [d \in Dispatches |-> IF d \in R
                          THEN [dispatch[d] EXCEPT !.state = "superseded"] ELSE dispatch[d]]
        /\ wake' = [wake EXCEPT ![s] = v]
        /\ Outdated(X)
    BY <1>6 DEF RunRetire, SetWake
  <2>2. R \subseteq Unresolved(s)  BY DEF Retires
  <2> HIDE DEF v, R, X, s, g
  <2>3. /\ sent' \in [Wakes -> [session : Sessions \cup {None}, fate : Fates,
                                answered : BOOLEAN, current : BOOLEAN]]
        /\ Fades /\ \A t \in X : About(t)' = {}
    BY <1>1, <2>1, OutdatedFades
  <2>4. ASSUME NEW d \in Dispatches
        PROVE  /\ dispatch'[d] \in DispatchType
               /\ dispatch'[d].session = dispatch[d].session
               /\ d \notin R => dispatch'[d].state = dispatch[d].state
               /\ d \in R => dispatch'[d].state = "superseded"
    <3>1. dispatch[d] \in DispatchType  BY <1>1 DEF TypeOK, DispatchType
    <3>2. CASE d \in R
      <4>1. dispatch'[d] = [dispatch[d] EXCEPT !.state = "superseded"]  BY <2>1, <3>2
      <4> QED  BY <3>1, <3>2, <4>1 DEF DispatchType, DispatchStates
    <3>3. CASE d \notin R  BY <2>1, <3>1, <3>3
    <3> QED  BY <3>2, <3>3
  <2>5. dispatch' \in [Dispatches -> DispatchType]
    <3> DEFINE E(d) == IF d \in R THEN [dispatch[d] EXCEPT !.state = "superseded"] ELSE dispatch[d]
    <3>1. dispatch' = [d \in Dispatches |-> E(d)]  BY <2>1
    <3> HIDE DEF E
    <3>2. \A d \in Dispatches : dispatch'[d] = E(d)  BY <3>1
    <3>3. \A d \in Dispatches : E(d) \in DispatchType  BY <2>4, <3>2
    <3> QED  BY <3>1, <3>3
  <2>6. DispatchOK'
    <3>1. \A d \in R : dispatch[d].session \in Sessions
      BY <2>2 DEF InboxInv, DispatchOK, Unresolved
    <3> QED  BY <2>4, <3>1 DEF InboxInv, DispatchOK
  <2>7. ASSUME NEW t \in Sessions PROVE KeepsInbox(t)
    <3>1. CASE t \in X  BY <2>3, <3>1 DEF KeepsInbox
    <3>2. CASE t \notin X
      <4>1. \A d \in R : dispatch[d].session # t
        BY <2>2, <3>2 DEF X, Unresolved
      <4>2. \A d \in Dispatches :
              /\ dispatch'[d].session = t /\ dispatch'[d].state = "callback_pending"
              <=> dispatch[d].session = t /\ dispatch[d].state = "callback_pending"
        BY <2>4, <4>1
      <4> QED  BY <4>2 DEF KeepsInbox, Unresolved
    <3> QED  BY <3>1, <3>2
  <2>8. ASSUME NEW t \in Sessions
        PROVE  wake'[t] \in Wake \cup {None} /\ SoftWake(wake[t], wake'[t], Unresolved(t))
    <3>1. wake[t] \in Wake \cup {None}  BY RecordOK
    <3>2. CASE wake'[t] = wake[t]  BY <3>1, <3>2, SoftSame
    <3>3. CASE wake'[t] # wake[t]
      <4>1. t = s /\ wake'[t] = v  BY <1>1, <2>1, <3>3 DEF TypeOK
      <4>2. wake[t] # None /\ wake'[t] = [Released(wake[t]) EXCEPT !.state = "resolved"]
        BY <3>3, <4>1 DEF v
      <4>3. SoftWake(wake[t], wake'[t], Unresolved(t))  BY <3>1, <4>2, ResolvedIsSoft
      <4> QED  BY <3>1, <4>3, SoftType
    <3> QED  BY <3>2, <3>3
  <2>9. wake' \in [Sessions -> Wake \cup {None}]
    <3>1. wake' = [t \in Sessions |-> wake'[t]]  BY <1>1, <2>1 DEF TypeOK
    <3> QED  BY <2>8, <3>1
  <2>10. TypeOK'
    BY <1>1, <1>2, <1>3, <2>3, <2>5, <2>9 DEF TypeOK, DispatchType, agent
  <2> QED  BY <1>4, <2>3, <2>6, <2>7, <2>8, <2>10, KeptStep DEF Ends
<1> QED  BY <1>5, <1>6

-----------------------------------------------------------------------------
(* Claiming, sending, and the answer: what makes a record stand for more   *)

\* an activation changes its own state, the record of its session, and what is
\* known of the wakes about it
LEMMA OneCaller ==
  ASSUME InboxInv, TypeOK', SentOK', NEW c \in Callers, call[c].pc # "idle",
         NEW s \in Sessions, s = call[c].session, call'[c].session = s,
         \A d \in Callers : d # c => call'[d] = call[d],
         \A t \in Sessions : t # s => wake'[t] = wake[t] /\ LessAbout(t),
         FatesKept, UNCHANGED dispatch, CallOK(c)', HoldOK(c)', InboxOK(s)'
  PROVE  InboxInv'
<1>1. TypeOK /\ Alone  BY DEF InboxInv
<1>2. Alone'
  <2>1. \A d \in Callers : call'[d].pc # "idle" =>
          call[d].pc # "idle" /\ call'[d].session = call[d].session
    OBVIOUS
  <2> QED  BY <1>1, <2>1 DEF Alone
<1>3. ASSUME NEW d \in Callers PROVE CallOK(d)' /\ HoldOK(d)'
  <2>1. CASE d = c  BY <2>1
  <2>2. CASE call'[d].pc = "idle"  BY <2>2 DEF CallOK, HoldOK
  <2>3. CASE d # c /\ call'[d].pc # "idle"
    <3>1. CallOK(d) /\ HoldOK(d)  BY DEF InboxInv
    <3>2. call[d].pc # "idle" /\ Carries(d)  BY <2>3 DEF Carries
    <3>3. PICK t \in Sessions : t = call[d].session  BY <3>1, <3>2 DEF CallOK
    <3>4. t # s  BY <1>1, <2>3, <3>2, <3>3 DEF Alone
    <3>5. wake'[t] = wake[t] /\ LessAbout(t)  BY <3>4
    <3>6. SoftWake(wake[t], wake'[t], Unresolved(t))  BY <3>5, SoftSame
    <3> QED  BY <1>1, <3>1, <3>2, <3>3, <3>5, <3>6, CallKept, HoldKept
  <2> QED  BY <2>1, <2>2, <2>3
<1>4. ASSUME NEW t \in Sessions PROVE InboxOK(t)'
  <2>1. CASE t = s  BY <2>1
  <2>2. CASE t # s
    <3>1. wake'[t] = wake[t] /\ LessAbout(t)  BY <2>2
    <3>2. SoftWake(wake[t], wake'[t], Unresolved(t))  BY <3>1, SoftSame
    <3>3. KeepsInbox(t)  BY InboxSame DEF KeepsInbox
    <3> QED  BY <1>1, <3>1, <3>2, <3>3, InboxKept DEF InboxInv
  <2> QED  BY <2>1, <2>2
<1>5. DispatchOK'  BY DEF InboxInv, DispatchOK
<1> QED  BY <1>2, <1>3, <1>4, <1>5 DEF InboxInv

LEMMA GenerationType ==
  ASSUME TypeOK, NEW s
  PROVE  Generation(s) \in Nat
<1> DEFINE S == {g \in retired : cut[g].session = s}
<1>1. IsFiniteSet(Triggers)  BY InboxAssumption
<1>2. S \subseteq Triggers  BY DEF TypeOK
<1>3. IsFiniteSet(S)  BY <1>1, <1>2, FS_Subset
<1>4. Cardinality(S) \in Nat  BY <1>3, FS_CardinalityType
<1> QED  BY <1>4 DEF Generation

LEMMA AboutType ==
  ASSUME NEW s
  PROVE  /\ About(s) \subseteq Wakes /\ Blind(s) \subseteq About(s)
         /\ Cardinality(About(s)) \in Nat
BY WakesFinite DEF About, Blind

LEMMA ClaimedFields ==
  ASSUME NEW w \in Wake \cup {None}, NEW U \in SUBSET Dispatches, U # {},
         NEW A \in SUBSET Wakes, NEW B \in SUBSET A, Counts(w, U, A, B), Claimable(w, U)
  PROVE  /\ Claimed(w, U) \in Wake
         /\ Claimed(w, U).fp = U /\ Claimed(w, U).state = "claimed"
         /\ Claimed(w, U).attempt \in Attempts /\ Claimed(w, U).attempt # 0
         /\ Cardinality(A) < Claimed(w, U).attempt
         /\ B = {}
<1> DEFINE a == IF w = None \/ w.fp # U THEN 1 ELSE w.attempt + 1
           v == [fp |-> U, state |-> "claimed", busy |-> FALSE, lease |-> "running",
                 delayed |-> FALSE, sub |-> None, attempt |-> a]
<1>1. Claimed(w, U) = v  BY DEF Claimed
<1>2. MaxAttempts \in Nat \ {0}  BY InboxAssumption
<1>3. Cardinality(A) \in Nat /\ Cardinality({}) = 0  BY WakesFinite, FS_EmptySet
<1>4. a \in Attempts /\ a # 0 /\ Cardinality(A) < a
  <2>1. CASE w = None \/ w.fp # U
    <3>1. A = {}  BY <2>1 DEF Counts
    <3>2. Cardinality(A) = 0  BY <1>3, <3>1
    <3>3. a = 1  BY <2>1
    <3> QED  BY <1>2, <3>2, <3>3 DEF Attempts
  <2>2. CASE w # None /\ w.fp = U
    <3>1. w.state = "pending"  BY <2>2 DEF Claimable
    <3>2. w.attempt < MaxAttempts /\ w.attempt \in Nat  BY <2>2, <3>1, WakeFields DEF Counts
    <3>3. a = w.attempt + 1  BY <2>2
    <3>4. Cardinality(A) <= w.attempt
      <4>1. CASE A = {}
        <5>1. Cardinality(A) = 0  BY <1>3, <4>1
        <5> QED  BY <3>2, <5>1
      <4>2. CASE A # {}  BY <4>2 DEF Counts
      <4> QED  BY <4>1, <4>2
    <3> HIDE DEF a
    <3> QED  BY <1>2, <1>3, <3>2, <3>3, <3>4 DEF Attempts
  <2> QED  BY <2>1, <2>2
<1>5. B = {}
  <2> SUFFICES ASSUME B # {} PROVE FALSE  OBVIOUS
  <2>1. A # {}  OBVIOUS
  <2>2. w # None /\ w.fp = U /\ w.state \in {"blocked", "resolved"}  BY <2>1 DEF Counts
  <2> QED  BY <2>2 DEF Claimable
<1> HIDE DEF a
<1>6. v \in Wake /\ v.fp = U /\ v.state = "claimed" /\ v.attempt = a
  BY <1>4 DEF Wake, WakeStates
<1> HIDE DEF v
<1> QED  BY <1>1, <1>4, <1>5, <1>6

LEMMA ClaimWakeKeeps ==
  ASSUME InboxInv, NEW c \in Callers, ClaimWake(c)
  PROVE  InboxInv'
<1>1. call[c].pc = "probe" /\ TypeOK  BY DEF ClaimWake, InboxInv
<1>2. PICK s \in Sessions : s = call[c].session  BY <1>1, CallerSession
<1> DEFINE U == Unresolved(s)
           w == Settled(wake[s], U)
           v == Claimed(w, U)
           A == About(s)
           B == Blind(s)
           k == [fp |-> U, attempt |-> v.attempt, generation |-> Generation(s)]
<1>3. /\ U # {} /\ Claimable(w, U)
      /\ SetWake(s, v)
      /\ call' = [call EXCEPT ![c].pc = "ready", ![c].claim = k]
      /\ UNCHANGED <<dispatch, sent, owed, crashes>> /\ UNCHANGED boundary /\ UNCHANGED agent
  BY <1>2 DEF ClaimWake
<1>4. wake[s] \in Wake \cup {None} /\ Counts(wake[s], U, A, B)
  BY RecordOK DEF InboxInv, InboxOK
<1>5. U \in SUBSET Dispatches  BY UnresolvedType
<1>6. A \subseteq Wakes /\ B \subseteq A /\ Cardinality(A) \in Nat  BY AboutType
<1>7. SoftWake(wake[s], w, U)  BY <1>4, <1>5, SettledIsSoft
<1> HIDE DEF w, A, B, U
<1>8. w \in Wake \cup {None} /\ Counts(w, U, A, B)  BY <1>4, <1>6, <1>7, SoftType, SoftCounts
<1>9. /\ v \in Wake /\ v.fp = U /\ v.state = "claimed"
      /\ v.attempt \in Attempts /\ v.attempt # 0 /\ Cardinality(A) < v.attempt /\ B = {}
  BY <1>3, <1>5, <1>6, <1>8, ClaimedFields
<1> HIDE DEF v
<1>10. /\ wake'[s] = v /\ \A t \in Sessions : t # s => wake'[t] = wake[t]
       /\ wake' \in [Sessions -> Wake \cup {None}]
  BY <1>1, <1>3, <1>9, Puts
<1>11. k \in Claim /\ k.fp = U /\ k.attempt = v.attempt
  BY <1>1, <1>5, <1>9, GenerationType DEF Claim
<1> HIDE DEF k
<1>12. call \in [Callers -> CallType]  BY <1>1 DEF TypeOK, CallType
<1>13. /\ call' \in [Callers -> CallType]
       /\ call'[c].pc = "ready" /\ call'[c].session = s /\ call'[c].claim = k
       /\ call'[c].reply = call[c].reply
       /\ \A d \in Callers : d # c => call'[d] = call[d]
  BY <1>2, <1>3, <1>11, <1>12 DEF CallType, Phases
<1>14. TypeOK'  BY <1>1, <1>3, <1>10, <1>13 DEF TypeOK, CallType, boundary, agent
<1>15. Fades  BY <1>3, SentSame
<1>16. FatesKept /\ \A t : LessAbout(t)  BY <1>15, FewerAbout
<1>17. SentOK'  BY <1>15, SentKept DEF InboxInv
<1>18. call[c].reply = "none"  BY <1>1 DEF InboxInv, CallOK
<1>19. CallOK(c)'  BY <1>3, <1>9, <1>11, <1>13, <1>18 DEF CallOK
<1>20. About(s)' = A /\ Blind(s)' = {} /\ Unresolved(s)' = U
  BY <1>3, <1>9 DEF A, B, U, About, Blind, Unresolved
<1>21. HoldOK(c)'
  <2>1. call'[c].session = s /\ call'[c].pc # "sent"  BY <1>13
  <2>2. Cardinality(About(s)') < wake'[s].attempt  BY <1>9, <1>10, <1>20
  <2>3. About(call[c].session)' = About(s)'  BY <2>1 DEF About
  <2> QED  BY <2>1, <2>2, <2>3 DEF HoldOK
<1>22. InboxOK(s)'
  <2>1. A # {} => v # None /\ v.fp = U /\ U # {} /\ Cardinality(A) <= v.attempt
    <3>1. v # None /\ v.attempt \in Nat  BY <1>9, WakeFields
    <3> QED  BY <1>3, <1>6, <1>9, <3>1
  <2>2. Counts(v, U, A, {})  BY <1>9, <2>1 DEF Counts
  <2> QED  BY <1>9, <1>10, <1>20, <2>2 DEF InboxOK
<1> QED
  BY <1>1, <1>2, <1>3, <1>10, <1>13, <1>14, <1>16, <1>17, <1>19, <1>21, <1>22, OneCaller

\* a claim that is found valid is the record itself, for the inbox as it is
LEMMA ValidClaim ==
  ASSUME InboxInv, NEW c \in Callers, NEW s \in Sessions, s = call[c].session,
         call[c].pc = "adapter", Valid(call[c].claim, s)
  PROVE  /\ wake[s] \in Wake /\ Checked(call[c].claim, s) = wake[s]
         /\ wake[s].fp = Unresolved(s) /\ Unresolved(s) # {}
         /\ call[c].claim.fp = Unresolved(s)
         /\ wake[s].state = "claimed"
         /\ Cardinality(About(s)) < wake[s].attempt
         /\ Blind(s) = {}
<1> DEFINE U == Unresolved(s)
           w == Reconciled(wake[s], U)
           k == call[c].claim
<1>1. CallOK(c) /\ HoldOK(c) /\ InboxOK(s)  BY DEF InboxInv
<1>2. k.fp # {} /\ k.attempt # 0  BY <1>1 DEF CallOK
<1>3. Checked(k, s) = w /\ Matches(w, k) /\ w.state = "claimed"  BY DEF Valid, Checked
<1>4. wake[s] \in Wake \cup {None} /\ U \in SUBSET Dispatches  BY RecordOK, UnresolvedType
<1>5. wake[s] # None /\ wake[s].fp # U => w.attempt = 0  BY <1>4, ReconciledIsSoft
<1>6. w = wake[s]
  <2>1. CASE wake[s] = None \/ wake[s].fp = U  BY <2>1 DEF Reconciled
  <2>2. CASE wake[s] # None /\ wake[s].fp # U  BY <1>2, <1>3, <1>5, <2>2 DEF Matches
  <2> QED  BY <2>1, <2>2
<1>7. wake[s] \in Wake  BY <1>3, <1>4, <1>6 DEF Matches
<1>8. wake[s].fp = U
  <2> SUFFICES ASSUME wake[s].fp # U PROVE FALSE  OBVIOUS
  <2> QED  BY <1>2, <1>3, <1>5, <1>6, <1>7, WakeFields DEF Matches
<1>9. k.fp = U  BY <1>3, <1>6, <1>8 DEF Matches
<1>10. Cardinality(About(s)) < wake[s].attempt  BY <1>1, <1>3, <1>6 DEF HoldOK
<1>11. Blind(s) = {}  BY <1>1, <1>3, <1>6 DEF InboxOK, Counts
<1> QED  BY <1>2, <1>3, <1>6, <1>7, <1>8, <1>9, <1>10, <1>11

LEMMA NextIsFresh ==
  ASSUME SentOK, NextWake \in Wakes
  PROVE  /\ sent[NextWake].fate = "none" /\ ~sent[NextWake].current
         /\ {n \in Wakes : sent[n].fate # "none"} \cup {NextWake} = 1 .. NextWake
<1> DEFINE S == {n \in Wakes : sent[n].fate # "none"}
<1>1. PICK k \in 0 .. MaxSends : S = 1 .. k  BY DEF SentOK
<1>2. MaxSends \in Nat /\ k \in Nat  BY InboxAssumption
<1>3. Cardinality(S) = k
  <2>1. Cardinality(1 .. k) = IF 1 > k THEN 0 ELSE k - 1 + 1  BY <1>2, FS_Interval
  <2>2. Cardinality(1 .. k) = k  BY <1>2, <2>1
  <2> QED  BY <1>1, <2>2
<1>4. NextWake = k + 1  BY <1>2, <1>3 DEF NextWake
<1>5. NextWake \notin S /\ S \cup {NextWake} = 1 .. NextWake
  <2> HIDE DEF S
  <2>1. k + 1 \notin 1 .. k /\ (1 .. k) \cup {k + 1} = 1 .. (k + 1)  BY <1>2
  <2> QED  BY <1>1, <1>4, <2>1
<1> QED  BY <1>5 DEF SentOK

LEMMA SendKeeps ==
  ASSUME InboxInv, NEW c \in Callers, Send(c)
  PROVE  InboxInv'
<1>1. call[c].pc = "adapter" /\ TypeOK /\ SentOK  BY DEF Send, InboxInv
<1>2. PICK s \in Sessions : s = call[c].session  BY <1>1, CallerSession
<1>3. PICK n \in Wakes : n = NextWake  BY DEF Send
<1> DEFINE w == wake[s]
           v == [w EXCEPT !.state = "blocked", !.lease = "none", !.delayed = FALSE, !.sub = n]
           r == [session |-> s, fate |-> "wire", answered |-> FALSE, current |-> TRUE]
           A == About(s)
           U == Unresolved(s)
<1>4. /\ w \in Wake /\ Checked(call[c].claim, s) = w /\ w.fp = U /\ U # {}
      /\ w.state = "claimed" /\ Cardinality(A) < w.attempt /\ Blind(s) = {}
  BY <1>1, <1>2, ValidClaim DEF Send
<1>5. /\ SetWake(s, v)
      /\ sent' = [sent EXCEPT ![n] = r]
      /\ call' = [call EXCEPT ![c].pc = "sent", ![c].sub = n]
      /\ UNCHANGED <<dispatch, owed, crashes>> /\ UNCHANGED boundary /\ UNCHANGED agent
  BY <1>2, <1>3, <1>4 DEF Send, Submit
<1>6. /\ sent[n].fate = "none" /\ ~sent[n].current
      /\ {m \in Wakes : sent[m].fate # "none"} \cup {n} = 1 .. n
  BY <1>1, <1>3, NextIsFresh
<1>7. v \in Wake /\ v.fp = U /\ v.state = "blocked" /\ v.sub = n /\ v.attempt = w.attempt
  BY <1>4 DEF Wake, WakeStates
<1> HIDE DEF v, U, A
<1>8. /\ wake'[s] = v /\ \A t \in Sessions : t # s => wake'[t] = wake[t]
      /\ wake' \in [Sessions -> Wake \cup {None}]
  BY <1>1, <1>5, <1>7, Puts
<1> DEFINE SentType == [session : Sessions \cup {None}, fate : Fates,
                        answered : BOOLEAN, current : BOOLEAN]
<1>9. r \in SentType /\ r.session = s /\ r.fate = "wire" /\ ~r.answered /\ r.current
  BY DEF Fates
<1>10. sent \in [Wakes -> SentType]  BY <1>1 DEF TypeOK
<1> HIDE DEF r
<1>11. /\ sent'[n] = r /\ \A m \in Wakes : m # n => sent'[m] = sent[m]
       /\ sent' \in [Wakes -> SentType]
  <2> HIDE DEF SentType
  <2> QED  BY <1>5, <1>9, <1>10
<1>12. call \in [Callers -> CallType]  BY <1>1 DEF TypeOK, CallType
<1>13. /\ call' \in [Callers -> CallType]
       /\ call'[c].pc = "sent" /\ call'[c].session = s /\ call'[c].claim = call[c].claim
       /\ call'[c].sub = n /\ call'[c].reply = call[c].reply
       /\ \A d \in Callers : d # c => call'[d] = call[d]
  BY <1>2, <1>5, <1>12 DEF CallType, Phases
<1>14. TypeOK'  BY <1>1, <1>5, <1>8, <1>11, <1>13 DEF TypeOK, CallType, boundary, agent
<1>15. FatesKept  BY <1>6, <1>11 DEF FatesKept
<1>16. ASSUME NEW t \in Sessions, t # s PROVE LessAbout(t)
  <2>1. About(t)' \subseteq About(t)  BY <1>9, <1>11, <1>16 DEF About
  <2>2. n \notin About(t)'  BY <1>9, <1>11, <1>16 DEF About
  <2>3. Blind(t)' \subseteq Blind(t)
    <3>1. \A m \in Blind(t)' : m \in About(t)' /\ m \in Wakes /\ m # n
      BY <2>2 DEF Blind, About
    <3> QED  BY <1>11, <2>1, <3>1 DEF Blind
  <2> QED  BY <2>1, <2>3 DEF LessAbout
<1>17. SentOK'
  <2>1. {m \in Wakes : sent'[m].fate # "none"} = {m \in Wakes : sent[m].fate # "none"} \cup {n}
    BY <1>9, <1>11
  <2>2. {m \in Wakes : sent'[m].fate # "none"} = 1 .. n  BY <1>6, <2>1
  <2>3. n \in 0 .. MaxSends  BY InboxAssumption DEF Wakes
  <2>4. \A m \in Wakes : IF sent'[m].fate = "none" THEN ~sent'[m].current
                                                   ELSE sent'[m].session \in Sessions
    BY <1>1, <1>9, <1>11 DEF SentOK
  <2> QED  BY <2>2, <2>3, <2>4 DEF SentOK
<1>18. About(s)' = A \cup {n}  BY <1>9, <1>11 DEF A, About
<1>19. Blind(s)' \subseteq {n}
  <2>1. \A m \in Blind(s)' : m # n => m \in Blind(s)  BY <1>11 DEF Blind, About
  <2> QED  BY <1>4, <2>1
<1>20. CallOK(c)'
  <2>1. CallOK(c)  BY DEF InboxInv
  <2>2. call[c].claim.fp # {} /\ call[c].claim.attempt # 0 /\ call[c].reply = "none"
    BY <1>1, <2>1 DEF CallOK
  <2> QED  BY <1>9, <1>11, <1>13, <2>2 DEF CallOK
<1>21. HoldOK(c)'
  <2>1. Blind(call[c].session)' = Blind(s)'  BY <1>13 DEF Blind, About
  <2> QED  BY <1>7, <1>8, <1>13, <1>19, <2>1 DEF HoldOK
<1>22. InboxOK(s)'
  <2>1. Cardinality(A \cup {n}) <= w.attempt
    <3>1. IsFiniteSet(A) /\ A \subseteq Wakes  BY AboutType, WakesFinite DEF A
    <3>2. n \notin A  BY <1>6 DEF A, About
    <3>3. Cardinality(A \cup {n}) = Cardinality(A) + 1  BY <3>1, <3>2, FS_AddElement
    <3>4. Cardinality(A) \in Nat /\ w.attempt \in Nat  BY <1>4, <3>1, WakesFinite, WakeFields
    <3> QED  BY <1>4, <3>3, <3>4
  <2>2. Unresolved(s)' = U  BY <1>5, InboxSame DEF U
  <2>3. v # None  BY <1>7, WakeFields
  <2>4. Counts(v, U, About(s)', Blind(s)')
    BY <1>4, <1>7, <1>18, <2>1, <2>3 DEF Counts
  <2> QED  BY <1>7, <1>8, <2>2, <2>4 DEF InboxOK
<1>23. UNCHANGED dispatch  BY <1>5
<1> QED
  BY <1>1, <1>2, <1>8, <1>13, <1>14, <1>15, <1>16, <1>17, <1>20, <1>21, <1>22, <1>23, OneCaller

\* the answer to a submission moves the record that holds it
LEMMA AnswerMoves ==
  ASSUME InboxInv, NEW c \in Callers, call[c].pc = "sent", Answered(c),
         NEW s \in Sessions, s = call[c].session, Matches(wake[s], call[c].claim),
         NEW state \in {"submitted", "claimed"}, state = "submitted" => call[c].reply = "ok",
         SetWake(s, [wake[s] EXCEPT !.state = state]),
         NEW pc \in {"sync", "released"}, Goto(c, pc),
         UNCHANGED <<dispatch, owed, crashes>>, UNCHANGED boundary, UNCHANGED agent
  PROVE  InboxInv'
<1>1. TypeOK /\ CallOK(c) /\ HoldOK(c) /\ InboxOK(s)  BY DEF InboxInv
<1> DEFINE w == wake[s]
           n == call[c].sub
           v == [w EXCEPT !.state = state]
           A == About(s)
           B == Blind(s)
           C == About(s)'
           U == Unresolved(s)
<1>2. n \in Wakes /\ (state = "submitted" => sent[n].fate = "run")  BY <1>1 DEF CallOK
<1>3. w.sub = n /\ B \subseteq {n}  BY <1>1 DEF HoldOK
<1>4. w \in Wake  BY RecordOK DEF Matches
<1>5. v \in Wake /\ v.fp = w.fp /\ v.state = state /\ v.attempt = w.attempt /\ v.sub = w.sub
  BY <1>4 DEF Wake, WakeStates
<1>6. SetWake(s, v)  OBVIOUS
<1> HIDE DEF v
<1>7. /\ wake'[s] = v /\ \A t \in Sessions : t # s => wake'[t] = wake[t]
      /\ wake' \in [Sessions -> Wake \cup {None}]
  BY <1>1, <1>5, <1>6, Puts
<1>8. sent' = [sent EXCEPT ![n].answered = TRUE]  BY DEF Answered
<1> DEFINE SentType == [session : Sessions \cup {None}, fate : Fates,
                        answered : BOOLEAN, current : BOOLEAN]
<1>9. sent \in [Wakes -> SentType]  BY <1>1 DEF TypeOK
<1> HIDE DEF n
<1>10. /\ sent' \in [Wakes -> SentType]
       /\ sent'[n].fate = sent[n].fate /\ sent'[n].session = sent[n].session
       /\ sent'[n].current = sent[n].current /\ sent'[n].answered
       /\ \A m \in Wakes : m # n => sent'[m] = sent[m]
  BY <1>2, <1>8, <1>9
<1>11. Fades  BY <1>10 DEF Fades
<1>12. FatesKept /\ \A t : LessAbout(t)  BY <1>11, FewerAbout
<1>13. SentOK'  BY <1>11, SentKept DEF InboxInv
<1>14. pc \in Phases /\ (pc = "sync" \/ pc = "released")  BY DEF Phases
<1>15. call' \in [Callers -> CallType]  BY <1>1, <1>14, Goes
<1>16. call \in [Callers -> CallType]  BY <1>1 DEF TypeOK, CallType
<1>17. /\ call'[c].pc = pc /\ call'[c].session = s /\ call'[c].claim = call[c].claim
       /\ \A d \in Callers : d # c => call'[d] = call[d]
  BY <1>16 DEF Goto, CallType
<1>18. TypeOK'
  BY <1>1, <1>7, <1>10, <1>15 DEF TypeOK, CallType, boundary, agent
<1>19. CallOK(c)'  BY <1>1, <1>14, <1>17 DEF CallOK
<1>20. HoldOK(c)'  BY <1>14, <1>17 DEF HoldOK
<1>21. Blind(s)' = {}
  <2>1. Blind(s)' \subseteq {n}  BY <1>3, <1>12 DEF LessAbout
  <2>2. n \notin Blind(s)'  BY <1>10 DEF Blind
  <2> QED  BY <2>1, <2>2
<1>22. InboxOK(s)'
  <2>1. A \subseteq Wakes /\ B \subseteq A /\ C \subseteq A
    BY <1>12, AboutType DEF LessAbout
  <2>2. Counts(w, U, A, B)  BY <1>1 DEF InboxOK
  <2> HIDE DEF A, B, C, U, w
  <2>3. Counts(w, U, C, {})
    <3> DEFINE D == {}
    <3>1. D \subseteq C /\ D \subseteq B  OBVIOUS
    <3> HIDE DEF D
    <3>2. Counts(w, U, C, D)  BY <1>4, <2>1, <2>2, <3>1, FewerCounts
    <3> QED  BY <3>2 DEF D
  <2>4. v # None /\ state # "pending"  BY <1>5, WakeFields
  <2>5. Counts(v, U, C, {})  BY <1>5, <2>3, <2>4 DEF Counts
  <2>6. Unresolved(s)' = U  BY InboxSame DEF U
  <2>7. n # None  BY <1>2, InboxAssumption DEF Wakes
  <2>8. v.sub = n /\ (state = "submitted" => sent'[n].fate = "run")  BY <1>2, <1>3, <1>5, <1>10 DEF w
  <2>9. Counts(wake'[s], Unresolved(s)', About(s)', Blind(s)')
    BY <1>7, <1>21, <2>5, <2>6 DEF C
  <2> QED  BY <1>5, <1>7, <2>7, <2>8, <2>9 DEF InboxOK
<1> QED
  BY <1>7, <1>12, <1>13, <1>17, <1>18, <1>19, <1>20, <1>22, OneCaller

\* an answer that finds another record leaves it alone
LEMMA AnswerLate ==
  ASSUME InboxInv, NEW c \in Callers, call[c].pc = "sent", Answered(c), UNCHANGED wake,
         NEW pc \in {"sync", "released"}, Goto(c, pc),
         UNCHANGED <<dispatch, owed, crashes>>, UNCHANGED boundary, UNCHANGED agent
  PROVE  InboxInv'
<1>1. TypeOK /\ CallOK(c)  BY DEF InboxInv
<1>2. PICK n \in Wakes : n = call[c].sub  BY <1>1 DEF CallOK
<1> DEFINE SentType == [session : Sessions \cup {None}, fate : Fates,
                        answered : BOOLEAN, current : BOOLEAN]
<1>3. sent \in [Wakes -> SentType]  BY <1>1 DEF TypeOK
<1>4. sent' = [sent EXCEPT ![n].answered = TRUE]  BY <1>2 DEF Answered
<1>5. /\ sent' \in [Wakes -> SentType]
      /\ sent'[n].fate = sent[n].fate /\ sent'[n].session = sent[n].session
      /\ sent'[n].current = sent[n].current /\ sent'[n].answered
      /\ \A m \in Wakes : m # n => sent'[m] = sent[m]
  BY <1>3, <1>4
<1>6. Fades  BY <1>5 DEF Fades
<1>7. pc \in Phases  BY DEF Phases
<1>8. call' \in [Callers -> CallType] /\ Ends  BY <1>1, <1>7, Goes
<1>9. TypeOK'  BY <1>1, <1>5, <1>8 DEF TypeOK, CallType, boundary, agent
<1>10. \A t \in Sessions : KeepsInbox(t)  BY InboxSame DEF KeepsInbox
<1>11. \A t \in Sessions : SoftWake(wake[t], wake'[t], Unresolved(t))  BY SoftSame
<1>12. DispatchOK'  BY DEF InboxInv, DispatchOK
<1> QED  BY <1>6, <1>8, <1>9, <1>10, <1>11, <1>12, KeptStep DEF Ends

LEMMA AcceptedKeeps ==
  ASSUME InboxInv, NEW c \in Callers, Accepted(c)
  PROVE  InboxInv'
<1>1. call[c].pc = "sent" /\ TypeOK  BY DEF Accepted, InboxInv
<1>2. PICK s \in Sessions : s = call[c].session  BY <1>1, CallerSession
<1> DEFINE P == /\ Current(call[c].claim, s) /\ Matches(wake[s], call[c].claim)
                /\ wake[s].state \in {"claimed", "blocked"}
<1>3. /\ call[c].reply = "ok" /\ Answered(c) /\ Goto(c, "sync")
      /\ SetWake(s, IF P THEN [wake[s] EXCEPT !.state = "submitted"] ELSE wake[s])
      /\ UNCHANGED <<dispatch, owed, crashes>> /\ UNCHANGED boundary /\ UNCHANGED agent
  BY <1>2 DEF Accepted
<1>4. CASE P
  <2>1. SetWake(s, [wake[s] EXCEPT !.state = "submitted"])  BY <1>3, <1>4
  <2>2. Matches(wake[s], call[c].claim)  BY <1>4
  <2> QED  BY <1>1, <1>2, <1>3, <2>1, <2>2, AnswerMoves
<1>5. CASE ~P
  <2>1. wake' = wake  BY <1>1, <1>3, <1>5 DEF SetWake, TypeOK
  <2> QED  BY <1>1, <1>3, <2>1, AnswerLate
<1> QED  BY <1>4, <1>5

LEMMA RejectedKeeps ==
  ASSUME InboxInv, NEW c \in Callers, Rejected(c)
  PROVE  InboxInv'
<1>1. call[c].pc = "sent" /\ TypeOK  BY DEF Rejected, InboxInv
<1>2. PICK s \in Sessions : s = call[c].session  BY <1>1, CallerSession
<1> DEFINE P == /\ Current(call[c].claim, s) /\ Matches(wake[s], call[c].claim)
                /\ wake[s].state = "blocked"
<1>3. /\ Answered(c) /\ Goto(c, "released")
      /\ SetWake(s, IF P THEN [wake[s] EXCEPT !.state = "claimed"] ELSE wake[s])
      /\ UNCHANGED <<dispatch, owed, crashes>> /\ UNCHANGED boundary /\ UNCHANGED agent
  BY <1>2 DEF Rejected
<1>4. CASE P
  <2>1. SetWake(s, [wake[s] EXCEPT !.state = "claimed"])  BY <1>3, <1>4
  <2>2. Matches(wake[s], call[c].claim)  BY <1>4
  <2> QED  BY <1>1, <1>2, <1>3, <2>1, <2>2, AnswerMoves
<1>5. CASE ~P
  <2>1. wake' = wake  BY <1>1, <1>3, <1>5 DEF SetWake, TypeOK
  <2> QED  BY <1>1, <1>3, <2>1, AnswerLate
<1> QED  BY <1>4, <1>5

-----------------------------------------------------------------------------
(* Rebind: the record starts afresh, and no claim stands for it any more   *)

LEMMA RebindKeeps ==
  ASSUME InboxInv, NEW src \in Sessions, NEW dst \in Sessions, Rebind(src, dst)
  PROVE  InboxInv'
<1>1. TypeOK  BY DEF InboxInv
<1> DEFINE X == {src, dst}
           x == [Released(wake[src]) EXCEPT !.state = "pending", !.attempt = 0, !.sub = None]
           v == IF wake[dst] # None \/ wake[src] = None THEN wake[dst] ELSE x
<1>2. /\ EventLoopFree /\ src # dst
      /\ dispatch' = [d \in Dispatches |-> IF dispatch[d].session = src
                        THEN [dispatch[d] EXCEPT !.session = dst] ELSE dispatch[d]]
      /\ Outdated(X)
      /\ UNCHANGED <<call, owed, crashes>> /\ UNCHANGED boundary /\ UNCHANGED agent
  BY DEF Rebind
<1>3. wake \in [Sessions -> Wake \cup {None}]  BY <1>1 DEF TypeOK
<1>4. wake' = [[wake EXCEPT ![src] = None] EXCEPT ![dst] = v]
  BY <1>2, <1>3 DEF Rebind
<1>5. wake[src] # None =>
        x \in Wake /\ x.state = "pending" /\ x.attempt = 0
  <2> SUFFICES ASSUME wake[src] # None
               PROVE  x \in Wake /\ x.state = "pending" /\ x.attempt = 0
    OBVIOUS
  <2> DEFINE r == Released(wake[src])
  <2>1. wake[src] \in Wake  BY <1>3
  <2>2. r \in Wake  BY <2>1, ReleasedFields
  <2>3. 0 \in Attempts  BY InboxAssumption DEF Attempts
  <2> HIDE DEF r
  <2>4. x = [r EXCEPT !.state = "pending", !.attempt = 0, !.sub = None]  BY DEF r
  <2> QED  BY <2>2, <2>3, <2>4 DEF Wake, WakeStates
<1> HIDE DEF x
<1>6. v \in Wake \cup {None} /\ (v = wake[dst] \/ (v # None /\ v.state = "pending" /\ v.attempt = 0))
  BY <1>3, <1>5, WakeFields
<1> HIDE DEF v
<1>7. /\ wake'[src] = None /\ wake'[dst] = v
      /\ \A t \in Sessions : t \notin X => wake'[t] = wake[t]
      /\ wake' \in [Sessions -> Wake \cup {None}]
  <2> DEFINE W == Wake \cup {None}
  <2>1. None \in W /\ v \in W /\ wake \in [Sessions -> W]  BY <1>3, <1>6
  <2> HIDE DEF W
  <2>2. wake' \in [Sessions -> W]  BY <1>4, <2>1
  <2>3. wake'[src] = None /\ wake'[dst] = v  BY <1>2, <1>4, <2>1
  <2>4. \A t \in Sessions : t \notin X => wake'[t] = wake[t]  BY <1>4, <2>1
  <2> QED  BY <2>2, <2>3, <2>4 DEF W
<1>8. /\ sent' \in [Wakes -> [session : Sessions \cup {None}, fate : Fates,
                              answered : BOOLEAN, current : BOOLEAN]]
      /\ Fades /\ \A t \in X : About(t)' = {}
  <2> HIDE DEF X
  <2> QED  BY <1>1, <1>2, OutdatedFades
<1>9. FatesKept /\ \A t : LessAbout(t)  BY <1>8, FewerAbout
<1>10. ASSUME NEW d \in Dispatches
       PROVE  /\ dispatch'[d] \in DispatchType
              /\ dispatch'[d].state = dispatch[d].state
              /\ dispatch'[d].session = IF dispatch[d].session = src THEN dst ELSE dispatch[d].session
  <2>1. dispatch[d] \in DispatchType  BY <1>1 DEF TypeOK, DispatchType
  <2>2. CASE dispatch[d].session = src
    <3>1. dispatch'[d] = [dispatch[d] EXCEPT !.session = dst]  BY <1>2, <2>2
    <3> QED  BY <2>1, <2>2, <3>1 DEF DispatchType
  <2>3. CASE dispatch[d].session # src  BY <1>2, <2>1, <2>3
  <2> QED  BY <2>2, <2>3
<1>11. dispatch' \in [Dispatches -> DispatchType]
  <2> DEFINE E(d) == IF dispatch[d].session = src
                       THEN [dispatch[d] EXCEPT !.session = dst] ELSE dispatch[d]
  <2>1. dispatch' = [d \in Dispatches |-> E(d)]  BY <1>2
  <2> HIDE DEF E
  <2>2. \A d \in Dispatches : dispatch'[d] = E(d)  BY <2>1
  <2>3. \A d \in Dispatches : E(d) \in DispatchType  BY <1>10, <2>2
  <2> QED  BY <2>1, <2>3
<1>12. DispatchOK'  BY <1>10 DEF InboxInv, DispatchOK
<1>13. TypeOK'
  BY <1>1, <1>2, <1>7, <1>8, <1>11 DEF TypeOK, DispatchType, boundary, agent
<1>14. ASSUME NEW t \in Sessions PROVE InboxOK(t)'
  <2>1. InboxOK(t)  BY DEF InboxInv
  <2>2. CASE t \in X
    <3>1. About(t)' = {}  BY <1>8, <2>2
    <3>2. Blind(t)' = {}  BY <3>1 DEF Blind
    <3>3. wake'[t] = None \/ wake'[t] = wake[t]
          \/ (wake'[t].state = "pending" /\ wake'[t].attempt = 0)
      BY <1>6, <1>7, <2>2
    <3>4. PendingOK(wake[t])  BY RecordOK
    <3>5. 0 < MaxAttempts  BY InboxAssumption
    <3>6. PendingOK(wake'[t])  BY <3>3, <3>4, <3>5 DEF PendingOK
    <3>7. Counts(wake'[t], Unresolved(t)', About(t)', Blind(t)')
      BY <3>1, <3>2, <3>6 DEF Counts, PendingOK
    <3>8. ASSUME wake'[t] # None, wake'[t].state = "submitted"
          PROVE  wake'[t].sub # None /\ sent'[wake'[t].sub].fate = "run"
      <4>1. wake'[t] = wake[t]  BY <3>3, <3>8
      <4>2. wake[t].sub # None /\ sent[wake[t].sub].fate = "run"  BY <2>1, <3>8, <4>1 DEF InboxOK
      <4>3. wake[t] \in Wake  BY <1>3, <3>8, <4>1
      <4>4. wake[t].sub \in Wakes  BY <4>2, <4>3, WakeFields
      <4> QED  BY <1>9, <4>1, <4>2, <4>4 DEF FatesKept
    <3> QED  BY <3>7, <3>8 DEF InboxOK
  <2>3. CASE t \notin X
    <3>1. wake'[t] = wake[t]  BY <1>7, <2>3
    <3>2. SoftWake(wake[t], wake'[t], Unresolved(t))  BY <3>1, SoftSame
    <3>3. \A d \in Dispatches : dispatch'[d].session = t <=> dispatch[d].session = t
      BY <1>10, <2>3
    <3>4. KeepsInbox(t)  BY <1>10, <3>3 DEF KeepsInbox, Unresolved
    <3> QED  BY <1>1, <1>9, <2>1, <3>2, <3>4, InboxKept
  <2> QED  BY <2>2, <2>3
<1>15. ASSUME NEW c \in Callers PROVE CallOK(c)' /\ HoldOK(c)'
  <2>1. CallOK(c) /\ HoldOK(c)  BY DEF InboxInv
  <2>2. Carries(c)  BY <1>2 DEF Carries
  <2>3. CallOK(c)'  BY <1>9, <2>1, <2>2, CallKept
  <2>4. call'[c] = call[c]  BY <1>2
  <2>5. CASE call[c].pc \in {"idle", "probe"}
    <3>1. call'[c].pc # "sent" /\ call'[c].pc # "ready" /\ call'[c].pc # "adapter"
      BY <2>4, <2>5
    <3>2. HoldOK(c)'  BY <3>1 DEF HoldOK
    <3> QED  BY <2>3, <3>2
  <2>6. CASE call[c].pc \notin {"idle", "probe"}
    <3>1. PICK s \in Sessions : s = call[c].session  BY <2>1, <2>6 DEF CallOK
    <3>2. call[c].claim.attempt # 0  BY <2>1, <2>6 DEF CallOK
    <3>3. CASE wake'[s] = wake[s]
      <4>1. SoftWake(wake[s], wake'[s], Unresolved(s))  BY <3>3, SoftSame
      <4> QED  BY <1>1, <1>9, <2>1, <2>2, <2>3, <3>1, <4>1, HoldKept
    <3>4. CASE wake'[s] # wake[s]
      <4>1. wake'[s] = None \/ wake'[s].attempt = 0  BY <1>6, <1>7, <3>4
      <4>2. ~Matches(wake'[s], call[c].claim)  BY <3>2, <4>1 DEF Matches
      <4>3. ~Matches(wake'[call'[c].session], call'[c].claim)  BY <2>4, <3>1, <4>2
      <4>4. HoldOK(c)'  BY <4>3 DEF HoldOK
      <4> QED  BY <2>3, <4>4
    <3> QED  BY <3>3, <3>4
  <2> QED  BY <2>3, <2>5, <2>6
<1>16. SentOK'  BY <1>8, SentKept DEF InboxInv
<1>17. Alone'  BY <1>2 DEF InboxInv, Alone
<1> QED  BY <1>12, <1>13, <1>14, <1>15, <1>16, <1>17 DEF InboxInv

-----------------------------------------------------------------------------
(* The inductive invariant holds                                           *)

LEMMA InboxInit == Init => InboxInv
<1> SUFFICES ASSUME Init PROVE InboxInv  OBVIOUS
<1>1. MaxAttempts \in Nat /\ MaxSends \in Nat  BY InboxAssumption
<1>2. NoClaim \in Claim  BY <1>1 DEF NoClaim, Claim, Attempts
<1>3. Idle \in CallType /\ Idle.pc = "idle"  BY IdleType DEF Idle
<1>4. TypeOK
  BY <1>3 DEF Init, TypeOK, CallType, DispatchStates, Unsent, Fates
<1>5. SentOK
  <2>1. \A n \in Wakes : sent[n].fate = "none" /\ ~sent[n].current  BY DEF Init, Unsent
  <2>2. {n \in Wakes : sent[n].fate # "none"} = {}  BY <2>1
  <2>3. 1 .. 0 = {} /\ 0 \in 0 .. MaxSends  BY <1>1
  <2>4. {n \in Wakes : sent[n].fate # "none"} = 1 .. 0  BY <2>2, <2>3
  <2> QED  BY <2>1, <2>3, <2>4 DEF SentOK
<1>6. DispatchOK  BY DEF Init, DispatchOK
<1>7. \A c \in Callers : call[c].pc = "idle"  BY <1>3 DEF Init
<1>8. Alone  BY <1>7 DEF Alone
<1>9. \A c \in Callers : CallOK(c) /\ HoldOK(c)  BY <1>7 DEF CallOK, HoldOK
<1>10. ASSUME NEW s \in Sessions PROVE InboxOK(s)
  <2>1. wake[s] = None  BY DEF Init
  <2>2. About(s) = {} /\ Blind(s) = {}  BY DEF Init, Unsent, About, Blind
  <2> QED  BY <2>1, <2>2 DEF InboxOK, Counts
<1> QED  BY <1>4, <1>5, <1>6, <1>8, <1>9, <1>10 DEF InboxInv

LEMMA CallerKeeps ==
  ASSUME InboxInv, NEW c \in Callers, CallerStep(c)
  PROVE  InboxInv'
<1>1. CASE ProbeBusy(c)  BY <1>1, ProbeBusyKeeps
<1>2. CASE ProbeFails(c)  BY <1>2, ProbeFailsKeeps
<1>3. CASE ClaimResolves(c)  BY <1>3, ClaimResolvesKeeps
<1>4. CASE ClaimWake(c)  BY <1>4, ClaimWakeKeeps
<1>5. CASE ClaimRefused(c)  BY <1>5, ClaimRefusedKeeps
<1>6. CASE Ready(c)  BY <1>6, ReadyKeeps
<1>7. CASE DeliveryFails(c) \/ RejectedCounts(c) \/ Uncertain(c)  BY <1>7, FailuresKeep
<1>8. CASE Send(c)  BY <1>8, SendKeeps
<1>9. CASE SendRefused(c)  BY <1>9, SendRefusedKeeps
<1>10. CASE Accepted(c)  BY <1>10, AcceptedKeeps
<1>11. CASE Finish(c)  BY <1>11, FinishKeeps
<1>12. CASE Rejected(c)  BY <1>12, RejectedKeeps
<1> QED
  BY <1>1, <1>2, <1>3, <1>4, <1>5, <1>6, <1>7, <1>8, <1>9, <1>10, <1>11, <1>12 DEF CallerStep

LEMMA InboxStep == InboxInv /\ [Next]_vars => InboxInv'
<1> SUFFICES ASSUME InboxInv, [Next]_vars PROVE InboxInv'  OBVIOUS
<1>1. ASSUME NEW c \in Callers, NEW s \in Sessions, AutoBegin(c, s) PROVE InboxInv'
  BY <1>1, AutoBeginKeeps
<1>2. ASSUME NEW c \in Callers, CallerStep(c) PROVE InboxInv'
  BY <1>2, CallerKeeps
<1>3. CASE SupervisorStep
  <2>1. ASSUME NEW d \in Dispatches, NEW s \in Sessions, CreateDispatch(d, s) PROVE InboxInv'
    BY <2>1, CreateKeeps
  <2>2. ASSUME NEW d \in Dispatches,
               CaptureTerminal(d) \/ Acknowledge(d) \/ Close(d) \/ RetryCallback(d)
        PROVE  InboxInv'
    BY <2>2, CaptureKeeps, AcknowledgeKeeps, CloseKeeps, RetryCallbackKeeps
  <2>3. CASE RunReconcile  BY <2>3, RunReconcileKeeps
  <2> QED  BY <1>3, <2>1, <2>2, <2>3 DEF SupervisorStep
<1>4. CASE EnvironmentStep
  <2>1. ASSUME NEW s \in Sessions, SeenBusy(s) PROVE InboxInv'
    BY <2>1, SeenBusyKeeps
  <2>2. ASSUME NEW s \in Sessions, LeaseExpires(s) \/ DelayElapses(s) PROVE InboxInv'
    BY <2>2, LeaseExpiresKeeps, DelayElapsesKeeps
  <2>3. ASSUME NEW s \in Sessions,
               TurnEnds(s) \/ DirectTurnBegins(s) \/ DirectTurnPublished(s)
        PROVE  InboxInv'
    BY <2>3, AgentKeeps
  <2>4. ASSUME NEW n \in Wakes, AgentAnswers(n) PROVE InboxInv'
    BY <2>4, AgentAnswersKeeps
  <2>5. ASSUME NEW g \in Triggers, NEW s \in Sessions, CaptureBoundary(g, s) PROVE InboxInv'
    BY <2>5, BoundaryKeeps
  <2>6. ASSUME NEW g \in Triggers, RetryBoundary(g) PROVE InboxInv'
    BY <2>6, BoundaryKeeps
  <2>7. CASE RunRetire  BY <2>7, RunRetireKeeps
  <2>8. ASSUME NEW pair \in Rebinds, Rebind(pair[1], pair[2]) PROVE InboxInv'
    <3>1. pair[1] \in Sessions /\ pair[2] \in Sessions  BY InboxAssumption
    <3> QED  BY <2>8, <3>1, RebindKeeps
  <2>9. CASE Crash  BY <2>9, CrashKeeps
  <2> QED  BY <1>4, <2>1, <2>2, <2>3, <2>4, <2>5, <2>6, <2>7, <2>8, <2>9 DEF EnvironmentStep
<1>5. CASE UNCHANGED vars  BY <1>5, StutterKeeps
<1> QED  BY <1>1, <1>2, <1>3, <1>4, <1>5 DEF Next

LEMMA InboxHolds == Spec => []InboxInv
BY InboxInit, InboxStep, PTL DEF Spec

-----------------------------------------------------------------------------
(* What follows                                                            *)

\* Every variable keeps its type, a wake's attempt count its bound.
THEOREM TypeCorrect == Spec => []TypeOK
<1>1. InboxInv => TypeOK  BY DEF InboxInv
<1> QED  BY <1>1, InboxHolds, PTL

\* WakeBudget: while an inbox stays as it is, its session gets at most MaxAttempts
\* wakes.  Every wake about it is counted by the attempt of the session's record.
THEOREM Budgeted == Spec => []WakeBudget
<1>1. InboxInv => WakeBudget
  <2> SUFFICES ASSUME InboxInv, NEW s \in Sessions
               PROVE  Cardinality(About(s)) <= MaxAttempts
    BY DEF WakeBudget, About
  <2>1. MaxAttempts \in Nat  BY InboxAssumption
  <2>2. CASE About(s) = {}
    <3>1. Cardinality({}) = 0  BY FS_EmptySet
    <3>2. Cardinality(About(s)) = 0  BY <2>2, <3>1
    <3> QED  BY <2>1, <3>2
  <2>3. CASE About(s) # {}
    <3>1. wake[s] # None /\ Cardinality(About(s)) <= wake[s].attempt
      BY <2>3 DEF InboxInv, InboxOK, Counts
    <3>2. wake[s] \in Wake  BY <3>1, RecordOK
    <3>3. Cardinality(About(s)) \in Nat  BY AboutType
    <3> QED  BY <2>1, <3>1, <3>2, <3>3, WakeFields
  <2> QED  BY <2>2, <2>3
<1> QED  BY <1>1, InboxHolds, PTL

\* SubmittedMeansAccepted: a record says submitted only if the agent took the very
\* submission it holds.
THEOREM Accounted == Spec => []SubmittedMeansAccepted
<1>1. InboxInv => SubmittedMeansAccepted  BY DEF InboxInv, InboxOK, SubmittedMeansAccepted
<1> QED  BY <1>1, InboxHolds, PTL

\* what a step may do to the activations
LEMMA CallSteps ==
  ASSUME [Next]_vars
  PROVE  \/ call' = call \/ Crash \/ \E n \in Wakes : AgentAnswers(n)
         \/ \E d \in Callers :
              \/ Leave(d) \/ Goto(d, "sync") \/ Goto(d, "released")
              \/ (call[d].pc = "ready" /\ Goto(d, "adapter"))
              \/ (\E s \in Sessions : AutoBegin(d, s)) \/ ClaimWake(d) \/ Send(d)
<1>1. ASSUME NEW d \in Callers, CallerStep(d)
      PROVE  \/ Leave(d) \/ Goto(d, "sync") \/ Goto(d, "released")
             \/ (call[d].pc = "ready" /\ Goto(d, "adapter")) \/ ClaimWake(d) \/ Send(d)
  <2>1. CASE Ready(d)  BY <2>1 DEF Ready
  <2>2. CASE \/ ProbeBusy(d) \/ ProbeFails(d) \/ ClaimResolves(d) \/ ClaimRefused(d)
             \/ DeliveryFails(d) \/ SendRefused(d) \/ Finish(d) \/ RejectedCounts(d)
             \/ Uncertain(d)
    <3>1. Leave(d)
      BY <2>2 DEF ProbeBusy, ProbeFails, ClaimResolves, ClaimRefused, DeliveryFails,
                  SendRefused, Finish, RejectedCounts, Uncertain
    <3> QED  BY <3>1
  <2>3. CASE Accepted(d)  BY <2>3 DEF Accepted
  <2>4. CASE Rejected(d)  BY <2>4 DEF Rejected
  <2>5. CASE ClaimWake(d) \/ Send(d)  BY <2>5
  <2> QED  BY <1>1, <2>1, <2>2, <2>3, <2>4, <2>5 DEF CallerStep
<1>2. CASE SupervisorStep
  <2>1. call' = call
    BY <1>2 DEF SupervisorStep, CreateDispatch, CaptureTerminal, Acknowledge, Close,
                RetryCallback, RunReconcile
  <2> QED  BY <2>1
<1>3. CASE EnvironmentStep
  <2>1. CASE Crash \/ \E n \in Wakes : AgentAnswers(n)  BY <2>1
  <2>2. CASE ~Crash /\ ~\E n \in Wakes : AgentAnswers(n)
    <3>1. call' = call
      BY <1>3, <2>2 DEF EnvironmentStep, SeenBusy, LeaseExpires, DelayElapses, TurnEnds,
           DirectTurnBegins, DirectTurnPublished, CaptureBoundary, RetryBoundary, RunRetire, Rebind
    <3> QED  BY <3>1
  <2> QED  BY <2>1, <2>2
<1>4. CASE UNCHANGED vars  BY <1>4 DEF vars
<1> QED  BY <1>1, <1>2, <1>3, <1>4 DEF Next

\* only Send takes an activation from the adapter to the wire
LEMMA SendsOnly ==
  ASSUME TypeOK, [Next]_vars, NEW c \in Callers, Sends(c)
  PROVE  Send(c)
<1>1. call \in [Callers -> CallType]  BY DEF TypeOK, CallType
<1>2. call[c].pc = "adapter" /\ call'[c].pc = "sent"  BY DEF Sends
<1>3. CASE call' = call  BY <1>2, <1>3
<1>4. CASE Crash  BY <1>2, <1>4 DEF Crash, Idle
<1>5. ASSUME NEW n \in Wakes, AgentAnswers(n) PROVE FALSE
  <2>1. call'[c] = call[c]  BY <1>2, <1>5 DEF AgentAnswers
  <2> QED  BY <1>2, <2>1
<1>6. ASSUME NEW d \in Callers, Leave(d) PROVE FALSE
  <2>1. call'[c] = IF c = d THEN Idle ELSE call[c]  BY <1>1, <1>6 DEF Leave
  <2> QED  BY <1>2, <2>1 DEF Idle
<1>7. ASSUME NEW d \in Callers, NEW pc, Goto(d, pc), pc # "sent" PROVE FALSE
  <2>1. call' = [call EXCEPT ![d].pc = pc]  BY <1>7 DEF Goto
  <2>2. CASE c = d
    <3>1. call'[c].pc = pc  BY <1>1, <2>1, <2>2 DEF CallType
    <3> QED  BY <1>2, <1>7, <3>1
  <2>3. CASE c # d
    <3>1. call'[c] = call[c]  BY <1>1, <2>1, <2>3
    <3> QED  BY <1>2, <3>1
  <2> QED  BY <2>2, <2>3
<1>8. ASSUME NEW d \in Callers, NEW s \in Sessions, AutoBegin(d, s) PROVE FALSE
  <2>1. call[d] = Idle  BY <1>8 DEF AutoBegin
  <2>2. c # d  BY <1>2, <2>1 DEF Idle
  <2>3. call'[c] = call[c]  BY <1>1, <1>8, <2>2 DEF AutoBegin, Enter
  <2> QED  BY <1>2, <2>3
<1>9. ASSUME NEW d \in Callers, ClaimWake(d) PROVE FALSE
  <2>1. call[d].pc = "probe"  BY <1>9 DEF ClaimWake
  <2>2. c # d  BY <1>2, <2>1
  <2>3. call'[c] = call[c]  BY <1>1, <1>9, <2>2 DEF ClaimWake
  <2> QED  BY <1>2, <2>3
<1>10. ASSUME NEW d \in Callers, Send(d) PROVE d = c
  <2> SUFFICES ASSUME d # c PROVE FALSE  OBVIOUS
  <2>1. call'[c] = call[c]  BY <1>1, <1>10 DEF Send, Submit
  <2> QED  BY <1>2, <2>1
<1>11. PICK d \in Callers :
         \/ Leave(d) \/ Goto(d, "sync") \/ Goto(d, "released")
         \/ (call[d].pc = "ready" /\ Goto(d, "adapter"))
         \/ (\E s \in Sessions : AutoBegin(d, s)) \/ ClaimWake(d) \/ Send(d)
  BY <1>3, <1>4, <1>5, CallSteps
<1> QED  BY <1>6, <1>7, <1>8, <1>9, <1>10, <1>11

\* what a send finds
LEMMA SendFinds ==
  ASSUME InboxInv, [Next]_vars, NEW c \in Callers, Sends(c)
  PROVE  /\ call[c].claim.fp = Unresolved(call[c].session) /\ call[c].claim.fp # {}
         /\ Blind(call[c].session) = {}
<1>1. Send(c)  BY SendsOnly DEF InboxInv
<1>2. call[c].pc = "adapter" /\ Valid(call[c].claim, call[c].session)  BY <1>1 DEF Send
<1>3. PICK s \in Sessions : s = call[c].session  BY <1>2, CallerSession
<1>4. Valid(call[c].claim, s)  BY <1>2, <1>3
<1>5. /\ call[c].claim.fp = Unresolved(s) /\ Unresolved(s) # {} /\ Blind(s) = {}
  BY <1>2, <1>3, <1>4, ValidClaim
<1> QED  BY <1>3, <1>5

\* NoBlindResend: no wake is sent while an earlier one about the same inbox reached
\* the agent, or still may, and the server never learnt its fate.
THEOREM NeverBlind == Spec => NoBlindResend
<1>1. InboxInv /\ [Next]_vars =>
        [\A c \in Callers : Sends(c) =>
           \A n \in Wakes :
             (sent[n].session = call[c].session /\ sent[n].current /\ sent[n].fate \in {"wire", "run"})
               => sent[n].answered]_vars
  <2> SUFFICES ASSUME InboxInv, [Next]_vars, NEW c \in Callers, Sends(c), NEW n \in Wakes,
                      sent[n].session = call[c].session, sent[n].current,
                      sent[n].fate \in {"wire", "run"}
               PROVE  sent[n].answered
    OBVIOUS
  <2>1. Blind(call[c].session) = {}  BY SendFinds
  <2> QED  BY <2>1 DEF Blind, About
<1> QED  BY <1>1, InboxHolds, PTL DEF Spec, NoBlindResend

\* WakeIsExact: a wake that is sent was claimed for exactly the callbacks that are
\* unresolved at that moment.
THEOREM Exact == Spec => WakeIsExact
<1>1. InboxInv /\ [Next]_vars =>
        [\A c \in Callers : Sends(c) =>
           call[c].claim.fp = Unresolved(call[c].session) /\ call[c].claim.fp # {}]_vars
  BY SendFinds
<1> QED  BY <1>1, InboxHolds, PTL DEF Spec, WakeIsExact

\* CallbackLeavesOnlyHandledOrCaptured: a callback leaves the inbox because it was
\* handled, or because the trigger that retires it had it in its saved snapshot.
THEOREM LeavesForAReason == Spec => CallbackLeavesOnlyHandledOrCaptured
<1> DEFINE Reason(d) ==
             (dispatch[d].state = "callback_pending" /\ dispatch'[d].state # "callback_pending") =>
               \/ dispatch'[d].state = "acknowledged"
               \/ /\ dispatch'[d].state = "superseded"
                  /\ \E g \in retired' \ retired : d \in cut[g].callbacks
<1>1. ASSUME TypeOK, [Next]_vars, NEW d \in Dispatches PROVE Reason(d)
  <2>1. dispatch \in [Dispatches -> DispatchType]  BY <1>1 DEF TypeOK, DispatchType
  <2>2. CASE dispatch' = dispatch  BY <2>2
  <2>3. ASSUME NEW e \in Dispatches, Acknowledge(e) PROVE Reason(d)
    <3>1. dispatch'[d].state = dispatch[d].state \/ dispatch'[d].state = "acknowledged"
      BY <2>1, <2>3 DEF Acknowledge, DispatchType
    <3> QED  BY <3>1
  <2>4. ASSUME NEW e \in Dispatches,
               CaptureTerminal(e) \/ Close(e) \/ RetryCallback(e)
                 \/ \E s \in Sessions : CreateDispatch(e, s)
        PROVE  Reason(d)
    <3>1. dispatch[d].state = "callback_pending" => dispatch'[d].state = "callback_pending"
      <4>1. CASE CaptureTerminal(e) \/ RetryCallback(e)
        <5>1. dispatch' = [dispatch EXCEPT ![e].state = "callback_pending"]
          BY <4>1 DEF CaptureTerminal, RetryCallback
        <5> QED  BY <2>1, <5>1 DEF DispatchType
      <4>2. CASE Close(e) \/ \E s \in Sessions : CreateDispatch(e, s)
        <5>1. dispatch[e].state # "callback_pending"  BY <4>2 DEF Close, CreateDispatch
        <5>2. \A x \in Dispatches : x # e => dispatch'[x] = dispatch[x]
          BY <2>1, <4>2 DEF Close, CreateDispatch
        <5> QED  BY <5>1, <5>2
      <4> QED  BY <2>4, <4>1, <4>2
    <3> QED  BY <3>1
  <2>5. ASSUME NEW src, NEW dst, Rebind(src, dst) PROVE Reason(d)
    <3>1. dispatch'[d] = IF dispatch[d].session = src
                           THEN [dispatch[d] EXCEPT !.session = dst] ELSE dispatch[d]
      BY <2>5 DEF Rebind
    <3>2. dispatch[d] \in DispatchType  BY <2>1
    <3>3. dispatch'[d].state = dispatch[d].state
      <4>1. CASE dispatch[d].session = src
        <5>1. dispatch'[d] = [dispatch[d] EXCEPT !.session = dst]  BY <3>1, <4>1
        <5> QED  BY <3>2, <5>1 DEF DispatchType
      <4>2. CASE dispatch[d].session # src  BY <3>1, <4>2
      <4> QED  BY <4>1, <4>2
    <3> QED  BY <3>3
  <2>6. CASE RunRetire /\ dispatch' # dispatch
    <3> DEFINE g == owed.of
    <3>1. /\ g \notin retired /\ g \in retired'
          /\ dispatch' = [e \in Dispatches |-> IF e \in Retires(g)
                           THEN [dispatch[e] EXCEPT !.state = "superseded"] ELSE dispatch[e]]
      BY <2>6 DEF RunRetire
    <3>2. CASE d \in Retires(g)
      <4>1. dispatch'[d] = [dispatch[d] EXCEPT !.state = "superseded"]  BY <3>1, <3>2
      <4>2. dispatch[d] \in DispatchType  BY <2>1
      <4>3. dispatch'[d].state = "superseded"  BY <4>1, <4>2 DEF DispatchType
      <4>4. d \in cut[g].callbacks  BY <3>2 DEF Retires
      <4> QED  BY <3>1, <4>3, <4>4
    <3>3. CASE d \notin Retires(g)
      <4>1. dispatch'[d] = dispatch[d]  BY <3>1, <3>3
      <4> QED  BY <4>1
    <3> QED  BY <3>2, <3>3
  <2>7. \/ dispatch' = dispatch
        \/ \E e \in Dispatches :
             \/ Acknowledge(e) \/ CaptureTerminal(e) \/ Close(e) \/ RetryCallback(e)
             \/ \E s \in Sessions : CreateDispatch(e, s)
        \/ RunRetire
        \/ \E src, dst : Rebind(src, dst)
    <3>1. ASSUME NEW c \in Callers, CallerStep(c) PROVE dispatch' = dispatch
      BY <3>1 DEF CallerStep, ProbeBusy, ProbeFails, ClaimResolves, ClaimWake, ClaimRefused, Ready,
           DeliveryFails, Send, SendRefused, Accepted, Finish, Rejected, RejectedCounts, Uncertain
    <3>2. ASSUME NEW c \in Callers, NEW s \in Sessions, AutoBegin(c, s) PROVE dispatch' = dispatch
      BY <3>2 DEF AutoBegin
    <3>3. CASE SupervisorStep
      <4>1. CASE RunReconcile  BY <4>1 DEF RunReconcile
      <4> QED  BY <3>3, <4>1 DEF SupervisorStep
    <3>4. CASE EnvironmentStep
      <4>1. ASSUME NEW s \in Sessions,
                   \/ SeenBusy(s) \/ LeaseExpires(s) \/ DelayElapses(s) \/ TurnEnds(s)
                   \/ DirectTurnBegins(s) \/ DirectTurnPublished(s)
            PROVE  dispatch' = dispatch
        BY <4>1 DEF SeenBusy, LeaseExpires, DelayElapses, TurnEnds, DirectTurnBegins,
                    DirectTurnPublished
      <4>2. ASSUME NEW n \in Wakes, AgentAnswers(n) PROVE dispatch' = dispatch
        BY <4>2 DEF AgentAnswers
      <4>3. ASSUME NEW h \in Triggers,
                   RetryBoundary(h) \/ (\E s \in Sessions : CaptureBoundary(h, s))
            PROVE  dispatch' = dispatch
        BY <4>3 DEF RetryBoundary, CaptureBoundary
      <4>4. CASE Crash  BY <4>4 DEF Crash
      <4> QED  BY <3>4, <4>1, <4>2, <4>3, <4>4 DEF EnvironmentStep
    <3>5. CASE UNCHANGED vars  BY <3>5 DEF vars
    <3> QED  BY <1>1, <3>1, <3>2, <3>3, <3>4, <3>5 DEF Next
  <2> HIDE DEF Reason
  <2> QED  BY <2>2, <2>3, <2>4, <2>5, <2>6, <2>7
<1>2. TypeOK /\ [Next]_vars => [\A d \in Dispatches : Reason(d)]_vars
  <2> HIDE DEF Reason
  <2> QED  BY <1>1
<1> QED  BY <1>2, TypeCorrect, PTL DEF Spec, CallbackLeavesOnlyHandledOrCaptured
=============================================================================

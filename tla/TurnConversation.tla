--------------------------- MODULE TurnConversation ---------------------------
(***************************************************************************)
(* What a dedicated native conversation promises its callers, whatever     *)
(* processes, leases and crashes lie below (docs/completed-native-turns):  *)
(* turns are asked in the order in which they were accepted, each at most  *)
(* once, one at a time, and each gets the answer to its own prompt, unless *)
(* the conversation is cancelled.                                          *)
(***************************************************************************)
EXTENDS Naturals, Sequences

CONSTANT Turns

VARIABLES accepted,   \* the turns in the order of acceptance
          asked,      \* the prompts handed to the native agent, in that order
          answer,     \* which of the asked prompts a turn has the answer to, 0 for none
          cancelled   \* turns that will have no answer

conversation == <<accepted, asked, answer, cancelled>>

Elements(seq) == {seq[i] : i \in DOMAIN seq}

TypeOK ==
  /\ accepted \in Seq(Turns)
  /\ asked \in Seq(Turns)
  /\ answer \in [Turns -> Nat]
  /\ cancelled \subseteq Turns

Init ==
  /\ accepted = <<>>
  /\ asked = <<>>
  /\ answer = [r \in Turns |-> 0]
  /\ cancelled = {}

Accept(r) ==
  /\ r \notin Elements(accepted)
  /\ cancelled = {}
  /\ accepted' = Append(accepted, r)
  /\ UNCHANGED <<asked, answer, cancelled>>

\* all turns accepted before r have their answers
Ask(r) ==
  /\ r \notin Elements(asked)
  /\ \E n \in DOMAIN accepted :
       /\ accepted[n] = r
       /\ \A i \in 1 .. n - 1 : answer[accepted[i]] # 0
  /\ asked' = Append(asked, r)
  /\ UNCHANGED <<accepted, answer, cancelled>>

Answer(r) ==
  /\ answer[r] = 0
  /\ r \notin cancelled
  /\ \E i \in DOMAIN asked : asked[i] = r /\ answer' = [answer EXCEPT ![r] = i]
  /\ UNCHANGED <<accepted, asked, cancelled>>

Cancel ==
  /\ cancelled' = {r \in Elements(accepted) : answer[r] = 0}
  /\ UNCHANGED <<accepted, asked, answer>>

Next ==
  \/ \E r \in Turns : Accept(r) \/ Ask(r) \/ Answer(r)
  \/ Cancel

Spec == Init /\ [][Next]_conversation

-----------------------------------------------------------------------------
\* What every behaviour of the conversation has: the prompts asked are the first
\* accepted ones, in that order; a prompt is asked after the answers to all before
\* it; an answer is to the turn's own prompt; and a cancelled turn has none.
KeptOrder    == \A i \in DOMAIN asked : i \in DOMAIN accepted /\ asked[i] = accepted[i]
NoneTwice    == \A i, j \in DOMAIN accepted : accepted[i] = accepted[j] => i = j
OneAtATime   == \A i, j \in DOMAIN asked : i < j => answer[asked[i]] # 0
OwnAnswer    == \A r \in Turns : answer[r] # 0 => answer[r] \in DOMAIN asked /\ asked[answer[r]] = r
NoneAnswered == \A r \in cancelled : answer[r] = 0

Promises == KeptOrder /\ NoneTwice /\ OneAtATime /\ OwnAnswer /\ NoneAnswered
=============================================================================

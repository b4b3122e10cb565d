------------------------ MODULE TurnConversationProofs ------------------------
(***************************************************************************)
(* What a native conversation promises its callers, whatever the number of *)
(* turns.  CompletedTurnsProofs shows that the service implements it.      *)
(***************************************************************************)
EXTENDS TurnConversation, TLAPS

PromiseInv == TypeOK /\ Promises

LEMMA AppendFields ==
  ASSUME NEW seq \in Seq(Turns), NEW r \in Turns
  PROVE  /\ Append(seq, r) \in Seq(Turns)
         /\ DOMAIN seq = 1 .. Len(seq) /\ Len(seq) \in Nat
         /\ DOMAIN Append(seq, r) = 1 .. (Len(seq) + 1)
         /\ \A i \in DOMAIN seq : Append(seq, r)[i] = seq[i]
         /\ Append(seq, r)[Len(seq) + 1] = r
OBVIOUS

LEMMA AcceptKeeps ==
  ASSUME PromiseInv, NEW r \in Turns, Accept(r)
  PROVE  PromiseInv'
<1>1. /\ accepted \in Seq(Turns) /\ r \notin Elements(accepted)
      /\ accepted' = Append(accepted, r) /\ UNCHANGED <<asked, answer, cancelled>>
  BY DEF PromiseInv, TypeOK, Accept
<1>2. /\ accepted' \in Seq(Turns) /\ DOMAIN accepted = 1 .. Len(accepted) /\ Len(accepted) \in Nat
      /\ DOMAIN accepted' = 1 .. (Len(accepted) + 1)
      /\ \A i \in DOMAIN accepted : accepted'[i] = accepted[i]
      /\ accepted'[Len(accepted) + 1] = r
  BY <1>1, AppendFields
<1>3. TypeOK'  BY <1>1, <1>2 DEF PromiseInv, TypeOK
<1>4. KeptOrder'  BY <1>1, <1>2 DEF PromiseInv, Promises, KeptOrder
<1>5. NoneTwice'
  <2>1. \A i \in DOMAIN accepted : accepted[i] # r  BY <1>1 DEF Elements
  <2>2. \A i \in DOMAIN accepted' : i \in DOMAIN accepted \/ i = Len(accepted) + 1  BY <1>2
  <2> QED  BY <1>2, <2>1, <2>2 DEF PromiseInv, Promises, NoneTwice
<1>6. OneAtATime' /\ OwnAnswer' /\ NoneAnswered'
  BY <1>1 DEF PromiseInv, Promises, OneAtATime, OwnAnswer, NoneAnswered
<1> QED  BY <1>3, <1>4, <1>5, <1>6 DEF PromiseInv, Promises

\* the prompt that is asked is the first accepted one that has not been
LEMMA AskIsNext ==
  ASSUME PromiseInv, NEW r \in Turns, Ask(r)
  PROVE  /\ Len(asked) + 1 \in DOMAIN accepted /\ accepted[Len(asked) + 1] = r
         /\ \A i \in DOMAIN asked : answer[asked[i]] # 0
<1>1. PICK n \in DOMAIN accepted : /\ accepted[n] = r
                                   /\ \A i \in 1 .. n - 1 : answer[accepted[i]] # 0
  BY DEF Ask
<1>2. /\ accepted \in Seq(Turns) /\ asked \in Seq(Turns)
      /\ KeptOrder /\ NoneTwice /\ OwnAnswer
  BY DEF PromiseInv, TypeOK, Promises
<1>3. /\ DOMAIN accepted = 1 .. Len(accepted) /\ DOMAIN asked = 1 .. Len(asked)
      /\ Len(accepted) \in Nat /\ Len(asked) \in Nat
      /\ \A i \in DOMAIN accepted : accepted[i] \in Turns
  BY <1>2
<1>4. \A i \in 1 .. n - 1 : i \in DOMAIN asked
  <2> SUFFICES ASSUME NEW i \in 1 .. n - 1 PROVE i \in DOMAIN asked  OBVIOUS
  <2>1. i \in DOMAIN accepted  BY <1>3
  <2>2. answer[accepted[i]] # 0  BY <1>1
  <2> DEFINE k == answer[accepted[i]]
  <2>3. accepted[i] \in Turns  BY <1>3, <2>1
  <2>4. k \in DOMAIN asked /\ asked[k] = accepted[i]  BY <1>2, <2>2, <2>3 DEF OwnAnswer
  <2>5. k \in DOMAIN accepted /\ asked[k] = accepted[k]  BY <1>2, <2>4 DEF KeptOrder
  <2>6. k = i  BY <1>2, <2>1, <2>4, <2>5 DEF NoneTwice
  <2> QED  BY <2>4, <2>6
<1>5. n \notin DOMAIN asked
  <2> SUFFICES ASSUME n \in DOMAIN asked PROVE FALSE  OBVIOUS
  <2>1. asked[n] = r  BY <1>1, <1>2 DEF KeptOrder
  <2> QED  BY <2>1 DEF Ask, Elements
<1>6. n = Len(asked) + 1
  <2>1. n \in Nat /\ n >= 1 /\ n > Len(asked)  BY <1>3, <1>5
  <2>2. CASE n = 1  BY <1>3, <2>1, <2>2
  <2>3. CASE n > 1
    <3>1. n - 1 \in 1 .. n - 1  BY <2>1, <2>3
    <3>2. n - 1 \in 1 .. Len(asked)  BY <1>3, <1>4, <3>1
    <3> QED  BY <1>3, <2>1, <3>2
  <2> QED  BY <2>1, <2>2, <2>3
<1>7. \A i \in DOMAIN asked : asked[i] = accepted[i] /\ i \in 1 .. n - 1
  BY <1>2, <1>3, <1>6 DEF KeptOrder
<1> QED  BY <1>1, <1>6, <1>7

LEMMA AskKeeps ==
  ASSUME PromiseInv, NEW r \in Turns, Ask(r)
  PROVE  PromiseInv'
<1>1. /\ asked \in Seq(Turns) /\ r \notin Elements(asked)
      /\ asked' = Append(asked, r) /\ UNCHANGED <<accepted, answer, cancelled>>
  BY DEF PromiseInv, TypeOK, Ask
<1>2. /\ asked' \in Seq(Turns) /\ DOMAIN asked = 1 .. Len(asked) /\ Len(asked) \in Nat
      /\ DOMAIN asked' = 1 .. (Len(asked) + 1)
      /\ \A i \in DOMAIN asked : asked'[i] = asked[i]
      /\ asked'[Len(asked) + 1] = r
  BY <1>1, AppendFields
<1>3. \A i \in DOMAIN asked' : i \in DOMAIN asked \/ i = Len(asked) + 1  BY <1>2
<1>4. /\ Len(asked) + 1 \in DOMAIN accepted /\ accepted[Len(asked) + 1] = r
      /\ \A i \in DOMAIN asked : answer[asked[i]] # 0
  BY AskIsNext
<1>5. TypeOK'  BY <1>1, <1>2 DEF PromiseInv, TypeOK
<1>6. KeptOrder'  BY <1>1, <1>2, <1>3, <1>4 DEF PromiseInv, Promises, KeptOrder
<1>7. OneAtATime'
  <2> SUFFICES ASSUME NEW i \in DOMAIN asked', NEW j \in DOMAIN asked', i < j
               PROVE  answer[asked'[i]] # 0
    BY <1>1 DEF OneAtATime
  <2>1. i \in DOMAIN asked  BY <1>2, <1>3
  <2> QED  BY <1>2, <1>4, <2>1
<1>8. OwnAnswer'  BY <1>1, <1>2 DEF PromiseInv, Promises, OwnAnswer
<1>9. NoneTwice' /\ NoneAnswered'  BY <1>1 DEF PromiseInv, Promises, NoneTwice, NoneAnswered
<1> QED  BY <1>5, <1>6, <1>7, <1>8, <1>9 DEF PromiseInv, Promises

LEMMA AnswerKeeps ==
  ASSUME PromiseInv, NEW r \in Turns, Answer(r)
  PROVE  PromiseInv'
<1>1. answer[r] = 0 /\ r \notin cancelled /\ UNCHANGED <<accepted, asked, cancelled>>
  BY DEF Answer
<1>2. PICK n \in DOMAIN asked : asked[n] = r /\ answer' = [answer EXCEPT ![r] = n]  BY DEF Answer
<1>3. asked \in Seq(Turns) /\ answer \in [Turns -> Nat] /\ cancelled \subseteq Turns
  BY DEF PromiseInv, TypeOK
<1>4. n \in Nat /\ n # 0  BY <1>3
<1>5. /\ answer' \in [Turns -> Nat] /\ answer'[r] = n
      /\ \A t \in Turns : t # r => answer'[t] = answer[t]
  BY <1>2, <1>3, <1>4
<1>6. TypeOK'  BY <1>1, <1>5 DEF PromiseInv, TypeOK
<1>7. OneAtATime'
  <2> SUFFICES ASSUME NEW i \in DOMAIN asked, NEW j \in DOMAIN asked, i < j
               PROVE  answer'[asked[i]] # 0
    BY <1>1 DEF OneAtATime
  <2>1. asked[i] \in Turns /\ answer[asked[i]] # 0
    BY <1>3 DEF PromiseInv, Promises, OneAtATime
  <2> QED  BY <1>4, <1>5, <2>1
<1>8. OwnAnswer'  BY <1>1, <1>2, <1>5 DEF PromiseInv, Promises, OwnAnswer
<1>9. NoneAnswered'  BY <1>1, <1>3, <1>5 DEF PromiseInv, Promises, NoneAnswered
<1>10. KeptOrder' /\ NoneTwice'  BY <1>1 DEF PromiseInv, Promises, KeptOrder, NoneTwice
<1> QED  BY <1>6, <1>7, <1>8, <1>9, <1>10 DEF PromiseInv, Promises

LEMMA CancelKeeps ==
  ASSUME PromiseInv, Cancel
  PROVE  PromiseInv'
<1>1. /\ cancelled' = {r \in Elements(accepted) : answer[r] = 0}
      /\ UNCHANGED <<accepted, asked, answer>>
  BY DEF Cancel
<1>2. Elements(accepted) \subseteq Turns  BY DEF PromiseInv, TypeOK, Elements
<1>3. TypeOK'  BY <1>1, <1>2 DEF PromiseInv, TypeOK
<1>4. NoneAnswered'  BY <1>1 DEF NoneAnswered
<1>5. KeptOrder' /\ NoneTwice' /\ OneAtATime' /\ OwnAnswer'
  BY <1>1 DEF PromiseInv, Promises, KeptOrder, NoneTwice, OneAtATime, OwnAnswer
<1> QED  BY <1>3, <1>4, <1>5 DEF PromiseInv, Promises

\* The conversation keeps its promises: prompts are asked in the order of acceptance,
\* each once and only after the answers to all earlier ones, every answer is to the
\* turn's own prompt, and a cancelled turn gets none.
THEOREM KeepsPromises == Spec => []Promises
<1>1. Init => PromiseInv
  BY DEF Init, PromiseInv, TypeOK, Promises, KeptOrder, NoneTwice, OneAtATime, OwnAnswer,
         NoneAnswered
<1>2. PromiseInv /\ [Next]_conversation => PromiseInv'
  <2> SUFFICES ASSUME PromiseInv, [Next]_conversation PROVE PromiseInv'  OBVIOUS
  <2>1. ASSUME NEW r \in Turns, Accept(r) \/ Ask(r) \/ Answer(r) PROVE PromiseInv'
    BY <2>1, AcceptKeeps, AskKeeps, AnswerKeeps
  <2>2. CASE Cancel  BY <2>2, CancelKeeps
  <2>3. CASE UNCHANGED conversation
    BY <2>3 DEF conversation, PromiseInv, TypeOK, Promises, KeptOrder, NoneTwice, OneAtATime,
                OwnAnswer, NoneAnswered
  <2> QED  BY <2>1, <2>2, <2>3 DEF Next
<1>3. PromiseInv => Promises  BY DEF PromiseInv
<1> QED  BY <1>1, <1>2, <1>3, PTL DEF Spec
=============================================================================

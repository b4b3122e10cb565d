------------------------- MODULE WalletTransfersProofs -------------------------
(***************************************************************************)
(* Theorems about WalletTransfers, for every set of wallets, transfers,    *)
(* commands and operations of the wallet library.                          *)
(***************************************************************************)
EXTENDS WalletTransfers, FiniteSetTheorems, TLAPS

-----------------------------------------------------------------------------
(* Types, and which locals a command has where it stands *)

Entered == {"journal", "send", "saveSend", "execute", "swap", "sent", "receive", "saveReceive",
            "redeem", "swapIn", "received", "confirm", "complete", "failed"}
HasSend == {"saveSend", "execute", "swap", "sent", "receive", "saveReceive", "redeem", "swapIn",
            "received", "confirm", "complete"}
HasReceive == {"saveReceive", "redeem", "swapIn", "received", "confirm", "complete"}

LocalsOf(p) ==
  /\ proc[p].pc \in {"opened", "unlock"} \cup Entered => proc[p].from \in Wallets
  /\ proc[p].pc \in Entered => proc[p].to \in Wallets /\ proc[p].t \in Transfers
  /\ proc[p].pc \in {"new", "opened"} => proc[p].to = None /\ proc[p].t = None
  /\ proc[p].pc \in HasSend => proc[p].send \in Sends
  /\ proc[p].pc \in HasReceive => proc[p].receive \in Receives

TypeInv == TypeOK /\ \A p \in Procs : LocalsOf(p)

\* what a step of p does to the commands: p gets new locals, or only a new phase
Moves(p, new) == proc' = [proc EXCEPT ![p] = new]
Others(p) == \A q \in Procs : q # p => proc'[q] = proc[q]
Keeps(p) == /\ proc'[p].from = proc[p].from
            /\ proc'[p].to = proc[p].to
            /\ proc'[p].t = proc[p].t
            /\ proc'[p].send = proc[p].send
            /\ proc'[p].receive = proc[p].receive

LEMMA MovesType ==
  ASSUME proc \in [Procs -> Process], NEW p \in Procs, NEW new \in Process, Moves(p, new)
  PROVE  proc' \in [Procs -> Process] /\ proc'[p] = new /\ Others(p)
BY DEF Moves, Others

LEMMA GotoType ==
  ASSUME proc \in [Procs -> Process], NEW p \in Procs, NEW pc \in Phases, Goto(p, pc)
  PROVE  proc' \in [Procs -> Process] /\ proc'[p].pc = pc /\ Keeps(p) /\ Others(p)
<1>1. [proc[p] EXCEPT !.pc = pc] \in Process
  BY DEF Process
<1>2. Moves(p, [proc[p] EXCEPT !.pc = pc])
  BY DEF Goto, Moves
<1>3. proc' \in [Procs -> Process] /\ proc'[p] = [proc[p] EXCEPT !.pc = pc] /\ Others(p)
  BY <1>1, <1>2, MovesType
<1> QED BY <1>3 DEF Keeps, Process

\* The journal is written one transfer at a time.
OtherRows(t) == \A u \in Transfers : u # t => row'[u] = row[u]

LEMMA SaveType ==
  ASSUME row \in [Transfers -> Entry], NEW t \in Transfers, NEW e \in Entry, Save(t, e)
  PROVE  row' \in [Transfers -> Entry] /\ row'[t] = e /\ OtherRows(t)
BY DEF Save, OtherRows

\* An operation of the library changes its state; its wallet and cause stay.
SendAdvances(x) ==
  /\ send' \in [Sends -> SendOperation]
  /\ \A y \in Sends : /\ send'[y].wallet = send[y].wallet
                      /\ send'[y].cause = send[y].cause
                      /\ send'[y].state = "none" => send[y].state = "none"
                      /\ y # x => send'[y] = send[y]

ReceiveAdvances(r) ==
  /\ receive' \in [Receives -> ReceiveOperation]
  /\ \A s \in Receives : /\ receive'[s].wallet = receive[s].wallet
                         /\ receive'[s].token = receive[s].token
                         /\ receive'[s].state = "none" => receive[s].state = "none"
                         /\ s # r => receive'[s] = receive[s]

LEMMA SendStateType ==
  ASSUME send \in [Sends -> SendOperation], NEW x \in Sends,
         NEW state \in {"executing", "pending", "finalized", "rolledBack"},
         send' = [send EXCEPT ![x].state = state]
  PROVE  SendAdvances(x) /\ send'[x].swapped = send[x].swapped
BY DEF SendAdvances, SendOperation

\* An operation of the same wallet and transfer in its place.
LEMMA SendFieldsType ==
  ASSUME send \in [Sends -> SendOperation], NEW x \in Sends, NEW new \in SendOperation,
         send' = [send EXCEPT ![x] = new],
         new.wallet = send[x].wallet, new.cause = send[x].cause,
         new.state = "none" => send[x].state = "none"
  PROVE  SendAdvances(x)
BY DEF SendAdvances

LEMMA ReceiveStateType ==
  ASSUME receive \in [Receives -> ReceiveOperation], NEW r \in Receives,
         NEW state \in {"prepared", "executing", "finalized"},
         receive' = [receive EXCEPT ![r].state = state]
  PROVE  ReceiveAdvances(r) /\ receive'[r].state = state
BY DEF ReceiveAdvances, ReceiveOperation

-----------------------------------------------------------------------------
(* What each operation does, entry by entry *)

LEMMA OpenSourceEffect ==
  ASSUME TypeInv, NEW p \in Procs, OpenSource(p)
  PROVE  /\ TypeOK'
         /\ At(p, "new") /\ At(p, "opened")' /\ Others(p)
         /\ proc'[p].from \in Wallets
         /\ proc'[p].to = None /\ proc'[p].t = None
         /\ lock[proc'[p].from] = None
         /\ lock' = [lock EXCEPT ![proc'[p].from] = p]
         /\ UNCHANGED <<row, send, receive, redeemed>>
<1>1. PICK w \in Wallets : /\ lock[w] = None
                           /\ lock' = [lock EXCEPT ![w] = p]
                           /\ proc' = [proc EXCEPT ![p].pc = "opened", ![p].from = w]
  BY DEF OpenSource
<1> DEFINE new == [proc[p] EXCEPT !.pc = "opened", !.from = w]
<1>2. proc[p] \in Process /\ proc \in [Procs -> Process] /\ lock' \in [Wallets -> Procs \cup {None}]
  BY <1>1 DEF TypeInv, TypeOK
<1>3. new \in Process /\ new.pc = "opened" /\ new.from = w /\ new.to = proc[p].to /\ new.t = proc[p].t
  BY <1>2 DEF Process, Phases
<1>4. Moves(p, new)
  BY <1>1, <1>2 DEF Moves, Process
<1>5. proc' \in [Procs -> Process] /\ proc'[p] = new /\ Others(p)
  BY <1>2, <1>3, <1>4, MovesType
<1>6. At(p, "new") /\ proc[p].to = None /\ proc[p].t = None
  BY DEF OpenSource, TypeInv, LocalsOf, At
<1> HIDE DEF new
<1> QED BY <1>1, <1>2, <1>3, <1>5, <1>6 DEF OpenSource, TypeInv, TypeOK, At

LEMMA OpenRecipientEffect ==
  ASSUME TypeInv, NEW p \in Procs, OpenRecipient(p)
  PROVE  /\ TypeOK'
         /\ At(p, "opened") /\ At(p, "journal")' /\ Others(p)
         /\ proc'[p].from = proc[p].from
         /\ proc'[p].to \in Wallets
         /\ proc'[p].t \in Transfers
         /\ \/ /\ row[proc'[p].t].state = "none"
               /\ \A q \in Procs : Running(q) => proc[q].t # proc'[p].t
               /\ Unresolved(proc[p].from) => "unrelated" \in Env
            \/ row[proc'[p].t].from = proc[p].from /\ row[proc'[p].t].to = proc'[p].to
         /\ lock[proc'[p].to] = None
         /\ lock' = [lock EXCEPT ![proc'[p].to] = p]
         /\ UNCHANGED <<row, send, receive, redeemed>>
<1>1. PICK t \in Transfers, w \in Wallets :
        /\ \/ /\ row[t].state = "none"
              /\ \A q \in Procs : Running(q) => proc[q].t # t
              /\ Unresolved(proc[p].from) => "unrelated" \in Env
           \/ row[t].from = proc[p].from /\ row[t].to = w
        /\ lock[w] = None
        /\ lock' = [lock EXCEPT ![w] = p]
        /\ proc' = [proc EXCEPT ![p].pc = "journal", ![p].t = t, ![p].to = w]
  BY DEF OpenRecipient
<1> DEFINE new == [proc[p] EXCEPT !.pc = "journal", !.t = t, !.to = w]
<1>2. proc[p] \in Process /\ proc \in [Procs -> Process] /\ lock' \in [Wallets -> Procs \cup {None}]
  BY <1>1 DEF TypeInv, TypeOK
<1>3. new \in Process /\ new.pc = "journal" /\ new.from = proc[p].from /\ new.to = w /\ new.t = t
  BY <1>2 DEF Process, Phases
<1>4. Moves(p, new)
  BY <1>1, <1>2 DEF Moves, Process
<1>5. proc' \in [Procs -> Process] /\ proc'[p] = new /\ Others(p)
  BY <1>2, <1>3, <1>4, MovesType
<1> HIDE DEF new
<1>6. UNCHANGED <<row, send, receive, redeemed>> /\ At(p, "opened")
  BY DEF OpenRecipient
<1>7. TypeOK'
  BY <1>2, <1>5, <1>6 DEF TypeInv, TypeOK
<1> QED BY <1>1, <1>3, <1>5, <1>6, <1>7 DEF At

LEMMA ReleaseType ==
  ASSUME TypeInv, NEW p \in Procs
  PROVE  Released(p) \in [Wallets -> Procs \cup {None}]
BY DEF TypeInv, TypeOK, Released

LEMMA LockStepEffect ==
  ASSUME TypeInv, NEW p \in Procs
  PROVE  /\ Fail(p) => /\ TypeOK' /\ At(p, "exited")' /\ Keeps(p) /\ Others(p)
                       /\ lock' = Released(p)
                       /\ UNCHANGED <<row, send, receive, redeemed>>
         /\ Die(p) => /\ TypeOK' /\ At(p, "dead")' /\ Keeps(p) /\ Others(p)
                      /\ UNCHANGED <<lock, row, send, receive, redeemed>>
         /\ RemoveLock(p) => /\ TypeOK' /\ At(p, "exited")' /\ Keeps(p) /\ Others(p)
                             /\ lock' = [lock EXCEPT ![proc[p].from] = None]
                             /\ UNCHANGED <<row, send, receive, redeemed>>
<1>1. proc \in [Procs -> Process] /\ lock \in [Wallets -> Procs \cup {None}]
  BY DEF TypeInv, TypeOK
<1>2. "exited" \in Phases /\ "dead" \in Phases
  BY DEF Phases
<1>3. ASSUME Fail(p) PROVE TypeOK' /\ At(p, "exited")' /\ Keeps(p) /\ Others(p)
  <2>1. proc' \in [Procs -> Process] /\ At(p, "exited")' /\ Keeps(p) /\ Others(p)
    BY <1>1, <1>2, <1>3, GotoType DEF Fail, At
  <2> QED BY <1>3, <2>1, ReleaseType DEF Fail, TypeInv, TypeOK
<1>4. ASSUME Die(p) PROVE TypeOK' /\ At(p, "dead")' /\ Keeps(p) /\ Others(p)
  <2>1. proc' \in [Procs -> Process] /\ At(p, "dead")' /\ Keeps(p) /\ Others(p)
    BY <1>1, <1>2, <1>4, GotoType DEF Die, At
  <2> QED BY <1>4, <2>1 DEF Die, TypeInv, TypeOK
<1>5. ASSUME RemoveLock(p) PROVE TypeOK' /\ At(p, "exited")' /\ Keeps(p) /\ Others(p)
  <2>1. proc' \in [Procs -> Process] /\ At(p, "exited")' /\ Keeps(p) /\ Others(p)
    BY <1>1, <1>2, <1>5, GotoType DEF RemoveLock, At
  <2> QED BY <1>1, <1>5, <2>1 DEF RemoveLock, TypeInv, TypeOK
<1> QED BY <1>3, <1>4, <1>5 DEF Fail, Die, RemoveLock

LEMMA UnlockEffect ==
  ASSUME TypeInv, NEW p \in Procs, Unlock(p)
  PROVE  /\ TypeOK'
         /\ At(p, "new") /\ At(p, "unlock")' /\ Others(p)
         /\ proc'[p].from \in Wallets
         /\ lock[proc'[p].from] # None
         /\ At(lock[proc'[p].from], "dead")
         /\ \A q \in Procs : At(q, "unlock") => "unlocks" \in Env
         /\ UNCHANGED <<lock, row, send, receive, redeemed>>
<1>1. PICK w \in Wallets : /\ lock[w] # None
                           /\ At(lock[w], "dead")
                           /\ \A q \in Procs : At(q, "unlock") => "unlocks" \in Env
                           /\ proc' = [proc EXCEPT ![p].pc = "unlock", ![p].from = w]
  BY DEF Unlock
<1> DEFINE new == [proc[p] EXCEPT !.pc = "unlock", !.from = w]
<1>2. proc[p] \in Process /\ proc \in [Procs -> Process]
  BY DEF TypeInv, TypeOK
<1>3. new \in Process /\ new.pc = "unlock" /\ new.from = w
  BY <1>2 DEF Process, Phases
<1>4. Moves(p, new)
  BY <1>1, <1>2 DEF Moves, Process
<1>5. proc' \in [Procs -> Process] /\ proc'[p] = new /\ Others(p)
  BY <1>2, <1>3, <1>4, MovesType
<1> HIDE DEF new
<1>6. UNCHANGED <<lock, row, send, receive, redeemed>> /\ At(p, "new")
  BY DEF Unlock
<1>7. TypeOK'
  BY <1>5, <1>6 DEF TypeInv, TypeOK
<1> QED BY <1>1, <1>3, <1>5, <1>6, <1>7 DEF At

LEMMA JournalEffect ==
  ASSUME TypeInv, NEW p \in Procs, Journal(p)
  PROVE  /\ TypeOK'
         /\ At(p, "journal") /\ Others(p) /\ OtherRows(proc[p].t)
         /\ proc'[p].from = proc[p].from /\ proc'[p].to = proc[p].to /\ proc'[p].t = proc[p].t
         /\ proc'[p].send = row[proc[p].t].send
         /\ \/ row[proc[p].t].send = None /\ At(p, "send")'
            \/ row[proc[p].t].send # None /\ At(p, "execute")'
         /\ \/ /\ row[proc[p].t].state = "none"
               /\ row'[proc[p].t].state = "preparing"
               /\ row'[proc[p].t].from = proc[p].from
               /\ row'[proc[p].t].to = proc[p].to
               /\ row'[proc[p].t].send = None
               /\ row'[proc[p].t].receive = None
               /\ row'[proc[p].t].previous = Mine(proc[p].from)
            \/ row[proc[p].t].state # "none" /\ row' = row
         /\ UNCHANGED <<lock, send, receive, redeemed>>
<1> DEFINE t == proc[p].t
           next == IF row[t].send = None THEN "send" ELSE "execute"
           new == [proc[p] EXCEPT !.pc = next, !.send = row[t].send]
           entry == [NoRow EXCEPT !.state = "preparing", !.from = proc[p].from, !.to = proc[p].to,
                                  !.previous = Mine(proc[p].from)]
<1>1. /\ proc[p] \in Process /\ proc \in [Procs -> Process] /\ row \in [Transfers -> Entry]
      /\ At(p, "journal")
      /\ UNCHANGED <<lock, send, receive, redeemed>>
  BY DEF TypeInv, TypeOK, Journal
<1>2. t \in Transfers /\ proc[p].from \in Wallets /\ proc[p].to \in Wallets
  BY <1>1 DEF TypeInv, LocalsOf, At, Entered
<1>3. row[t].send \in Sends \cup {None}
  BY <1>1, <1>2 DEF Entry
<1>4. proc' = [proc EXCEPT ![p].pc = next, ![p].send = row[t].send]
  BY DEF Journal
<1>5. Moves(p, new)
  BY <1>1, <1>4 DEF Moves, Process
<1>6. next \in Phases
  BY DEF Phases
<1>7. /\ new \in Process /\ new.pc = next /\ new.send = row[t].send
      /\ new.from = proc[p].from /\ new.to = proc[p].to /\ new.t = t
  <2> HIDE DEF next
  <2> QED BY <1>1, <1>3, <1>6 DEF Process
<1>8. proc' \in [Procs -> Process] /\ proc'[p] = new /\ Others(p)
  <2> HIDE DEF new
  <2> QED BY <1>1, <1>5, <1>7, MovesType
<1>9. CASE row[t].state = "none"
  <2>1. /\ entry \in Entry /\ entry.state = "preparing" /\ entry.from = proc[p].from
        /\ entry.to = proc[p].to /\ entry.send = None /\ entry.receive = None
        /\ entry.previous = Mine(proc[p].from)
    <3>1. Mine(proc[p].from) \in SUBSET Sends
      BY DEF Mine
    <3> QED BY <1>2, <3>1 DEF NoRow, Entry
  <2>2. Save(t, entry)
    BY <1>9 DEF Journal
  <2> HIDE DEF new, next, entry
  <2>3. row' \in [Transfers -> Entry] /\ row'[t] = entry /\ OtherRows(t)
    BY <1>1, <1>2, <2>1, <2>2, SaveType
  <2>4. TypeOK'
    BY <1>1, <1>8, <2>3 DEF TypeInv, TypeOK
  <2> QED BY <1>1, <1>7, <1>8, <1>9, <2>1, <2>3, <2>4 DEF At, next
<1>10. CASE row[t].state # "none"
  <2>1. row' = row
    BY <1>10 DEF Journal
  <2> HIDE DEF new, next
  <2>2. TypeOK'
    BY <1>1, <1>8, <2>1 DEF TypeInv, TypeOK
  <2> QED BY <1>1, <1>7, <1>8, <1>10, <2>1, <2>2 DEF At, next, OtherRows
<1> QED BY <1>9, <1>10

LEMMA FindSendEffect ==
  ASSUME TypeInv, NEW p \in Procs, FindSend(p)
  PROVE  /\ TypeOK'
         /\ At(p, "send") /\ At(p, "saveSend")' /\ Others(p)
         /\ proc'[p].from = proc[p].from /\ proc'[p].to = proc[p].to /\ proc'[p].t = proc[p].t
         /\ proc'[p].send \in Candidates(p)
         /\ UNCHANGED <<lock, row, send, receive, redeemed>>
<1>1. PICK x \in Candidates(p) : proc' = [proc EXCEPT ![p].pc = "saveSend", ![p].send = x]
  BY DEF FindSend
<1> DEFINE new == [proc[p] EXCEPT !.pc = "saveSend", !.send = x]
<1>2. /\ proc[p] \in Process /\ proc \in [Procs -> Process] /\ x \in Sends
      /\ At(p, "send")
      /\ UNCHANGED <<lock, row, send, receive, redeemed>>
  BY DEF TypeInv, TypeOK, FindSend, Candidates, Mine
<1>3. /\ new \in Process /\ new.pc = "saveSend" /\ new.send = x
      /\ new.from = proc[p].from /\ new.to = proc[p].to /\ new.t = proc[p].t
  BY <1>2 DEF Process, Phases
<1>4. Moves(p, new)
  BY <1>1, <1>2 DEF Moves, Process
<1> HIDE DEF new
<1>5. proc' \in [Procs -> Process] /\ proc'[p] = new /\ Others(p)
  BY <1>2, <1>3, <1>4, MovesType
<1>6. TypeOK'
  BY <1>2, <1>5 DEF TypeInv, TypeOK
<1> QED BY <1>2, <1>3, <1>5, <1>6 DEF At

LEMMA PrepareSendEffect ==
  ASSUME TypeInv, NEW p \in Procs, PrepareSend(p)
  PROVE  /\ TypeOK'
         /\ At(p, "send") /\ At(p, "saveSend")' /\ Others(p)
         /\ proc'[p].from = proc[p].from /\ proc'[p].to = proc[p].to /\ proc'[p].t = proc[p].t
         /\ Candidates(p) = {}
         /\ proc'[p].send \in Sends
         /\ send[proc'[p].send].state = "none"
         /\ send'[proc'[p].send].state = "prepared"
         /\ send'[proc'[p].send].wallet = proc[p].from
         /\ send'[proc'[p].send].cause = proc[p].t
         /\ send'[proc'[p].send].swapped = send[proc'[p].send].swapped
         /\ \A y \in Sends : y # proc'[p].send => send'[y] = send[y]
         /\ UNCHANGED <<lock, row, receive, redeemed>>
<1>1. PICK x \in Sends :
        /\ send[x].state = "none"
        /\ send' = [send EXCEPT ![x].state = "prepared", ![x].wallet = proc[p].from,
                                ![x].cause = proc[p].t]
        /\ proc' = [proc EXCEPT ![p].pc = "saveSend", ![p].send = x]
  BY DEF PrepareSend
<1> DEFINE new == [proc[p] EXCEPT !.pc = "saveSend", !.send = x]
           prepared == [send[x] EXCEPT !.state = "prepared", !.wallet = proc[p].from,
                                       !.cause = proc[p].t]
<1>2. /\ proc[p] \in Process /\ proc \in [Procs -> Process]
      /\ send[x] \in SendOperation /\ send \in [Sends -> SendOperation]
      /\ At(p, "send") /\ Candidates(p) = {}
      /\ UNCHANGED <<lock, row, receive, redeemed>>
  BY DEF TypeInv, TypeOK, PrepareSend
<1>3. /\ new \in Process /\ new.pc = "saveSend" /\ new.send = x
      /\ new.from = proc[p].from /\ new.to = proc[p].to /\ new.t = proc[p].t
  BY <1>2 DEF Process, Phases
<1>4. Moves(p, new)
  BY <1>1, <1>2 DEF Moves, Process
<1>5. proc[p].t \in Transfers /\ proc[p].from \in Wallets
  BY <1>2 DEF TypeInv, LocalsOf, At, Entered
<1>6. /\ prepared \in SendOperation /\ prepared.state = "prepared"
      /\ prepared.wallet = proc[p].from /\ prepared.cause = proc[p].t
      /\ prepared.swapped = send[x].swapped
  BY <1>2, <1>5 DEF SendOperation
<1>7. send' = [send EXCEPT ![x] = prepared]
  BY <1>1, <1>2 DEF SendOperation
<1> HIDE DEF new, prepared
<1>8. proc' \in [Procs -> Process] /\ proc'[p] = new /\ Others(p)
  BY <1>2, <1>3, <1>4, MovesType
<1>9. /\ send' \in [Sends -> SendOperation] /\ send'[x] = prepared
      /\ \A y \in Sends : y # x => send'[y] = send[y]
  BY <1>2, <1>6, <1>7
<1>10. TypeOK'
  BY <1>2, <1>8, <1>9 DEF TypeInv, TypeOK
<1> QED BY <1>1, <1>2, <1>3, <1>6, <1>8, <1>9, <1>10 DEF At

LEMMA SaveSendEffect ==
  ASSUME TypeInv, NEW p \in Procs, SaveSend(p)
  PROVE  /\ TypeOK'
         /\ At(p, "saveSend") /\ At(p, "execute")' /\ Keeps(p) /\ Others(p)
         /\ OtherRows(proc[p].t)
         /\ row'[proc[p].t].state = row[proc[p].t].state
         /\ row'[proc[p].t].from = row[proc[p].t].from
         /\ row'[proc[p].t].to = row[proc[p].t].to
         /\ row'[proc[p].t].send = proc[p].send
         /\ row'[proc[p].t].receive = row[proc[p].t].receive
         /\ UNCHANGED <<lock, send, receive, redeemed>>
<1> DEFINE t == proc[p].t
           entry == [row[t] EXCEPT !.send = proc[p].send, !.previous = {}]
<1>1. /\ proc \in [Procs -> Process] /\ row \in [Transfers -> Entry] /\ "execute" \in Phases
      /\ At(p, "saveSend") /\ Goto(p, "execute") /\ Save(t, entry)
      /\ UNCHANGED <<lock, send, receive, redeemed>>
  BY DEF TypeInv, TypeOK, SaveSend, Phases
<1>2. t \in Transfers /\ proc[p].send \in Sends
  BY <1>1 DEF TypeInv, LocalsOf, At, Entered, HasSend
<1>3. /\ entry \in Entry /\ entry.state = row[t].state /\ entry.from = row[t].from
      /\ entry.to = row[t].to /\ entry.send = proc[p].send /\ entry.receive = row[t].receive
  <2>1. row[t] \in Entry
    BY <1>1, <1>2
  <2> QED BY <1>2, <2>1 DEF Entry
<1> HIDE DEF entry
<1>4. row' \in [Transfers -> Entry] /\ row'[t] = entry /\ OtherRows(t)
  BY <1>1, <1>2, <1>3, SaveType
<1>5. proc' \in [Procs -> Process] /\ At(p, "execute")' /\ Keeps(p) /\ Others(p)
  BY <1>1, GotoType DEF At
<1>6. TypeOK'
  BY <1>1, <1>4, <1>5 DEF TypeInv, TypeOK
<1> QED BY <1>1, <1>3, <1>4, <1>5, <1>6

\* The steps that change the state of the send: its token may have been handed
\* out only where its id is known to be journalled.
LEMMA SendStepEffect ==
  ASSUME TypeInv, NEW p \in Procs,
         ExecuteSend(p) \/ Swap(p) \/ RefreshSend(p) \/ Confirm(p)
  PROVE  /\ TypeOK'
         /\ Keeps(p) /\ Others(p)
         /\ SendAdvances(proc[p].send)
         /\ send'[proc[p].send].swapped => send[proc[p].send].swapped \/ At(p, "swap")
         /\ \/ ExecuteSend(p) /\ At(p, "execute") /\ At(p, "swap")'
               /\ send[proc[p].send].state = "prepared"
            \/ Swap(p) /\ At(p, "swap") /\ proc'[p].pc \in {"sent", "failed"}
            \/ RefreshSend(p) /\ At(p, "execute") /\ proc'[p].pc \in {"sent", "failed"}
               /\ send[proc[p].send].state = "executing"
            \/ Confirm(p) /\ At(p, "confirm") /\ At(p, "complete")'
         /\ UNCHANGED <<lock, row, receive, redeemed>>
<1> DEFINE x == proc[p].send
           Sets == /\ SendAdvances(x)
                   /\ send'[x].swapped => send[x].swapped \/ At(p, "swap")
<1>1. /\ proc \in [Procs -> Process] /\ send \in [Sends -> SendOperation]
      /\ UNCHANGED <<lock, row, receive, redeemed>>
  BY DEF TypeInv, TypeOK, ExecuteSend, Swap, RefreshSend, Confirm
<1>2. x \in Sends
  <2>1. proc[p].pc \in {"execute", "swap", "confirm"}
    BY DEF ExecuteSend, Swap, RefreshSend, Confirm, Sending, At
  <2> QED BY <2>1 DEF TypeInv, LocalsOf, HasSend
<1>3. send' = send => SendAdvances(x)
  BY <1>1 DEF SendAdvances
<1>4. \A pc \in Phases : Goto(p, pc) =>
        proc' \in [Procs -> Process] /\ proc'[p].pc = pc /\ Keeps(p) /\ Others(p)
  BY <1>1, GotoType
<1>5. \A state \in {"executing", "pending", "finalized", "rolledBack"} :
        send' = [send EXCEPT ![x].state = state] => SendAdvances(x) /\ send'[x].swapped = send[x].swapped
  BY <1>1, <1>2, SendStateType
<1>6. {"swap", "sent", "failed", "complete"} \subseteq Phases
  BY DEF Phases
<1>15. \A new \in SendOperation :
         /\ send' = [send EXCEPT ![x] = new]
         /\ new.wallet = send[x].wallet /\ new.cause = send[x].cause
         /\ new.state = "none" => send[x].state = "none"
         => SendAdvances(x)
  BY <1>1, <1>2, SendFieldsType
<1>7. ASSUME proc' \in [Procs -> Process], send' \in [Sends -> SendOperation] PROVE TypeOK'
  BY <1>1, <1>7 DEF TypeInv, TypeOK
<1>8. ASSUME Sets PROVE send' \in [Sends -> SendOperation]
  BY <1>1, <1>8 DEF SendAdvances
<1>9. CASE ExecuteSend(p)
  <2>1. /\ send' = [send EXCEPT ![x].state = "executing"] /\ Goto(p, "swap")
        /\ At(p, "execute") /\ send[x].state = "prepared"
    BY <1>9 DEF ExecuteSend, Sending
  <2>2. Sets
    BY <2>1, <1>3, <1>5
  <2> HIDE DEF Sets, x
  <2>3. proc' \in [Procs -> Process] /\ At(p, "swap")' /\ Keeps(p) /\ Others(p)
    BY <2>1, <1>4, <1>6 DEF At
  <2> QED BY <1>1, <1>7, <1>8, <1>9, <2>1, <2>2, <2>3 DEF Sets, x
<1>10. CASE Swap(p)
  <2>1. /\ At(p, "swap")
        /\ \/ send' = [send EXCEPT ![x].swapped = TRUE, ![x].state = "pending"] /\ Goto(p, "sent")
           \/ send' = [send EXCEPT ![x].swapped = TRUE] /\ Goto(p, "failed")
    BY <1>10 DEF Swap
  <2>2. Sets
    <3> DEFINE swap == [send[x] EXCEPT !.swapped = TRUE]
               done == [send[x] EXCEPT !.swapped = TRUE, !.state = "pending"]
    <3>1. send[x] \in SendOperation  BY <1>1, <1>2
    <3>2. /\ swap \in SendOperation /\ swap.wallet = send[x].wallet
          /\ swap.cause = send[x].cause /\ swap.state = send[x].state
      BY <3>1 DEF SendOperation
    <3>3. /\ done \in SendOperation /\ done.wallet = send[x].wallet
          /\ done.cause = send[x].cause /\ done.state = "pending"
      BY <3>1 DEF SendOperation
    <3>4. \/ send' = [send EXCEPT ![x] = swap]
          \/ send' = [send EXCEPT ![x] = done]
      BY <2>1
    <3> HIDE DEF swap, done
    <3> QED BY <2>1, <3>2, <3>3, <3>4, <1>15
  <2> HIDE DEF Sets, x
  <2>3. proc' \in [Procs -> Process] /\ proc'[p].pc \in {"sent", "failed"} /\ Keeps(p) /\ Others(p)
    BY <2>1, <1>4, <1>6
  <2> QED BY <1>1, <1>7, <1>8, <1>10, <2>1, <2>2, <2>3 DEF Sets, x
<1>11. CASE RefreshSend(p)
  <2>1. /\ At(p, "execute") /\ send[x].state = "executing"
        /\ \/ send' = [send EXCEPT ![x].state = "pending"]
           \/ send' = send
           \/ send' = [send EXCEPT ![x].state = "rolledBack"]
        /\ Goto(p, "sent") \/ Goto(p, "failed")
    BY <1>11 DEF RefreshSend, Sending
  <2>2. Sets
    BY <2>1, <1>3, <1>5
  <2> HIDE DEF Sets, x
  <2>3. proc' \in [Procs -> Process] /\ proc'[p].pc \in {"sent", "failed"} /\ Keeps(p) /\ Others(p)
    BY <2>1, <1>4, <1>6
  <2> QED BY <1>1, <1>7, <1>8, <1>11, <2>1, <2>2, <2>3 DEF Sets, x
<1>12. CASE Confirm(p)
  <2>1. /\ At(p, "confirm") /\ send' = [send EXCEPT ![x].state = "finalized"]
        /\ Goto(p, "complete")
    BY <1>12 DEF Confirm
  <2>2. Sets
    BY <2>1, <1>3, <1>5
  <2> HIDE DEF Sets, x
  <2>3. proc' \in [Procs -> Process] /\ At(p, "complete")' /\ Keeps(p) /\ Others(p)
    BY <2>1, <1>4, <1>6 DEF At
  <2> QED BY <1>1, <1>7, <1>8, <1>12, <2>1, <2>2, <2>3 DEF Sets, x
<1> QED BY <1>9, <1>10, <1>11, <1>12

LEMMA AlreadyEffect ==
  ASSUME TypeInv, NEW p \in Procs, AlreadySent(p) \/ AlreadyReceived(p)
  PROVE  /\ TypeOK'
         /\ Keeps(p) /\ Others(p)
         /\ \/ At(p, "execute") /\ At(p, "sent")'
            \/ /\ At(p, "redeem") /\ At(p, "received")'
               /\ receive[proc[p].receive].state = "finalized"
         /\ UNCHANGED <<lock, row, send, receive, redeemed>>
<1>1. /\ proc \in [Procs -> Process]
      /\ UNCHANGED <<lock, row, send, receive, redeemed>>
      /\ \/ At(p, "execute") /\ Goto(p, "sent")
         \/ /\ At(p, "redeem") /\ Goto(p, "received")
            /\ receive[proc[p].receive].state = "finalized"
  BY DEF TypeInv, TypeOK, AlreadySent, AlreadyReceived, Sending, Receiving
<1>2. {"sent", "received"} \subseteq Phases
  BY DEF Phases
<1>3. \A pc \in Phases : Goto(p, pc) =>
        proc' \in [Procs -> Process] /\ At(p, pc)' /\ Keeps(p) /\ Others(p)
  BY <1>1, GotoType DEF At
<1>4. proc' \in [Procs -> Process]
  BY <1>1, <1>2, <1>3
<1>5. TypeOK'
  BY <1>1, <1>4 DEF TypeInv, TypeOK
<1> QED BY <1>1, <1>2, <1>3, <1>5

\* The writes of a later state of the transfer.
LEMMA RowStateEffect ==
  ASSUME TypeInv, NEW p \in Procs, Received(p) \/ Complete(p)
  PROVE  /\ TypeOK'
         /\ Keeps(p) /\ Others(p) /\ OtherRows(proc[p].t)
         /\ \/ /\ At(p, "received") /\ At(p, "confirm")'
               /\ row'[proc[p].t].state = "received"
               /\ lock' = lock
            \/ /\ At(p, "complete") /\ At(p, "exited")'
               /\ row'[proc[p].t].state = "completed"
               /\ lock' = Released(p)
         /\ row'[proc[p].t].from = row[proc[p].t].from
         /\ row'[proc[p].t].to = row[proc[p].t].to
         /\ row'[proc[p].t].send = row[proc[p].t].send
         /\ row'[proc[p].t].receive = row[proc[p].t].receive
         /\ UNCHANGED <<send, receive, redeemed>>
<1> DEFINE t == proc[p].t
           entry(state) == [row[t] EXCEPT !.state = state]
<1>1. /\ proc \in [Procs -> Process] /\ row \in [Transfers -> Entry]
      /\ lock \in [Wallets -> Procs \cup {None}]
      /\ UNCHANGED <<send, receive, redeemed>>
      /\ \/ At(p, "received") /\ Goto(p, "confirm") /\ Save(t, entry("received")) /\ lock' = lock
         \/ /\ At(p, "complete") /\ Goto(p, "exited") /\ Save(t, entry("completed"))
            /\ lock' = Released(p)
  BY DEF TypeInv, TypeOK, Received, Complete
<1>2. t \in Transfers
  BY <1>1 DEF TypeInv, LocalsOf, At, Entered
<1>3. {"confirm", "exited"} \subseteq Phases
  BY DEF Phases
<1>4. \A pc \in Phases : Goto(p, pc) =>
        proc' \in [Procs -> Process] /\ At(p, pc)' /\ Keeps(p) /\ Others(p)
  BY <1>1, GotoType DEF At
<1>5. \A state \in {"received", "completed"} :
        /\ entry(state) \in Entry /\ entry(state).state = state /\ entry(state).from = row[t].from
        /\ entry(state).to = row[t].to /\ entry(state).send = row[t].send
        /\ entry(state).receive = row[t].receive
  <2>1. row[t] \in Entry
    BY <1>1, <1>2
  <2> QED BY <2>1 DEF Entry
<1> HIDE DEF entry
<1>6. \A state \in {"received", "completed"} : Save(t, entry(state)) =>
        row' \in [Transfers -> Entry] /\ row'[t] = entry(state) /\ OtherRows(t)
  BY <1>1, <1>2, <1>5, SaveType
<1>7. lock' \in [Wallets -> Procs \cup {None}]
  BY <1>1, ReleaseType
<1>8. TypeOK'
  <2>1. row' \in [Transfers -> Entry] /\ proc' \in [Procs -> Process]
    BY <1>1, <1>3, <1>4, <1>6
  <2> QED BY <1>1, <1>7, <2>1 DEF TypeInv, TypeOK
<1> QED BY <1>1, <1>3, <1>4, <1>5, <1>6, <1>8

LEMMA SentEffect ==
  ASSUME TypeInv, NEW p \in Procs, Sent(p)
  PROVE  /\ TypeOK'
         /\ At(p, "sent") /\ Others(p) /\ OtherRows(proc[p].t)
         /\ proc'[p].from = proc[p].from /\ proc'[p].to = proc[p].to /\ proc'[p].t = proc[p].t
         /\ proc'[p].send = proc[p].send
         /\ proc'[p].receive = row[proc[p].t].receive
         /\ \/ row[proc[p].t].receive = None /\ At(p, "receive")'
            \/ row[proc[p].t].receive # None /\ At(p, "redeem")'
         /\ row'[proc[p].t].state = "sent"
         /\ row'[proc[p].t].from = row[proc[p].t].from
         /\ row'[proc[p].t].to = row[proc[p].t].to
         /\ row'[proc[p].t].send = row[proc[p].t].send
         /\ row'[proc[p].t].receive = row[proc[p].t].receive
         /\ UNCHANGED <<lock, send, receive, redeemed>>
<1> DEFINE t == proc[p].t
           entry == [row[t] EXCEPT !.state = "sent"]
           next == IF row[t].receive = None THEN "receive" ELSE "redeem"
           new == [proc[p] EXCEPT !.pc = next, !.receive = row[t].receive]
<1>1. /\ proc[p] \in Process /\ proc \in [Procs -> Process] /\ row \in [Transfers -> Entry]
      /\ At(p, "sent")
      /\ Save(t, entry)
      /\ proc' = [proc EXCEPT ![p].pc = next, ![p].receive = row[t].receive]
      /\ UNCHANGED <<lock, send, receive, redeemed>>
  BY DEF TypeInv, TypeOK, Sent
<1>2. t \in Transfers
  BY <1>1 DEF TypeInv, LocalsOf, At, Entered
<1>3. row[t] \in Entry /\ row[t].receive \in Receives \cup {None}
  BY <1>1, <1>2 DEF Entry
<1>4. Moves(p, new)
  BY <1>1 DEF Moves, Process
<1>5. next \in Phases
  BY DEF Phases
<1>6. /\ new \in Process /\ new.pc = next /\ new.receive = row[t].receive
      /\ new.from = proc[p].from /\ new.to = proc[p].to /\ new.t = t /\ new.send = proc[p].send
  <2> HIDE DEF next
  <2> QED BY <1>1, <1>3, <1>5 DEF Process
<1>7. /\ entry \in Entry /\ entry.state = "sent" /\ entry.from = row[t].from
      /\ entry.to = row[t].to /\ entry.send = row[t].send /\ entry.receive = row[t].receive
  BY <1>3 DEF Entry
<1> HIDE DEF entry, new, next
<1>8. proc' \in [Procs -> Process] /\ proc'[p] = new /\ Others(p)
  BY <1>1, <1>4, <1>6, MovesType
<1>9. row' \in [Transfers -> Entry] /\ row'[t] = entry /\ OtherRows(t)
  BY <1>1, <1>2, <1>7, SaveType
<1>10. TypeOK'
  BY <1>1, <1>8, <1>9 DEF TypeInv, TypeOK
<1> QED BY <1>1, <1>6, <1>7, <1>8, <1>9, <1>10 DEF At, next

LEMMA FindReceiveEffect ==
  ASSUME TypeInv, NEW p \in Procs, FindReceive(p)
  PROVE  /\ TypeOK'
         /\ At(p, "receive") /\ At(p, "saveReceive")' /\ Others(p)
         /\ proc'[p].from = proc[p].from /\ proc'[p].to = proc[p].to /\ proc'[p].t = proc[p].t
         /\ proc'[p].send = proc[p].send
         /\ proc'[p].receive \in Matches(p)
         /\ UNCHANGED <<lock, row, send, receive, redeemed>>
<1>1. PICK r \in Matches(p) : proc' = [proc EXCEPT ![p].pc = "saveReceive", ![p].receive = r]
  BY DEF FindReceive
<1> DEFINE new == [proc[p] EXCEPT !.pc = "saveReceive", !.receive = r]
<1>2. /\ proc[p] \in Process /\ proc \in [Procs -> Process] /\ r \in Receives
      /\ At(p, "receive")
      /\ UNCHANGED <<lock, row, send, receive, redeemed>>
  BY DEF TypeInv, TypeOK, FindReceive, Matches
<1>3. /\ new \in Process /\ new.pc = "saveReceive" /\ new.receive = r /\ new.send = proc[p].send
      /\ new.from = proc[p].from /\ new.to = proc[p].to /\ new.t = proc[p].t
  BY <1>2 DEF Process, Phases
<1>4. Moves(p, new)
  BY <1>1, <1>2 DEF Moves, Process
<1> HIDE DEF new
<1>5. proc' \in [Procs -> Process] /\ proc'[p] = new /\ Others(p)
  BY <1>2, <1>3, <1>4, MovesType
<1>6. TypeOK'
  BY <1>2, <1>5 DEF TypeInv, TypeOK
<1> QED BY <1>2, <1>3, <1>5, <1>6 DEF At

LEMMA PrepareReceiveEffect ==
  ASSUME TypeInv, NEW p \in Procs, PrepareReceive(p)
  PROVE  /\ TypeOK'
         /\ At(p, "receive") /\ At(p, "saveReceive")' /\ Others(p)
         /\ proc'[p].from = proc[p].from /\ proc'[p].to = proc[p].to /\ proc'[p].t = proc[p].t
         /\ proc'[p].send = proc[p].send
         /\ Matches(p) = {}
         /\ proc'[p].receive \in Receives
         /\ receive[proc'[p].receive].state = "none"
         /\ receive'[proc'[p].receive].state = "prepared"
         /\ receive'[proc'[p].receive].wallet = proc[p].to
         /\ receive'[proc'[p].receive].token = proc[p].send
         /\ \A s \in Receives : s # proc'[p].receive => receive'[s] = receive[s]
         /\ UNCHANGED <<lock, row, send, redeemed>>
<1>1. PICK r \in Receives :
        /\ receive[r].state = "none"
        /\ receive' = [receive EXCEPT ![r] = [state |-> "prepared", wallet |-> proc[p].to,
                                              token |-> proc[p].send]]
        /\ proc' = [proc EXCEPT ![p].pc = "saveReceive", ![p].receive = r]
  BY DEF PrepareReceive
<1> DEFINE new == [proc[p] EXCEPT !.pc = "saveReceive", !.receive = r]
           prepared == [state |-> "prepared", wallet |-> proc[p].to, token |-> proc[p].send]
<1>2. /\ proc[p] \in Process /\ proc \in [Procs -> Process]
      /\ receive \in [Receives -> ReceiveOperation]
      /\ At(p, "receive") /\ Matches(p) = {}
      /\ UNCHANGED <<lock, row, send, redeemed>>
  BY DEF TypeInv, TypeOK, PrepareReceive
<1>3. /\ new \in Process /\ new.pc = "saveReceive" /\ new.receive = r /\ new.send = proc[p].send
      /\ new.from = proc[p].from /\ new.to = proc[p].to /\ new.t = proc[p].t
  BY <1>2 DEF Process, Phases
<1>4. Moves(p, new)
  BY <1>1, <1>2 DEF Moves, Process
<1>5. proc[p].send \in Sends /\ proc[p].to \in Wallets
  BY <1>2 DEF TypeInv, LocalsOf, At, Entered, HasSend
<1>6. /\ prepared \in ReceiveOperation /\ prepared.state = "prepared"
      /\ prepared.wallet = proc[p].to /\ prepared.token = proc[p].send
  BY <1>5 DEF ReceiveOperation
<1> HIDE DEF new
<1>7. proc' \in [Procs -> Process] /\ proc'[p] = new /\ Others(p)
  BY <1>2, <1>3, <1>4, MovesType
<1>8. receive' = [receive EXCEPT ![r] = prepared]
  BY <1>1
<1> HIDE DEF prepared
<1>9. /\ receive' \in [Receives -> ReceiveOperation] /\ receive'[r] = prepared
      /\ \A s \in Receives : s # r => receive'[s] = receive[s]
  BY <1>2, <1>6, <1>8
<1>10. TypeOK'
  BY <1>2, <1>7, <1>9 DEF TypeInv, TypeOK
<1> QED BY <1>1, <1>2, <1>3, <1>6, <1>7, <1>9, <1>10 DEF At

LEMMA SaveReceiveEffect ==
  ASSUME TypeInv, NEW p \in Procs, SaveReceive(p)
  PROVE  /\ TypeOK'
         /\ At(p, "saveReceive") /\ At(p, "redeem")' /\ Keeps(p) /\ Others(p)
         /\ OtherRows(proc[p].t)
         /\ row'[proc[p].t].state = row[proc[p].t].state
         /\ row'[proc[p].t].from = row[proc[p].t].from
         /\ row'[proc[p].t].to = row[proc[p].t].to
         /\ row'[proc[p].t].send = row[proc[p].t].send
         /\ row'[proc[p].t].receive = proc[p].receive
         /\ UNCHANGED <<lock, send, receive, redeemed>>
<1> DEFINE t == proc[p].t
           entry == [row[t] EXCEPT !.receive = proc[p].receive]
<1>1. /\ proc \in [Procs -> Process] /\ row \in [Transfers -> Entry] /\ "redeem" \in Phases
      /\ At(p, "saveReceive") /\ Goto(p, "redeem") /\ Save(t, entry)
      /\ UNCHANGED <<lock, send, receive, redeemed>>
  BY DEF TypeInv, TypeOK, SaveReceive, Phases
<1>2. t \in Transfers /\ proc[p].receive \in Receives
  BY <1>1 DEF TypeInv, LocalsOf, At, Entered, HasReceive
<1>3. /\ entry \in Entry /\ entry.state = row[t].state /\ entry.from = row[t].from
      /\ entry.to = row[t].to /\ entry.send = row[t].send /\ entry.receive = proc[p].receive
  <2>1. row[t] \in Entry
    BY <1>1, <1>2
  <2> QED BY <1>2, <2>1 DEF Entry
<1> HIDE DEF entry
<1>4. row' \in [Transfers -> Entry] /\ row'[t] = entry /\ OtherRows(t)
  BY <1>1, <1>2, <1>3, SaveType
<1>5. proc' \in [Procs -> Process] /\ At(p, "redeem")' /\ Keeps(p) /\ Others(p)
  BY <1>1, GotoType DEF At
<1>6. TypeOK'
  BY <1>1, <1>4, <1>5 DEF TypeInv, TypeOK
<1> QED BY <1>1, <1>3, <1>4, <1>5, <1>6

\* The steps that change the state of the receive: it is finished only when the
\* mint redeemed the token for it.
LEMMA ReceiveStepEffect ==
  ASSUME TypeInv, NEW p \in Procs,
         RefreshReceive(p) \/ ExecuteReceive(p) \/ SwapIn(p)
  PROVE  /\ TypeOK'
         /\ Keeps(p) /\ Others(p)
         /\ ReceiveAdvances(proc[p].receive)
         /\ \/ /\ At(p, "redeem") /\ proc'[p].pc \in {"redeem", "failed", "swapIn"}
               /\ \/ receive' = receive
                  \/ receive'[proc[p].receive].state # "finalized"
               /\ redeemed' = redeemed
            \/ /\ At(p, "redeem") /\ proc'[p].pc = "received"
               /\ redeemed[proc[p].send] = proc[p].receive
               /\ redeemed' = redeemed
            \/ /\ At(p, "swapIn") /\ proc'[p].pc \in {"received", "failed"}
               /\ redeemed[proc[p].send] = None
               /\ redeemed' = [redeemed EXCEPT ![proc[p].send] = proc[p].receive]
         /\ UNCHANGED <<lock, row, send>>
<1> DEFINE r == proc[p].receive
           x == proc[p].send
<1>1. /\ proc \in [Procs -> Process] /\ receive \in [Receives -> ReceiveOperation]
      /\ redeemed \in [Sends -> Receives \cup {None}]
      /\ UNCHANGED <<lock, row, send>>
  BY DEF TypeInv, TypeOK, RefreshReceive, ExecuteReceive, SwapIn
<1>2. r \in Receives /\ x \in Sends
  <2>1. proc[p].pc \in {"redeem", "swapIn"}
    BY DEF RefreshReceive, ExecuteReceive, SwapIn, Receiving, At
  <2> QED BY <2>1 DEF TypeInv, LocalsOf, HasReceive, HasSend
<1>3. receive' = receive => ReceiveAdvances(r)
  BY <1>1 DEF ReceiveAdvances
<1>4. \A pc \in Phases : Goto(p, pc) =>
        proc' \in [Procs -> Process] /\ proc'[p].pc = pc /\ Keeps(p) /\ Others(p)
  BY <1>1, GotoType
<1>5. \A state \in {"prepared", "executing", "finalized"} :
        receive' = [receive EXCEPT ![r].state = state] =>
          ReceiveAdvances(r) /\ receive'[r].state = state
  BY <1>1, <1>2, ReceiveStateType
<1>6. {"redeem", "swapIn", "received", "failed"} \subseteq Phases
  BY DEF Phases
<1>7. proc' = proc => Keeps(p) /\ Others(p)
  BY DEF Keeps, Others
<1>8. ASSUME proc' \in [Procs -> Process], ReceiveAdvances(r),
             redeemed' \in [Sends -> Receives \cup {None}]
      PROVE  TypeOK'
  BY <1>1, <1>8 DEF TypeInv, TypeOK, ReceiveAdvances
<1>9. CASE RefreshReceive(p)
  <2>1. /\ At(p, "redeem") /\ redeemed' = redeemed
        /\ \/ /\ redeemed[x] = r
              /\ receive' = [receive EXCEPT ![r].state = "finalized"]
              /\ Goto(p, "received")
           \/ receive' = [receive EXCEPT ![r].state = "prepared"] /\ proc' = proc
           \/ receive' = receive /\ Goto(p, "failed")
    BY <1>9 DEF RefreshReceive, Receiving
  <2>2. ReceiveAdvances(r)
    BY <2>1, <1>3, <1>5
  <2> HIDE DEF r, x
  <2>3. /\ proc' \in [Procs -> Process] /\ Keeps(p) /\ Others(p)
        /\ \/ /\ proc'[p].pc \in {"redeem", "failed", "swapIn"}
              /\ receive' = receive \/ receive'[r].state # "finalized"
           \/ proc'[p].pc = "received" /\ redeemed[x] = r
    BY <2>1, <1>1, <1>4, <1>5, <1>6, <1>7 DEF At
  <2>4. TypeOK'
    BY <2>1, <2>2, <2>3, <1>1, <1>8
  <2> QED BY <1>1, <2>1, <2>2, <2>3, <2>4 DEF r, x
<1>10. CASE ExecuteReceive(p)
  <2>1. /\ At(p, "redeem") /\ redeemed' = redeemed
        /\ receive' = [receive EXCEPT ![r].state = "executing"]
        /\ Goto(p, "swapIn")
    BY <1>10 DEF ExecuteReceive, Receiving
  <2>2. ReceiveAdvances(r) /\ receive'[r].state = "executing"
    BY <2>1, <1>5
  <2> HIDE DEF r, x
  <2>3. proc' \in [Procs -> Process] /\ Keeps(p) /\ Others(p) /\ proc'[p].pc = "swapIn"
    BY <2>1, <1>4, <1>6
  <2>4. TypeOK'
    BY <2>1, <2>2, <2>3, <1>1, <1>8
  <2> QED BY <1>1, <2>1, <2>2, <2>3, <2>4 DEF r, x
<1>11. CASE SwapIn(p)
  <2>1. /\ At(p, "swapIn") /\ redeemed[x] = None
        /\ redeemed' = [redeemed EXCEPT ![x] = r]
        /\ \/ receive' = [receive EXCEPT ![r].state = "finalized"] /\ Goto(p, "received")
           \/ receive' = receive /\ Goto(p, "failed")
    BY <1>11 DEF SwapIn
  <2>2. ReceiveAdvances(r)
    BY <2>1, <1>3, <1>5
  <2>3. redeemed' \in [Sends -> Receives \cup {None}]
    BY <2>1, <1>1, <1>2
  <2> HIDE DEF r, x
  <2>4. proc' \in [Procs -> Process] /\ Keeps(p) /\ Others(p) /\ proc'[p].pc \in {"received", "failed"}
    BY <2>1, <1>4, <1>6
  <2>5. TypeOK'
    BY <2>2, <2>3, <2>4, <1>1, <1>8
  <2> QED BY <1>1, <2>1, <2>2, <2>4, <2>5 DEF r, x
<1> QED BY <1>9, <1>10, <1>11

LEMMA InitType == Init => TypeInv
BY TransferAssumption
   DEF Init, TypeInv, TypeOK, LocalsOf, Idle, NoRow, Entered, HasSend, HasReceive,
       Process, Phases, Entry, SendOperation, ReceiveOperation

LEMMA StepType == TypeInv /\ [Next]_vars => TypeInv'
<1> SUFFICES ASSUME TypeInv, [Next]_vars PROVE TypeInv'
  OBVIOUS
<1>1. CASE UNCHANGED vars
  BY <1>1 DEF vars, TypeInv, TypeOK, LocalsOf
<1>2. ASSUME NEW p \in Procs, TypeOK', Others(p), LocalsOf(p)' PROVE TypeInv'
  BY <1>2 DEF TypeInv, Others, LocalsOf
<1>3. ASSUME NEW p \in Procs PROVE LocalsOf(p)
  BY DEF TypeInv
<1>4. proc \in [Procs -> Process] /\ row \in [Transfers -> Entry]
  BY DEF TypeInv, TypeOK
<1> USE DEF LocalsOf, At, Entered, HasSend, HasReceive
<1>5. ASSUME NEW p \in Procs, OpenSource(p) PROVE TypeInv'
  BY <1>2, <1>3, <1>5, OpenSourceEffect
<1>6. ASSUME NEW p \in Procs, OpenRecipient(p) PROVE TypeInv'
  BY <1>2, <1>3, <1>6, OpenRecipientEffect
<1>7. ASSUME NEW p \in Procs, Fail(p) \/ Die(p) \/ RemoveLock(p) PROVE TypeInv'
  BY <1>2, <1>7, LockStepEffect
<1>8. ASSUME NEW p \in Procs, Unlock(p) PROVE TypeInv'
  BY <1>2, <1>8, UnlockEffect
<1>9. ASSUME NEW p \in Procs, Journal(p) PROVE TypeInv'
  <2>1. proc[p].t \in Transfers /\ row[proc[p].t].send \in Sends \cup {None}
    BY <1>3, <1>4, <1>9, JournalEffect DEF Entry
  <2> QED BY <1>2, <1>3, <1>9, <2>1, JournalEffect
<1>10. ASSUME NEW p \in Procs, FindSend(p) PROVE TypeInv'
  BY <1>2, <1>3, <1>10, FindSendEffect DEF Candidates, Mine
<1>11. ASSUME NEW p \in Procs, PrepareSend(p) PROVE TypeInv'
  BY <1>2, <1>3, <1>11, PrepareSendEffect
<1>12. ASSUME NEW p \in Procs, SaveSend(p) PROVE TypeInv'
  BY <1>2, <1>3, <1>12, SaveSendEffect DEF Keeps
<1>13. ASSUME NEW p \in Procs, ExecuteSend(p) \/ Swap(p) \/ RefreshSend(p) \/ Confirm(p)
       PROVE TypeInv'
  BY <1>2, <1>3, <1>13, SendStepEffect DEF Keeps
<1>14. ASSUME NEW p \in Procs, AlreadySent(p) \/ AlreadyReceived(p) PROVE TypeInv'
  BY <1>2, <1>3, <1>14, AlreadyEffect DEF Keeps
<1>15. ASSUME NEW p \in Procs, Sent(p) PROVE TypeInv'
  <2>1. proc[p].t \in Transfers /\ row[proc[p].t].receive \in Receives \cup {None}
    BY <1>3, <1>4, <1>15, SentEffect DEF Entry
  <2> QED BY <1>2, <1>3, <1>15, <2>1, SentEffect
<1>16. ASSUME NEW p \in Procs, FindReceive(p) PROVE TypeInv'
  BY <1>2, <1>3, <1>16, FindReceiveEffect DEF Matches
<1>17. ASSUME NEW p \in Procs, PrepareReceive(p) PROVE TypeInv'
  BY <1>2, <1>3, <1>17, PrepareReceiveEffect
<1>18. ASSUME NEW p \in Procs, SaveReceive(p) PROVE TypeInv'
  BY <1>2, <1>3, <1>18, SaveReceiveEffect DEF Keeps
<1>19. ASSUME NEW p \in Procs, RefreshReceive(p) \/ ExecuteReceive(p) \/ SwapIn(p) PROVE TypeInv'
  BY <1>2, <1>3, <1>19, ReceiveStepEffect DEF Keeps
<1>20. ASSUME NEW p \in Procs, Received(p) \/ Complete(p) PROVE TypeInv'
  BY <1>2, <1>3, <1>20, RowStateEffect DEF Keeps
<1> QED BY <1>1, <1>5, <1>6, <1>7, <1>8, <1>9, <1>10, <1>11, <1>12, <1>13, <1>14, <1>15, <1>16,
           <1>17, <1>18, <1>19, <1>20 DEF Next

\* Every record of the journal, the library and a command is one the code can
\* have written, and a command has the locals its position needs.
THEOREM TypeCorrect == Spec => []TypeOK
<1>1. TypeInv => TypeOK
  BY DEF TypeInv
<1> QED BY InitType, StepType, <1>1, PTL DEF Spec

-----------------------------------------------------------------------------
(* The locks, while operators remove them one at a time *)

\* A running command holds the locks of its wallets; whoever removes a lock has
\* seen a dead command's name in it, and it is still that one's.
LockInv ==
  /\ \A p \in Procs : \A w \in Uses(p) : lock[w] = p
  /\ \A p \in Procs : At(p, "unlock") =>
       lock[proc[p].from] \in Procs /\ At(lock[proc[p].from], "dead")
  /\ \A p, q \in Procs : At(p, "unlock") /\ At(q, "unlock") => p = q

LEMMA LockExclusive == LockInv => WalletExclusive
BY DEF LockInv, WalletExclusive, Uses

\* which wallets a command uses is a matter of its phase, from and to
LEMMA UsesStays ==
  ASSUME NEW p \in Procs, proc'[p].from = proc[p].from, proc'[p].to = proc[p].to,
         Running(p)' => Running(p)
  PROVE  Uses(p)' \subseteq Uses(p)
BY DEF Uses

\* Most steps leave the locks alone and the command running where it was.
LEMMA LocksStay ==
  ASSUME LockInv, NEW p \in Procs, lock' = lock, Others(p),
         proc'[p].from = proc[p].from, proc'[p].to = proc[p].to,
         Running(p), proc'[p].pc # "unlock"
  PROVE  LockInv'
<1>1. Uses(p)' \subseteq Uses(p)
  BY UsesStays
<1>2. \A q \in Procs : q # p => Uses(q)' = Uses(q) /\ (At(q, "unlock")' <=> At(q, "unlock"))
  BY DEF Others, Uses, Running, At
<1>3. ~At(p, "unlock")' /\ ~At(p, "dead")
  BY DEF At, Running
<1>4. \A q \in Procs : At(q, "dead") => At(q, "dead")'
  BY <1>3 DEF Others, At
<1>5. \A q \in Procs : \A w \in Uses(q)' : lock'[w] = q
  BY <1>1, <1>2 DEF LockInv
<1>6. ASSUME NEW q \in Procs, At(q, "unlock")'
      PROVE  lock'[proc'[q].from] \in Procs /\ At(lock[proc[q].from], "dead")'
  <2>1. q # p /\ At(q, "unlock") /\ proc'[q] = proc[q]
    BY <1>2, <1>3, <1>6 DEF Others
  <2>2. lock[proc[q].from] \in Procs /\ At(lock[proc[q].from], "dead")
    BY <2>1 DEF LockInv
  <2> QED BY <1>4, <2>1, <2>2 DEF At
<1>7. \A q, u \in Procs : At(q, "unlock")' /\ At(u, "unlock")' => q = u
  BY <1>2, <1>3 DEF LockInv
<1> QED BY <1>5, <1>6, <1>7 DEF LockInv

\* A free wallet is locked by p, which goes on with it.
LEMMA LockTaken ==
  ASSUME LockInv, TypeInv, NEW p \in Procs, NEW w \in Wallets, Others(p),
         lock[w] = None, lock' = [lock EXCEPT ![w] = p],
         proc'[p].pc \notin {"unlock", "dead"}, proc[p].pc \notin {"unlock", "dead"},
         Uses(p)' \subseteq Uses(p) \cup {w}
  PROVE  LockInv'
<1>1. lock \in [Wallets -> Procs \cup {None}]
  BY DEF TypeInv, TypeOK
<1>2. \A q \in Procs : q # p => Uses(q)' = Uses(q) /\ (At(q, "unlock")' <=> At(q, "unlock"))
  BY DEF Others, Uses, Running, At
<1>3. \A q \in Procs : At(q, "dead") => At(q, "dead")'
  BY DEF Others, At
<1>4. \A q \in Procs : \A v \in Uses(q)' : lock'[v] = q
  <2>1. \A q \in Procs : \A v \in Uses(q) : v \in Wallets /\ lock[v] = q
    BY DEF LockInv, Uses
  <2>2. \A q \in Procs : q # None
    BY TransferAssumption
  <2> QED BY <1>1, <1>2, <2>1, <2>2
<1>5. ASSUME NEW q \in Procs, At(q, "unlock")'
      PROVE  lock'[proc'[q].from] \in Procs /\ At(lock[proc[q].from], "dead")'
  <2>1. q # p /\ At(q, "unlock") /\ proc'[q] = proc[q]
    BY <1>2, <1>5 DEF Others, At
  <2>2. lock[proc[q].from] \in Procs /\ At(lock[proc[q].from], "dead")
    BY <2>1 DEF LockInv
  <2>3. proc[q].from # w
    BY <2>2, TransferAssumption
  <2>4. proc[q].from \in Wallets
    BY <2>1 DEF TypeInv, LocalsOf, At
  <2>5. lock'[proc'[q].from] = lock[proc[q].from] /\ proc'[q].from = proc[q].from
    BY <1>1, <2>1, <2>3, <2>4
  <2> QED BY <1>3, <2>2, <2>5 DEF At
<1>6. \A q, u \in Procs : At(q, "unlock")' /\ At(u, "unlock")' => q = u
  BY <1>2 DEF LockInv, At
<1> QED BY <1>4, <1>5, <1>6 DEF LockInv

\* p goes and takes its locks with it.
LEMMA LockReleased ==
  ASSUME LockInv, TypeInv, NEW p \in Procs, Others(p), Running(p), At(p, "exited")',
         lock' = Released(p)
  PROVE  LockInv'
<1>1. \A w \in Wallets : lock'[w] = IF w \in Uses(p) THEN None ELSE lock[w]
  BY DEF Released
<1>2. Uses(p)' = {} /\ ~At(p, "unlock")' /\ ~At(p, "dead")
  BY DEF Uses, Running, At
<1>3. \A q \in Procs : q # p => Uses(q)' = Uses(q) /\ (At(q, "unlock")' <=> At(q, "unlock"))
  BY DEF Others, Uses, Running, At
<1>4. \A q \in Procs : At(q, "dead") => At(q, "dead")'
  BY <1>2 DEF Others, At
<1>5. \A q \in Procs : \A w \in Uses(q) : w \in Wallets /\ lock[w] = q
  BY DEF LockInv, Uses
<1>6. \A q \in Procs : \A w \in Uses(q)' : lock'[w] = q
  BY <1>1, <1>2, <1>3, <1>5
<1>7. ASSUME NEW q \in Procs, At(q, "unlock")'
      PROVE  lock'[proc'[q].from] \in Procs /\ At(lock[proc[q].from], "dead")'
  <2>1. q # p /\ At(q, "unlock") /\ proc'[q] = proc[q]
    BY <1>2, <1>3, <1>7 DEF Others
  <2>2. lock[proc[q].from] \in Procs /\ At(lock[proc[q].from], "dead")
    BY <2>1 DEF LockInv
  <2>3. proc[q].from \in Wallets
    BY <2>1 DEF TypeInv, LocalsOf, At
  <2>4. proc[q].from \notin Uses(p)
    BY <1>2, <1>5, <2>2
  <2>5. lock'[proc'[q].from] = lock[proc[q].from] /\ proc'[q].from = proc[q].from
    BY <1>1, <2>1, <2>3, <2>4
  <2> QED BY <1>4, <2>2, <2>5 DEF At
<1>8. \A q, u \in Procs : At(q, "unlock")' /\ At(u, "unlock")' => q = u
  BY <1>2, <1>3 DEF LockInv
<1> QED BY <1>6, <1>7, <1>8 DEF LockInv

\* A dead command's lock is removed: nobody else is about to remove one.
LEMMA LockRemoved ==
  ASSUME LockInv, TypeInv, NEW p \in Procs, RemoveLock(p)
  PROVE  LockInv'
<1>1. /\ At(p, "unlock") /\ At(p, "exited")' /\ Others(p)
      /\ lock' = [lock EXCEPT ![proc[p].from] = None]
  BY LockStepEffect DEF RemoveLock
<1>2. lock \in [Wallets -> Procs \cup {None}] /\ proc[p].from \in Wallets
  BY <1>1 DEF TypeInv, TypeOK, LocalsOf, At
<1>3. lock[proc[p].from] \in Procs /\ At(lock[proc[p].from], "dead")
  BY <1>1 DEF LockInv
<1>4. Uses(p)' = {} /\ ~At(p, "unlock")'
  BY <1>1 DEF Uses, Running, At
<1>5. \A q \in Procs : q # p => Uses(q)' = Uses(q) /\ ~At(q, "unlock")'
  <2>1. \A q \in Procs : q # p => ~At(q, "unlock")
    BY <1>1 DEF LockInv
  <2> QED BY <1>1, <2>1 DEF Others, Uses, Running, At
<1>6. \A q \in Procs : \A w \in Uses(q) : lock[w] = q /\ w # proc[p].from /\ w \in Wallets
  <2>1. \A q \in Procs : \A w \in Uses(q) : w \in Wallets /\ lock[w] = q /\ ~At(q, "dead")
    BY DEF LockInv, Uses, Running, At
  <2> QED BY <1>3, <2>1
<1>7. \A q \in Procs : \A w \in Uses(q)' : lock'[w] = q
  BY <1>1, <1>2, <1>4, <1>5, <1>6
<1>8. \A q \in Procs : ~At(q, "unlock")'
  BY <1>4, <1>5
<1> QED BY <1>7, <1>8 DEF LockInv

LEMMA UnlockBegins ==
  ASSUME LockInv, TypeInv, NEW p \in Procs, Unlock(p), "unlocks" \notin Env
  PROVE  LockInv'
<1>1. /\ At(p, "new") /\ At(p, "unlock")' /\ Others(p) /\ lock' = lock
      /\ proc'[p].from \in Wallets
      /\ lock[proc'[p].from] # None /\ At(lock[proc'[p].from], "dead")
      /\ \A q \in Procs : ~At(q, "unlock")
  BY UnlockEffect
<1>2. lock[proc'[p].from] \in Procs
  BY <1>1 DEF TypeInv, TypeOK
<1>3. Uses(p)' = {} /\ \A q \in Procs : q # p => Uses(q)' = Uses(q) /\ ~At(q, "unlock")'
  BY <1>1 DEF Others, Uses, Running, At
<1>4. \A q \in Procs : At(q, "dead") => At(q, "dead")'
  BY <1>1 DEF Others, At
<1>5. \A q \in Procs : \A w \in Uses(q)' : lock'[w] = q
  BY <1>1, <1>3 DEF LockInv
<1>6. lock'[proc'[p].from] \in Procs /\ At(lock[proc[p].from], "dead")'
  BY <1>1, <1>2, <1>4 DEF At
<1>7. \A q \in Procs : At(q, "unlock")' => q = p
  BY <1>3
<1>8. \A q \in Procs : At(q, "unlock")' =>
        lock'[proc'[q].from] \in Procs /\ At(lock[proc[q].from], "dead")'
  BY <1>6, <1>7
<1> QED BY <1>5, <1>7, <1>8 DEF LockInv

LEMMA StepLocks ==
  ASSUME "unlocks" \notin Env
  PROVE  TypeInv /\ LockInv /\ [Next]_vars => LockInv'
<1> SUFFICES ASSUME TypeInv, LockInv, [Next]_vars PROVE LockInv'
  OBVIOUS
<1>1. CASE UNCHANGED vars
  BY <1>1 DEF vars, LockInv, Uses, Running, At
<1>2. ASSUME NEW p \in Procs, OpenSource(p) PROVE LockInv'
  <2>1. /\ At(p, "new") /\ At(p, "opened")' /\ Others(p) /\ proc'[p].from \in Wallets
        /\ proc'[p].to = None /\ lock[proc'[p].from] = None
        /\ lock' = [lock EXCEPT ![proc'[p].from] = p]
    BY <1>2, OpenSourceEffect
  <2>2. Uses(p)' \subseteq {proc'[p].from}
    BY <2>1, TransferAssumption DEF Uses
  <2> QED BY <2>1, <2>2, LockTaken DEF At
<1>3. ASSUME NEW p \in Procs, OpenRecipient(p) PROVE LockInv'
  <2>1. /\ At(p, "opened") /\ At(p, "journal")' /\ Others(p) /\ proc'[p].from = proc[p].from
        /\ proc'[p].to \in Wallets /\ lock[proc'[p].to] = None
        /\ lock' = [lock EXCEPT ![proc'[p].to] = p]
    BY <1>3, OpenRecipientEffect
  <2>2. Uses(p)' \subseteq Uses(p) \cup {proc'[p].to}
    BY <2>1 DEF Uses, Running, At
  <2> QED BY <2>1, <2>2, LockTaken DEF At
<1>4. ASSUME NEW p \in Procs, Fail(p) PROVE LockInv'
  <2>1. Others(p) /\ At(p, "exited")' /\ lock' = Released(p) /\ Running(p)
    BY <1>4, LockStepEffect DEF Fail
  <2> QED BY <2>1, LockReleased
<1>5. ASSUME NEW p \in Procs, Die(p) PROVE LockInv'
  <2>1. Others(p) /\ At(p, "dead")' /\ lock' = lock /\ Running(p) /\ Keeps(p)
    BY <1>5, LockStepEffect DEF Die
  <2> QED BY <2>1, LocksStay DEF At, Keeps
<1>6. ASSUME NEW p \in Procs, RemoveLock(p) PROVE LockInv'
  BY <1>6, LockRemoved
<1>7. ASSUME NEW p \in Procs, Unlock(p) PROVE LockInv'
  BY <1>7, UnlockBegins
<1>8. ASSUME NEW p \in Procs, proc[p].pc \in Entered, lock' = lock, Others(p),
             proc'[p].pc \in Entered,
             proc'[p].from = proc[p].from, proc'[p].to = proc[p].to
      PROVE  LockInv'
  <2>1. Running(p) /\ proc'[p].pc # "unlock"
    BY <1>8 DEF Entered, Running
  <2> QED BY <1>8, <2>1, LocksStay
<1> USE DEF At, Entered, Keeps
<1>9. ASSUME NEW p \in Procs, Journal(p) PROVE LockInv'
  BY <1>8, <1>9, JournalEffect
<1>10. ASSUME NEW p \in Procs, FindSend(p) \/ PrepareSend(p) \/ SaveSend(p) PROVE LockInv'
  BY <1>8, <1>10, FindSendEffect, PrepareSendEffect, SaveSendEffect
<1>11. ASSUME NEW p \in Procs, ExecuteSend(p) \/ Swap(p) \/ RefreshSend(p) \/ Confirm(p)
       PROVE LockInv'
  BY <1>8, <1>11, SendStepEffect
<1>12. ASSUME NEW p \in Procs, AlreadySent(p) \/ AlreadyReceived(p) PROVE LockInv'
  BY <1>8, <1>12, AlreadyEffect
<1>13. ASSUME NEW p \in Procs, Sent(p) PROVE LockInv'
  BY <1>8, <1>13, SentEffect
<1>14. ASSUME NEW p \in Procs, FindReceive(p) \/ PrepareReceive(p) \/ SaveReceive(p) PROVE LockInv'
  BY <1>8, <1>14, FindReceiveEffect, PrepareReceiveEffect, SaveReceiveEffect
<1>15. ASSUME NEW p \in Procs, RefreshReceive(p) \/ ExecuteReceive(p) \/ SwapIn(p) PROVE LockInv'
  BY <1>8, <1>15, ReceiveStepEffect
<1>16. ASSUME NEW p \in Procs, Received(p) \/ Complete(p) PROVE LockInv'
  <2>1. CASE At(p, "received") /\ At(p, "confirm")' /\ lock' = lock
    BY <1>8, <1>16, <2>1, RowStateEffect
  <2>2. CASE At(p, "complete") /\ At(p, "exited")' /\ lock' = Released(p)
    BY <1>16, <2>2, RowStateEffect, LockReleased DEF Running
  <2> QED BY <1>16, <2>1, <2>2, RowStateEffect
<1> QED BY <1>1, <1>2, <1>3, <1>4, <1>5, <1>6, <1>7, <1>9, <1>10, <1>11, <1>12, <1>13, <1>14,
           <1>15, <1>16 DEF Next

LEMMA InitLocks == Init => LockInv
BY DEF Init, LockInv, Idle, Uses, Running, At

\* Two commands never work in one wallet, as long as operators remove the locks
\* of dead commands one at a time (acquireWalletLock, unlockWallet).
THEOREM Exclusive ==
  ASSUME "unlocks" \notin Env
  PROVE  Spec => []WalletExclusive
<1>1. TypeInv /\ LockInv /\ [Next]_vars => TypeInv' /\ LockInv'
  BY StepType, StepLocks
<1> QED BY InitType, InitLocks, <1>1, LockExclusive, PTL DEF Spec

-----------------------------------------------------------------------------
(* The journal, the library and the mint *)

Unsent(t) == row[t].state # "none" /\ row[t].send = None

\* What a journal entry knows.  Until the send is journalled, the operations
\* its wallet has gained since the entry was written are the transfer's own.
EntryOK(t) ==
  /\ row[t].state = "none" =>
       row[t].from = None /\ row[t].to = None /\ row[t].send = None /\ row[t].receive = None
  /\ Unsent(t) =>
       /\ row[t].receive = None
       /\ \A x \in Sends :
            /\ x \in row[t].previous => send[x].state # "none" /\ send[x].cause # t
            /\ x \notin row[t].previous /\ send[x].wallet = row[t].from => send[x].cause = t
  /\ row[t].send # None => send[row[t].send].cause = t
  /\ row[t].receive # None => /\ row[t].send # None
                              /\ receive[row[t].receive].token = row[t].send
                              /\ receive[row[t].receive].wallet = row[t].to
  /\ row[t].state = "completed" => /\ row[t].send # None
                                   /\ row[t].receive # None
                                   /\ redeemed[row[t].send] = row[t].receive

\* A wallet has one transfer whose send may still have to be found.
OneUnsent == \A t, u \in Transfers :
  Unsent(t) /\ Unsent(u) /\ row[t].from = row[u].from => t = u

SendOK(x) ==
  /\ send[x].state = "none" => send[x].wallet = None /\ send[x].cause = None /\ ~send[x].swapped
  /\ send[x].state # "none" => /\ send[x].cause \in Transfers
                               /\ row[send[x].cause].state # "none"
                               /\ row[send[x].cause].from = send[x].wallet
  /\ send[x].swapped => row[send[x].cause].send = x

OneSend == \A x, y \in Sends : send[x].cause # None /\ send[x].cause = send[y].cause => x = y

ReceiveOK(r) ==
  /\ receive[r].state = "none" => receive[r].token = None
  /\ receive[r].state # "none" => /\ receive[r].token \in Sends
                                  /\ send[receive[r].token].cause \in Transfers
                                  /\ row[send[receive[r].token].cause].to = receive[r].wallet
  /\ receive[r].state = "finalized" => redeemed[receive[r].token] = r

OneReceive == \A r, s \in Receives :
  receive[r].token # None /\ receive[r].token = receive[s].token => r = s

\* What a command knows where it stands.
WorkerOK(p) ==
  /\ proc[p].pc \in Entered =>
       \/ /\ row[proc[p].t].state = "none"
          /\ At(p, "journal")
          /\ \A u \in Transfers : row[u].from = proc[p].from => row[u].send # None
       \/ /\ row[proc[p].t].state # "none"
          /\ row[proc[p].t].from = proc[p].from
          /\ row[proc[p].t].to = proc[p].to
  /\ proc[p].pc \in {"send", "saveSend"} => row[proc[p].t].send = None
  /\ At(p, "saveSend") => send[proc[p].send].cause = proc[p].t
  /\ proc[p].pc \in HasSend \ {"saveSend"} => row[proc[p].t].send = proc[p].send
  /\ At(p, "saveReceive") => /\ receive[proc[p].receive].token = proc[p].send
                             /\ receive[proc[p].receive].wallet = proc[p].to
  /\ proc[p].pc \in HasReceive \ {"saveReceive"} => row[proc[p].t].receive = proc[p].receive
  /\ proc[p].pc \in {"received", "confirm", "complete"} =>
       redeemed[proc[p].send] = proc[p].receive

OneWorker == \A p, q \in Procs :
  Running(p) /\ Running(q) /\ proc[p].t # None /\ proc[p].t = proc[q].t => p = q

Entries == OneUnsent /\ \A t \in Transfers : EntryOK(t)
Operations == /\ OneSend /\ \A x \in Sends : SendOK(x)
              /\ OneReceive /\ \A r \in Receives : ReceiveOK(r)
Workers == OneWorker /\ \A p \in Procs : WorkerOK(p)

TransferInv == Entries /\ Operations /\ Workers

\* Operations and redemptions are never taken back.
OperationsGrow ==
  /\ \A x \in Sends : send[x].state # "none" =>
       send'[x].wallet = send[x].wallet /\ send'[x].cause = send[x].cause
  /\ \A r \in Receives : receive[r].state # "none" =>
       receive'[r].wallet = receive[r].wallet /\ receive'[r].token = receive[r].token
  /\ \A x \in Sends : redeemed[x] # None => redeemed'[x] = redeemed[x]

\* The tables that a step leaves alone.
NoData == UNCHANGED <<row, send, receive, redeemed>>

LEMMA NoDataKeeps ==
  ASSUME NoData
  PROVE  /\ Entries => Entries'
         /\ Operations => Operations'
         /\ OperationsGrow
BY DEF NoData, Entries, OneUnsent, EntryOK, Unsent, Operations, OneSend, SendOK, OneReceive,
       ReceiveOK, OperationsGrow

\* A command that goes on in its transfer does not disturb the others.
LEMMA OtherWorkers ==
  ASSUME TypeInv, LockInv, TransferInv, NEW p \in Procs, Others(p), OperationsGrow,
         proc[p].pc \in Entered, OtherRows(proc[p].t),
         \/ row'[proc[p].t].from = proc[p].from
         \/ row'[proc[p].t] = row[proc[p].t],
         proc'[p].t = proc[p].t,
         WorkerOK(p)'
  PROVE  Workers'
<1>1. \A q \in Procs : Running(q)' => Running(q)
  BY DEF Others, Running, Entered
<1>2. \A q \in Procs : proc'[q].t = proc[q].t
  BY DEF Others
<1>3. OneWorker'
  BY <1>1, <1>2 DEF TransferInv, Workers, OneWorker
<1>4. ASSUME NEW q \in Procs, q # p PROVE WorkerOK(q)'
  <2>1. proc'[q] = proc[q] /\ WorkerOK(q) /\ LocalsOf(q) /\ LocalsOf(p)
    BY <1>4 DEF Others, TransferInv, Workers, TypeInv
  <2>2. proc[p].t \in Transfers /\ proc[p].from \in Wallets /\ Running(p)
    BY <2>1 DEF LocalsOf, Entered, Running
  <2>3. ASSUME proc[q].pc \in Entered
        PROVE  /\ proc[q].t \in Transfers /\ row'[proc[q].t] = row[proc[q].t]
               /\ proc[q].from # proc[p].from
    <3>1. proc[q].t \in Transfers /\ proc[q].from \in Wallets /\ Running(q)
      BY <2>1, <2>3 DEF LocalsOf, Entered, Running
    <3>2. proc[q].t # proc[p].t
      BY <1>4, <2>2, <3>1, TransferAssumption DEF TransferInv, Workers, OneWorker
    <3>3. proc[q].from # proc[p].from
      BY <1>4, <2>2, <3>1, LockExclusive DEF WalletExclusive, Uses
    <3> QED BY <3>1, <3>2, <3>3 DEF OtherRows
  <2>4. HasSend \subseteq Entered /\ HasReceive \subseteq HasSend /\ {"send", "saveSend"} \subseteq Entered
    BY DEF HasSend, HasReceive, Entered
  <2>5. ASSUME proc[q].pc \in Entered, row[proc[q].t].state = "none"
        PROVE  \A u \in Transfers : row'[u].from = proc[q].from => row'[u].send # None
    <3>1. \A u \in Transfers : row[u].from = proc[q].from => row[u].send # None
      BY <2>1, <2>5 DEF WorkerOK
    <3>2. \A u \in Transfers : row'[u] = row[u] \/ row'[u].from = proc[p].from
      BY DEF OtherRows
    <3> QED BY <2>3, <2>5, <3>1, <3>2
  <2>6. At(q, "saveSend") => send'[proc[q].send].cause = proc[q].t
    <3> SUFFICES ASSUME At(q, "saveSend") PROVE send'[proc[q].send].cause = proc[q].t
      OBVIOUS
    <3>1. proc[q].send \in Sends /\ proc[q].t \in Transfers /\ send[proc[q].send].cause = proc[q].t
      BY <2>1 DEF At, WorkerOK, LocalsOf, HasSend, Entered
    <3>2. send[proc[q].send].state # "none"
      BY <3>1, TransferAssumption DEF TransferInv, Operations, SendOK
    <3> QED BY <3>1, <3>2 DEF OperationsGrow
  <2>7. At(q, "saveReceive") => /\ receive'[proc[q].receive].token = proc[q].send
                                /\ receive'[proc[q].receive].wallet = proc[q].to
    <3> SUFFICES ASSUME At(q, "saveReceive")
                 PROVE  /\ receive'[proc[q].receive].token = proc[q].send
                        /\ receive'[proc[q].receive].wallet = proc[q].to
      OBVIOUS
    <3>1. /\ proc[q].send \in Sends /\ proc[q].receive \in Receives
          /\ receive[proc[q].receive].token = proc[q].send
          /\ receive[proc[q].receive].wallet = proc[q].to
      BY <2>1 DEF At, WorkerOK, LocalsOf, HasSend, HasReceive
    <3>2. receive[proc[q].receive].state # "none"
      BY <3>1, TransferAssumption DEF TransferInv, Operations, ReceiveOK
    <3> QED BY <3>1, <3>2 DEF OperationsGrow
  <2>8. proc[q].pc \in {"received", "confirm", "complete"} => redeemed'[proc[q].send] = proc[q].receive
    <3> SUFFICES ASSUME proc[q].pc \in {"received", "confirm", "complete"}
                 PROVE  redeemed'[proc[q].send] = proc[q].receive
      OBVIOUS
    <3>1. proc[q].send \in Sends /\ proc[q].receive \in Receives /\ redeemed[proc[q].send] = proc[q].receive
      BY <2>1 DEF WorkerOK, LocalsOf, HasSend, HasReceive
    <3> QED BY <3>1, TransferAssumption DEF OperationsGrow
  <2> QED BY <2>1, <2>3, <2>4, <2>5, <2>6, <2>7, <2>8 DEF WorkerOK, At
<1> QED BY <1>3, <1>4 DEF Workers

\* A command that comes to its end, or is not yet in a transfer, knows nothing.
LEMMA WorkersLeave ==
  ASSUME TransferInv, NEW p \in Procs, Others(p), NoData,
         proc'[p].pc \notin Entered, Running(p)' => proc'[p].t = None
  PROVE  Workers'
<1>1. OneWorker'
  BY DEF TransferInv, Workers, OneWorker, Others, Running
<1>2. \A q \in Procs : q # p => WorkerOK(q)'
  BY DEF TransferInv, Workers, Others, NoData, WorkerOK, At
<1>3. WorkerOK(p)'
  BY DEF WorkerOK, Entered, HasSend, HasReceive, At
<1> QED BY <1>1, <1>2, <1>3 DEF Workers

-----------------------------------------------------------------------------
(* How the journal and the operations change together *)

\* What a command knows of its transfer once that is journalled.
LEMMA InTransfer ==
  ASSUME TypeInv, TransferInv, NEW p \in Procs, proc[p].pc \in Entered \ {"journal"}
  PROVE  /\ proc[p].t \in Transfers /\ proc[p].from \in Wallets /\ proc[p].to \in Wallets
         /\ row[proc[p].t].state # "none"
         /\ row[proc[p].t].from = proc[p].from
         /\ row[proc[p].t].to = proc[p].to
         /\ WorkerOK(p) /\ LocalsOf(p) /\ EntryOK(proc[p].t)
<1>1. WorkerOK(p) /\ LocalsOf(p) /\ proc[p].t \in Transfers
  BY DEF TypeInv, LocalsOf, TransferInv, Workers
<1> QED BY <1>1 DEF WorkerOK, LocalsOf, TransferInv, Entries, At

\* ... and of its send once the id of that is journalled.
LEMMA KnowsSend ==
  ASSUME TypeInv, TransferInv, NEW p \in Procs, proc[p].pc \in HasSend \ {"saveSend"}
  PROVE  /\ proc[p].send \in Sends
         /\ row[proc[p].t].send = proc[p].send
         /\ send[proc[p].send].cause = proc[p].t
         /\ send[proc[p].send].state # "none"
         /\ proc[p].pc \in Entered \ {"journal"}
<1>1. proc[p].pc \in Entered \ {"journal"}
  BY DEF HasSend, Entered
<1>2. proc[p].send \in Sends /\ row[proc[p].t].send = proc[p].send
  BY <1>1, InTransfer DEF WorkerOK, LocalsOf
<1>3. send[proc[p].send].cause = proc[p].t /\ proc[p].t \in Transfers
  BY <1>1, <1>2, InTransfer, TransferAssumption DEF EntryOK
<1>4. SendOK(proc[p].send)
  BY <1>2 DEF TransferInv, Operations
<1> QED BY <1>1, <1>2, <1>3, <1>4, TransferAssumption DEF SendOK

\* ... and of its receive.
LEMMA KnowsReceive ==
  ASSUME TypeInv, TransferInv, NEW p \in Procs, proc[p].pc \in HasReceive \ {"saveReceive"}
  PROVE  /\ proc[p].receive \in Receives
         /\ row[proc[p].t].receive = proc[p].receive
         /\ receive[proc[p].receive].token = proc[p].send
         /\ receive[proc[p].receive].wallet = proc[p].to
         /\ receive[proc[p].receive].state # "none"
         /\ proc[p].pc \in HasSend \ {"saveSend"}
<1>1. proc[p].pc \in HasSend \ {"saveSend"}
  BY DEF HasReceive, HasSend
<1>2. proc[p].pc \in Entered \ {"journal"} /\ proc[p].send \in Sends
      /\ row[proc[p].t].send = proc[p].send
  BY <1>1, KnowsSend
<1>3. proc[p].receive \in Receives /\ row[proc[p].t].receive = proc[p].receive
  BY <1>2, InTransfer DEF WorkerOK, LocalsOf
<1>4. /\ receive[proc[p].receive].token = proc[p].send
      /\ receive[proc[p].receive].wallet = proc[p].to
  BY <1>2, <1>3, InTransfer, TransferAssumption DEF EntryOK
<1>5. ReceiveOK(proc[p].receive)
  BY <1>3 DEF TransferInv, Operations
<1> QED BY <1>1, <1>2, <1>3, <1>4, <1>5, TransferAssumption DEF ReceiveOK

\* A later state of a journalled transfer disturbs nothing that is already known.
LEMMA RowAdvances ==
  ASSUME TransferInv, NEW t \in Transfers, OtherRows(t),
         row[t].state # "none", row'[t].state # "none",
         row'[t].from = row[t].from, row'[t].to = row[t].to,
         row'[t].send \in Sends, row[t].send \in {None, row'[t].send},
         UNCHANGED <<send, receive, redeemed>>,
         EntryOK(t)'
  PROVE  Entries' /\ Operations' /\ OperationsGrow
<1>1. OperationsGrow
  BY DEF OperationsGrow
<1>2. ~Unsent(t)'
  BY TransferAssumption DEF Unsent
<1>3. \A u \in Transfers : Unsent(u)' => Unsent(u) /\ row'[u] = row[u]
  BY <1>2 DEF Unsent, OtherRows
<1>4. OneUnsent'
  BY <1>3 DEF TransferInv, Entries, OneUnsent
<1>5. ASSUME NEW u \in Transfers, u # t PROVE EntryOK(u)'
  <2>1. row'[u] = row[u] /\ EntryOK(u)
    BY <1>5 DEF OtherRows, TransferInv, Entries
  <2> QED BY <2>1 DEF EntryOK, Unsent
<1>6. \A u \in Transfers : /\ row'[u].from = row[u].from
                           /\ row'[u].to = row[u].to
                           /\ row[u].state # "none" => row'[u].state # "none"
                           /\ row[u].send # None => row'[u].send = row[u].send
  BY DEF OtherRows
<1>7. ASSUME NEW x \in Sends PROVE SendOK(x)'
  <2>1. SendOK(x)
    BY DEF TransferInv, Operations
  <2> QED BY <1>6, <2>1, TransferAssumption DEF SendOK
<1>8. ASSUME NEW r \in Receives PROVE ReceiveOK(r)'
  <2>1. ReceiveOK(r)
    BY DEF TransferInv, Operations
  <2> QED BY <1>6, <2>1 DEF ReceiveOK
<1>9. OneSend' /\ OneReceive'
  BY DEF TransferInv, Operations, OneSend, OneReceive
<1> QED BY <1>1, <1>4, <1>5, <1>7, <1>8, <1>9 DEF Entries, Operations

\* The library goes on with a send whose id is journalled.
LEMMA SendMoves ==
  ASSUME TypeInv, TransferInv, NEW x \in Sends, NEW t \in Transfers,
         SendAdvances(x), row[t].send = x, send[x].cause = t, send[x].state # "none",
         UNCHANGED <<row, receive, redeemed>>
  PROVE  Entries' /\ Operations' /\ OperationsGrow
<1>1. \A y \in Sends : /\ send'[y].wallet = send[y].wallet
                       /\ send'[y].cause = send[y].cause
                       /\ send'[y].state = "none" <=> send[y].state = "none"
  BY DEF SendAdvances
<1>2. OperationsGrow
  BY <1>1 DEF OperationsGrow
<1>3. ASSUME NEW u \in Transfers PROVE EntryOK(u)'
  <2>1. EntryOK(u)
    BY DEF TransferInv, Entries
  <2>2. row[u].send \in Sends \cup {None}
    BY DEF TypeInv, TypeOK, Entry
  <2> QED BY <1>1, <2>1, <2>2 DEF EntryOK, Unsent
<1>4. OneUnsent'
  BY DEF TransferInv, Entries, OneUnsent, Unsent
<1>5. ASSUME NEW y \in Sends PROVE SendOK(y)'
  <2>1. SendOK(y)
    BY DEF TransferInv, Operations
  <2>2. y # x => send'[y] = send[y]
    BY DEF SendAdvances
  <2> QED BY <1>1, <2>1, <2>2 DEF SendOK
<1>6. ASSUME NEW r \in Receives PROVE ReceiveOK(r)'
  <2>1. ReceiveOK(r)
    BY DEF TransferInv, Operations
  <2> QED BY <1>1, <2>1 DEF ReceiveOK
<1>7. OneSend' /\ OneReceive'
  BY <1>1 DEF TransferInv, Operations, OneSend, OneReceive
<1> QED BY <1>2, <1>3, <1>4, <1>5, <1>6, <1>7 DEF Entries, Operations

\* The library goes on with a receive whose id is journalled; the mint may
\* redeem its token for it.
LEMMA ReceiveMoves ==
  ASSUME TypeInv, TransferInv, NEW r \in Receives, NEW x \in Sends,
         ReceiveAdvances(r), receive[r].token = x, receive[r].state # "none",
         UNCHANGED <<row, send>>,
         \A y \in Sends : redeemed[y] # None => redeemed'[y] = redeemed[y],
         receive'[r] = receive[r] \/ receive'[r].state # "finalized" \/ redeemed'[x] = r
  PROVE  Entries' /\ Operations' /\ OperationsGrow
<1>1. \A s \in Receives : /\ receive'[s].wallet = receive[s].wallet
                          /\ receive'[s].token = receive[s].token
                          /\ receive'[s].state = "none" <=> receive[s].state = "none"
  BY DEF ReceiveAdvances
<1>2. OperationsGrow
  BY <1>1 DEF OperationsGrow
<1>3. ASSUME NEW u \in Transfers PROVE EntryOK(u)'
  <2>1. EntryOK(u)
    BY DEF TransferInv, Entries
  <2>2. row[u].send \in Sends \cup {None} /\ row[u].receive \in Receives \cup {None}
    BY DEF TypeInv, TypeOK, Entry
  <2> QED BY <1>1, <2>1, <2>2 DEF EntryOK, Unsent
<1>4. OneUnsent'
  BY DEF TransferInv, Entries, OneUnsent, Unsent
<1>5. \A y \in Sends : SendOK(y)'
  BY DEF TransferInv, Operations, SendOK
<1>6. ASSUME NEW s \in Receives PROVE ReceiveOK(s)'
  <2>1. ReceiveOK(s)
    BY DEF TransferInv, Operations
  <2>2. s # r => receive'[s] = receive[s]
    BY DEF ReceiveAdvances
  <2>3. receive[s].state = "finalized" => redeemed'[receive[s].token] = s
    BY <2>1, TransferAssumption DEF ReceiveOK
  <2>4. receive'[s].state = "finalized" => redeemed'[receive'[s].token] = s
    BY <1>1, <2>2, <2>3
  <2> QED BY <1>1, <2>1, <2>4 DEF ReceiveOK
<1>7. OneSend' /\ OneReceive'
  BY <1>1 DEF TransferInv, Operations, OneSend, OneReceive
<1> QED BY <1>2, <1>3, <1>4, <1>5, <1>6, <1>7 DEF Entries, Operations

-----------------------------------------------------------------------------
(* Every step of a command *)

LEMMA StepLeave ==
  ASSUME TypeInv, TransferInv, NEW p \in Procs,
         OpenSource(p) \/ Fail(p) \/ Die(p) \/ Unlock(p) \/ RemoveLock(p)
  PROVE  TransferInv'
<1>1. Others(p) /\ NoData /\ proc'[p].pc \notin Entered /\ (Running(p)' => proc'[p].t = None)
  <2>1. CASE OpenSource(p)
    BY <2>1, OpenSourceEffect DEF NoData, Entered, At
  <2>2. CASE Fail(p) \/ Die(p) \/ RemoveLock(p)
    BY <2>2, LockStepEffect DEF NoData, Entered, At, Running
  <2>3. CASE Unlock(p)
    BY <2>3, UnlockEffect DEF NoData, Entered, At, Running
  <2> QED BY <2>1, <2>2, <2>3
<1> QED BY <1>1, NoDataKeeps, WorkersLeave DEF TransferInv

\* A transfer that is begun has a wallet without another unresolved one; one that
\* is resumed has no other command, which would use the same source wallet.
LEMMA StepOpenRecipient ==
  ASSUME TypeInv, LockInv, TransferInv, NEW p \in Procs, OpenRecipient(p), "unrelated" \notin Env
  PROVE  TransferInv'
<1>1. /\ At(p, "opened") /\ At(p, "journal")' /\ Others(p)
      /\ proc'[p].from = proc[p].from
      /\ proc'[p].t \in Transfers
      /\ \/ /\ row[proc'[p].t].state = "none"
            /\ \A q \in Procs : Running(q) => proc[q].t # proc'[p].t
            /\ ~Unresolved(proc[p].from)
         \/ row[proc'[p].t].from = proc[p].from /\ row[proc'[p].t].to = proc'[p].to
      /\ NoData
  BY OpenRecipientEffect DEF NoData
<1> DEFINE t == proc'[p].t
<1>2. proc[p].from \in Wallets /\ Running(p)
  BY <1>1 DEF TypeInv, LocalsOf, At, Running
<1>3. EntryOK(t)
  BY <1>1 DEF TransferInv, Entries
<1>4. \/ /\ row[t].state = "none"
         /\ \A q \in Procs : Running(q) => proc[q].t # t
         /\ \A u \in Transfers : row[u].from = proc[p].from => row[u].send # None
      \/ /\ row[t].state # "none"
         /\ row[t].from = proc[p].from /\ row[t].to = proc'[p].to
  <2>1. ~Unresolved(proc[p].from) =>
          \A u \in Transfers : row[u].from = proc[p].from => row[u].send # None
    BY DEF Unresolved, TransferInv, Entries, EntryOK
  <2>2. row[t].from = proc[p].from => row[t].state # "none"
    BY <1>2, <1>3, TransferAssumption DEF EntryOK
  <2> QED BY <1>1, <2>1, <2>2
<1>5. ASSUME NEW q \in Procs, q # p, Running(q) PROVE proc[q].t # t
  <2> SUFFICES ASSUME proc[q].t = t PROVE FALSE
    OBVIOUS
  <2>1. row[t].state # "none" /\ row[t].from = proc[p].from
    BY <1>4, <1>5
  <2>2. proc[q].pc \in Entered
    <3>1. proc[q].pc \in Phases /\ LocalsOf(q)
      BY DEF TypeInv, TypeOK, Process
    <3>2. proc[q].t # None
      BY <1>1, TransferAssumption
    <3> QED BY <1>5, <3>1, <3>2 DEF LocalsOf, Running, Phases, Entered
  <2>3. proc[q].from = proc[p].from
    BY <2>1, <2>2 DEF TransferInv, Workers, WorkerOK
  <2> QED BY <1>2, <1>5, <2>3, LockExclusive DEF WalletExclusive, Uses
<1>6. OneWorker'
  <2>1. \A q \in Procs : q # p => proc'[q] = proc[q] /\ (Running(q)' <=> Running(q))
    BY <1>1 DEF Others, Running
  <2> QED BY <1>5, <2>1 DEF TransferInv, Workers, OneWorker
<1>7. \A q \in Procs : q # p => WorkerOK(q)'
  <2> SUFFICES ASSUME NEW q \in Procs, q # p PROVE WorkerOK(q)'
    OBVIOUS
  <2>1. proc'[q] = proc[q] /\ UNCHANGED <<row, send, receive, redeemed>>
    BY <1>1 DEF Others, NoData
  <2>2. WorkerOK(q)  BY DEF TransferInv, Workers
  <2> QED BY <2>1, <2>2 DEF WorkerOK, At
<1>8. WorkerOK(p)'
  BY <1>1, <1>4 DEF WorkerOK, NoData, At, HasSend, HasReceive
<1> QED BY <1>1, <1>6, <1>7, <1>8, NoDataKeeps DEF TransferInv, Workers

\* An operation that is found again is the transfer's own.
LEMMA StepFind ==
  ASSUME TypeInv, LockInv, TransferInv, NEW p \in Procs,
         FindSend(p) \/ AlreadySent(p) \/ FindReceive(p) \/ AlreadyReceived(p)
  PROVE  TransferInv'
<1>1. Others(p) /\ NoData /\ proc[p].pc \in Entered \ {"journal"} /\ proc'[p].t = proc[p].t
      /\ proc'[p].from = proc[p].from /\ proc'[p].to = proc[p].to
  <2>1. CASE FindSend(p)
    BY <2>1, FindSendEffect DEF NoData, Entered, At
  <2>2. CASE AlreadySent(p) \/ AlreadyReceived(p)
    BY <2>2, AlreadyEffect DEF NoData, Entered, At, Keeps
  <2>3. CASE FindReceive(p)
    BY <2>3, FindReceiveEffect DEF NoData, Entered, At
  <2> QED BY <2>1, <2>2, <2>3
<1>2. /\ row[proc[p].t].state # "none"
      /\ row[proc[p].t].from = proc[p].from
      /\ row[proc[p].t].to = proc[p].to
      /\ WorkerOK(p) /\ EntryOK(proc[p].t)
  BY <1>1, InTransfer
<1>3. OtherRows(proc[p].t) /\ row'[proc[p].t] = row[proc[p].t] /\ OperationsGrow
  BY <1>1, NoDataKeeps DEF NoData, OtherRows
<1>4. WorkerOK(p)'
  <2>1. CASE FindSend(p)
    <3>1. /\ At(p, "send") /\ At(p, "saveSend")' /\ proc'[p].send \in Candidates(p)
      BY <2>1, FindSendEffect
    <3>2. row[proc[p].t].send = None
      BY <1>2, <3>1 DEF WorkerOK, At
    <3>3. send[proc'[p].send].cause = proc[p].t
      BY <1>2, <3>1, <3>2 DEF EntryOK, Unsent, Candidates, Mine
    <3> QED BY <1>1, <1>2, <3>1, <3>2, <3>3 DEF WorkerOK, At, NoData, HasReceive, HasSend
  <2>2. CASE AlreadySent(p) \/ AlreadyReceived(p)
    <3>1. Keeps(p)
      BY <2>2, AlreadyEffect
    <3>2. CASE At(p, "execute") /\ At(p, "sent")'
      BY <1>1, <1>2, <3>1, <3>2 DEF WorkerOK, At, NoData, Keeps, HasReceive, HasSend
    <3>3. CASE At(p, "redeem") /\ At(p, "received")'
               /\ receive[proc[p].receive].state = "finalized"
      <4>1. proc[p].pc \in HasReceive \ {"saveReceive"}
        BY <3>3 DEF At, HasReceive
      <4>2. receive[proc[p].receive].token = proc[p].send /\ proc[p].receive \in Receives
        BY <4>1, KnowsReceive
      <4>3. redeemed[proc[p].send] = proc[p].receive
        BY <3>3, <4>2 DEF TransferInv, Operations, ReceiveOK
      <4> QED BY <1>1, <1>2, <3>1, <3>3, <4>3 DEF WorkerOK, At, NoData, Keeps, HasReceive, HasSend
    <3> QED BY <2>2, <3>2, <3>3, AlreadyEffect
  <2>3. CASE FindReceive(p)
    <3>1. /\ At(p, "receive") /\ At(p, "saveReceive")' /\ proc'[p].receive \in Matches(p)
          /\ proc'[p].send = proc[p].send
      BY <2>3, FindReceiveEffect
    <3> QED BY <1>1, <1>2, <3>1 DEF WorkerOK, At, NoData, HasReceive, HasSend, Matches
  <2> QED BY <2>1, <2>2, <2>3
<1>5. Workers'
  BY <1>1, <1>3, <1>4, OtherWorkers
<1> QED BY <1>1, <1>5, NoDataKeeps DEF TransferInv

\* The entry is written before the send is prepared; what the wallet has until
\* then is not the transfer's.
LEMMA StepJournal ==
  ASSUME TypeInv, LockInv, TransferInv, NEW p \in Procs, Journal(p)
  PROVE  TransferInv'
<1> DEFINE t == proc[p].t
<1>1. /\ At(p, "journal") /\ Others(p) /\ OtherRows(t)
      /\ proc'[p].from = proc[p].from /\ proc'[p].to = proc[p].to /\ proc'[p].t = t
      /\ proc'[p].send = row[t].send
      /\ \/ row[t].send = None /\ At(p, "send")'
         \/ row[t].send # None /\ At(p, "execute")'
      /\ \/ /\ row[t].state = "none"
            /\ row'[t].state = "preparing"
            /\ row'[t].from = proc[p].from
            /\ row'[t].to = proc[p].to
            /\ row'[t].send = None
            /\ row'[t].receive = None
            /\ row'[t].previous = Mine(proc[p].from)
         \/ row[t].state # "none" /\ row' = row
      /\ UNCHANGED <<send, receive, redeemed>>
  BY JournalEffect
<1>2. WorkerOK(p) /\ t \in Transfers /\ proc[p].from \in Wallets /\ EntryOK(t)
      /\ proc[p].pc \in Entered
  BY <1>1 DEF TypeInv, LocalsOf, At, Entered, TransferInv, Workers, Entries
<1>3. OperationsGrow
  BY <1>1 DEF OperationsGrow
<1>4. CASE row[t].state # "none" /\ row' = row
  <2>1. NoData
    BY <1>1, <1>4 DEF NoData
  <2>2. row[t].from = proc[p].from /\ row[t].to = proc[p].to
    BY <1>2, <1>4 DEF WorkerOK, At
  <2>3. WorkerOK(p)'
    BY <1>1, <1>4, <2>2 DEF WorkerOK, At, HasSend, HasReceive
  <2>4. Workers'
    BY <1>1, <1>2, <1>3, <1>4, <2>3, OtherWorkers
  <2> QED BY <2>1, <2>4, NoDataKeeps DEF TransferInv
<1>5. CASE row[t].state = "none"
  <2>1. /\ row'[t].state = "preparing" /\ row'[t].from = proc[p].from /\ row'[t].to = proc[p].to
        /\ row'[t].send = None /\ row'[t].receive = None
        /\ row'[t].previous = Mine(proc[p].from)
        /\ row[t].send = None /\ row[t].receive = None
    BY <1>1, <1>2, <1>5 DEF EntryOK
  <2>2. \A u \in Transfers : row[u].from = proc[p].from => row[u].send # None
    BY <1>2, <1>5 DEF WorkerOK
  <2>3. \A u \in Transfers : u # t => row'[u] = row[u]
    BY <1>1 DEF OtherRows
  <2>4. OneUnsent'
    <3> SUFFICES ASSUME NEW u \in Transfers, NEW v \in Transfers,
                        Unsent(u)', Unsent(v)', row'[u].from = row'[v].from, u # v
                 PROVE  FALSE
      BY DEF OneUnsent
    <3>1. CASE u # t /\ v # t
      BY <2>3, <3>1 DEF TransferInv, Entries, OneUnsent, Unsent
    <3>2. CASE u = t
      BY <2>1, <2>2, <2>3, <3>2 DEF Unsent
    <3>3. CASE v = t
      BY <2>1, <2>2, <2>3, <3>3 DEF Unsent
    <3> QED BY <3>1, <3>2, <3>3
  <2>5. \A x \in Sends : send[x].state # "none" => /\ send[x].cause \in Transfers
                                                   /\ send[x].cause # t
    BY <1>5 DEF TransferInv, Operations, SendOK
  <2>6. EntryOK(t)'
    <3>1. ASSUME NEW x \in Sends
          PROVE  /\ x \in Mine(proc[p].from) => send[x].state # "none" /\ send[x].cause # t
                 /\ x \notin Mine(proc[p].from) => send[x].wallet # proc[p].from
      <4>1. SendOK(x)
        BY DEF TransferInv, Operations
      <4>2. x \in Mine(proc[p].from) <=> send[x].wallet = proc[p].from
        BY DEF Mine
      <4> QED BY <1>2, <2>5, <4>1, <4>2, TransferAssumption DEF SendOK
    <3> QED BY <1>1, <2>1, <3>1 DEF EntryOK, Unsent
  <2>7. ASSUME NEW u \in Transfers, u # t PROVE EntryOK(u)'
    <3>1. EntryOK(u) /\ row'[u] = row[u]
      BY <2>3, <2>7 DEF TransferInv, Entries
    <3> QED BY <1>1, <3>1 DEF EntryOK, Unsent
  <2>8. ASSUME NEW x \in Sends PROVE SendOK(x)'
    <3>1. SendOK(x)
      BY DEF TransferInv, Operations
    <3> QED BY <1>1, <2>3, <2>5, <3>1 DEF SendOK
  <2>9. ASSUME NEW r \in Receives PROVE ReceiveOK(r)'
    <3>1. ReceiveOK(r)
      BY DEF TransferInv, Operations
    <3>2. ASSUME receive[r].state # "none"
          PROVE  row'[send[receive[r].token].cause] = row[send[receive[r].token].cause]
      <4>1. receive[r].token \in Sends /\ send[receive[r].token].cause \in Transfers
        BY <3>1, <3>2 DEF ReceiveOK
      <4>2. SendOK(receive[r].token)
        BY <4>1 DEF TransferInv, Operations
      <4> QED BY <2>3, <2>5, <4>1, <4>2, TransferAssumption DEF SendOK
    <3> QED BY <1>1, <3>1, <3>2 DEF ReceiveOK
  <2>10. OneSend' /\ OneReceive'
    BY <1>1 DEF TransferInv, Operations, OneSend, OneReceive
  <2>11. WorkerOK(p)'
    BY <1>1, <2>1 DEF WorkerOK, At, HasSend, HasReceive
  <2>12. Workers'
    BY <1>1, <1>2, <1>3, <2>1, <2>11, OtherWorkers
  <2>13. Entries'
    BY <1>1, <2>4, <2>6, <2>7 DEF Entries
  <2>14. Operations'
    BY <2>8, <2>9, <2>10 DEF Operations
  <2> QED BY <2>12, <2>13, <2>14 DEF TransferInv
<1> QED BY <1>1, <1>4, <1>5

\* A new send is the only one of its transfer: there was no candidate, and what
\* was not a candidate is not the transfer's.
LEMMA StepPrepareSend ==
  ASSUME TypeInv, LockInv, TransferInv, NEW p \in Procs, PrepareSend(p)
  PROVE  TransferInv'
<1> DEFINE t == proc[p].t
           x == proc'[p].send
<1>1. /\ At(p, "send") /\ At(p, "saveSend")' /\ Others(p)
      /\ proc'[p].from = proc[p].from /\ proc'[p].to = proc[p].to /\ proc'[p].t = t
      /\ Candidates(p) = {}
      /\ x \in Sends
      /\ send[x].state = "none"
      /\ send'[x].state = "prepared"
      /\ send'[x].wallet = proc[p].from
      /\ send'[x].cause = t
      /\ send'[x].swapped = send[x].swapped
      /\ \A y \in Sends : y # x => send'[y] = send[y]
      /\ UNCHANGED <<row, receive, redeemed>>
  BY PrepareSendEffect
<1>2. /\ proc[p].pc \in Entered /\ t \in Transfers /\ proc[p].from \in Wallets
      /\ row[t].state # "none" /\ row[t].from = proc[p].from /\ row[t].to = proc[p].to
      /\ WorkerOK(p) /\ EntryOK(t)
  BY <1>1, InTransfer DEF At, Entered
<1>3. Unsent(t)
  BY <1>1, <1>2 DEF WorkerOK, At, Unsent
<1>4. send[x].cause = None /\ ~send[x].swapped
  BY <1>1 DEF TransferInv, Operations, SendOK
<1> HIDE DEF x, t
<1>5. OperationsGrow
  <2>1. \A y \in Sends : send[y].state # "none" => send'[y] = send[y]
    BY <1>1
  <2> QED BY <1>1, <2>1 DEF OperationsGrow
<1>6. OneUnsent'
  BY <1>1 DEF TransferInv, Entries, OneUnsent, Unsent
<1>7. ASSUME NEW u \in Transfers PROVE EntryOK(u)'
  <2>1. EntryOK(u) /\ row[u].send \in Sends \cup {None} /\ row'[u] = row[u]
    BY <1>1 DEF TransferInv, Entries, TypeInv, TypeOK, Entry
  <2>2. row[u].send # None => row[u].send # x
    BY <1>4, <2>1, TransferAssumption DEF EntryOK
  <2>3. Unsent(u) /\ row[u].from = proc[p].from => u = t
    BY <1>2, <1>3 DEF TransferInv, Entries, OneUnsent
  <2>4. ASSUME Unsent(u), NEW y \in Sends
        PROVE  /\ y \in row[u].previous => send'[y].state # "none" /\ send'[y].cause # u
               /\ y \notin row[u].previous /\ send'[y].wallet = row[u].from => send'[y].cause = u
    <3>1. CASE y = x
      BY <1>1, <2>1, <2>3, <2>4, <3>1 DEF EntryOK
    <3>2. CASE y # x
      BY <1>1, <2>1, <2>4, <3>2 DEF EntryOK
    <3> QED BY <3>1, <3>2
  <2>5. row[u].send # None => send'[row[u].send].cause = u
    BY <1>1, <2>1, <2>2 DEF EntryOK
  <2> QED BY <1>1, <2>1, <2>4, <2>5 DEF EntryOK, Unsent
<1>8. ASSUME NEW y \in Sends, y # x, send[y].cause = t PROVE FALSE
  <2>1. SendOK(y)
    BY DEF TransferInv, Operations
  <2>2. send[y].state # "none" /\ send[y].wallet = proc[p].from
    BY <1>2, <1>8, <2>1, TransferAssumption DEF SendOK
  <2>3. y \in row[t].previous
    BY <1>1, <2>2 DEF Candidates, Mine, t
  <2> QED BY <1>2, <1>3, <1>8, <2>3 DEF EntryOK
<1>9. OneSend'
  <2> SUFFICES ASSUME NEW y \in Sends, NEW z \in Sends,
                      send'[y].cause # None, send'[y].cause = send'[z].cause, y # z
               PROVE  FALSE
    BY DEF OneSend
  <2>1. CASE y = x
    BY <1>1, <1>8, <2>1
  <2>2. CASE z = x
    BY <1>1, <1>8, <2>2
  <2>3. CASE y # x /\ z # x
    BY <1>1, <2>3 DEF TransferInv, Operations, OneSend
  <2> QED BY <2>1, <2>2, <2>3
<1>10. ASSUME NEW y \in Sends PROVE SendOK(y)'
  <2>1. SendOK(y)
    BY DEF TransferInv, Operations
  <2>2. CASE y = x
    BY <1>1, <1>2, <1>4, <2>2 DEF SendOK
  <2>3. CASE y # x
    BY <1>1, <2>1, <2>3 DEF SendOK
  <2> QED BY <2>2, <2>3
<1>11. ASSUME NEW r \in Receives PROVE ReceiveOK(r)'
  <2>1. ReceiveOK(r)
    BY DEF TransferInv, Operations
  <2>2. receive[r].state # "none" => receive[r].token # x
    BY <1>4, <2>1, TransferAssumption DEF ReceiveOK
  <2> QED BY <1>1, <2>1, <2>2 DEF ReceiveOK
<1>12. OneReceive'
  BY <1>1 DEF TransferInv, Operations, OneReceive
<1>13. WorkerOK(p)'
  BY <1>1, <1>2, <1>3 DEF WorkerOK, Unsent, At, HasSend, HasReceive, x, t
<1>14. OtherRows(t)
  BY <1>1 DEF OtherRows
<1>15. Workers'
  BY <1>1, <1>2, <1>5, <1>13, <1>14, OtherWorkers DEF t
<1>16. Entries'
  BY <1>6, <1>7 DEF Entries
<1>17. Operations'
  BY <1>9, <1>10, <1>11, <1>12 DEF Operations
<1> QED BY <1>15, <1>16, <1>17 DEF TransferInv

\* A new receive is the only one of its token: no earlier one matched.
LEMMA StepPrepareReceive ==
  ASSUME TypeInv, LockInv, TransferInv, NEW p \in Procs, PrepareReceive(p)
  PROVE  TransferInv'
<1> DEFINE t == proc[p].t
           r == proc'[p].receive
<1>1. /\ At(p, "receive") /\ At(p, "saveReceive")' /\ Others(p)
      /\ proc'[p].from = proc[p].from /\ proc'[p].to = proc[p].to /\ proc'[p].t = t
      /\ proc'[p].send = proc[p].send
      /\ Matches(p) = {}
      /\ r \in Receives
      /\ receive[r].state = "none"
      /\ receive'[r].state = "prepared"
      /\ receive'[r].wallet = proc[p].to
      /\ receive'[r].token = proc[p].send
      /\ \A s \in Receives : s # r => receive'[s] = receive[s]
      /\ UNCHANGED <<row, send, redeemed>>
  BY PrepareReceiveEffect
<1>2. /\ proc[p].pc \in Entered /\ t \in Transfers
      /\ row[t].state # "none" /\ row[t].from = proc[p].from /\ row[t].to = proc[p].to
      /\ WorkerOK(p)
  BY <1>1, InTransfer DEF At, Entered
<1>3. proc[p].send \in Sends /\ row[t].send = proc[p].send /\ send[proc[p].send].cause = t
  BY <1>1, KnowsSend DEF At, HasSend
<1>4. receive[r].token = None
  BY <1>1 DEF TransferInv, Operations, ReceiveOK
<1> HIDE DEF r, t
<1>5. OperationsGrow
  <2>1. \A s \in Receives : receive[s].state # "none" => receive'[s] = receive[s]
    BY <1>1
  <2> QED BY <1>1, <2>1 DEF OperationsGrow
<1>6. OneUnsent'
  BY <1>1 DEF TransferInv, Entries, OneUnsent, Unsent
<1>7. ASSUME NEW u \in Transfers PROVE EntryOK(u)'
  <2>1. /\ EntryOK(u) /\ row'[u] = row[u]
        /\ row[u].send \in Sends \cup {None} /\ row[u].receive \in Receives \cup {None}
    BY <1>1 DEF TransferInv, Entries, TypeInv, TypeOK, Entry
  <2>2. row[u].receive # None => row[u].receive # r
    BY <1>4, <2>1, TransferAssumption DEF EntryOK
  <2> QED BY <1>1, <2>1, <2>2 DEF EntryOK, Unsent
<1>8. ASSUME NEW s \in Receives, s # r, receive[s].token = proc[p].send PROVE FALSE
  <2>1. ReceiveOK(s)
    BY DEF TransferInv, Operations
  <2>2. receive[s].wallet = proc[p].to
    BY <1>2, <1>3, <1>8, <2>1, TransferAssumption DEF ReceiveOK
  <2> QED BY <1>1, <1>8, <2>2 DEF Matches
<1>9. OneReceive'
  <2> SUFFICES ASSUME NEW y \in Receives, NEW z \in Receives,
                      receive'[y].token # None, receive'[y].token = receive'[z].token, y # z
               PROVE  FALSE
    BY DEF OneReceive
  <2>1. CASE y = r
    BY <1>1, <1>8, <2>1
  <2>2. CASE z = r
    BY <1>1, <1>8, <2>2
  <2>3. CASE y # r /\ z # r
    BY <1>1, <2>3 DEF TransferInv, Operations, OneReceive
  <2> QED BY <2>1, <2>2, <2>3
<1>10. ASSUME NEW s \in Receives PROVE ReceiveOK(s)'
  <2>1. ReceiveOK(s)
    BY DEF TransferInv, Operations
  <2>2. CASE s = r
    BY <1>1, <1>2, <1>3, <2>2 DEF ReceiveOK
  <2>3. CASE s # r
    BY <1>1, <2>1, <2>3 DEF ReceiveOK
  <2> QED BY <2>2, <2>3
<1>11. OneSend' /\ \A y \in Sends : SendOK(y)'
  BY <1>1 DEF TransferInv, Operations, OneSend, SendOK
<1>12. WorkerOK(p)'
  BY <1>1, <1>2, <1>3 DEF WorkerOK, At, HasSend, HasReceive, r, t
<1>13. OtherRows(t)
  BY <1>1 DEF OtherRows
<1>14. Workers'
  BY <1>1, <1>2, <1>5, <1>12, <1>13, OtherWorkers DEF t
<1>15. Entries'
  BY <1>6, <1>7 DEF Entries
<1>16. Operations'
  BY <1>9, <1>10, <1>11 DEF Operations
<1> QED BY <1>14, <1>15, <1>16 DEF TransferInv

\* The send is journalled, then the later states: each entry stays in step with
\* the operations.
LEMMA StepRow ==
  ASSUME TypeInv, LockInv, TransferInv, NEW p \in Procs,
         SaveSend(p) \/ Sent(p) \/ SaveReceive(p) \/ Received(p) \/ Complete(p)
  PROVE  TransferInv'
<1> DEFINE t == proc[p].t
<1>1. /\ Others(p) /\ OtherRows(t) /\ proc[p].pc \in HasSend
      /\ proc'[p].from = proc[p].from /\ proc'[p].to = proc[p].to /\ proc'[p].t = t
      /\ proc'[p].send = proc[p].send
      /\ row'[t].from = row[t].from /\ row'[t].to = row[t].to
      /\ row'[t].send \in {row[t].send, proc[p].send}
      /\ UNCHANGED <<send, receive, redeemed>>
  <2>1. CASE SaveSend(p)
    BY <2>1, SaveSendEffect DEF HasSend, At, Keeps
  <2>2. CASE Sent(p)
    BY <2>2, SentEffect DEF HasSend, At
  <2>3. CASE SaveReceive(p)
    BY <2>3, SaveReceiveEffect DEF HasSend, At, Keeps
  <2>4. CASE Received(p) \/ Complete(p)
    BY <2>4, RowStateEffect DEF HasSend, At, Keeps
  <2> QED BY <2>1, <2>2, <2>3, <2>4
<1>2. /\ proc[p].pc \in Entered /\ t \in Transfers /\ proc[p].send \in Sends
      /\ row[t].state # "none" /\ row[t].from = proc[p].from /\ row[t].to = proc[p].to
      /\ WorkerOK(p) /\ EntryOK(t)
  BY <1>1, InTransfer DEF HasSend, Entered, LocalsOf
<1>3. send[proc[p].send].cause = t
  <2>1. CASE At(p, "saveSend")
    BY <1>2, <2>1 DEF WorkerOK
  <2>2. CASE ~At(p, "saveSend")
    BY <1>1, <2>2, KnowsSend DEF At
  <2> QED BY <2>1, <2>2
<1> HIDE DEF t
<1>4. /\ row'[t].state # "none" /\ row'[t].send = proc[p].send
      /\ row[t].send \in {None, row'[t].send}
      /\ row'[t].receive # None => /\ receive[row'[t].receive].token = proc[p].send
                                   /\ receive[row'[t].receive].wallet = row[t].to
      /\ row'[t].state = "completed" => /\ row'[t].receive # None
                                        /\ redeemed[proc[p].send] = row'[t].receive
      /\ WorkerOK(p)'
  <2>1. CASE SaveSend(p)
    <3>1. /\ At(p, "saveSend") /\ At(p, "execute")'
          /\ row'[t].state = row[t].state /\ row'[t].send = proc[p].send
          /\ row'[t].receive = row[t].receive
      BY <2>1, SaveSendEffect DEF t
    <3>2. row[t].send = None
      BY <1>2, <3>1 DEF WorkerOK, At, t
    <3>3. row[t].receive = None /\ row[t].state # "completed"
      BY <1>2, <3>2 DEF EntryOK
    <3>4. WorkerOK(p)'
      BY <1>1, <1>2, <3>1 DEF WorkerOK, At, HasSend, HasReceive
    <3> QED BY <1>2, <3>1, <3>2, <3>3, <3>4
  <2>2. CASE Sent(p)
    <3>1. /\ At(p, "sent")
          /\ row'[t].state = "sent" /\ row'[t].send = row[t].send
          /\ row'[t].receive = row[t].receive /\ proc'[p].receive = row[t].receive
          /\ At(p, "receive")' \/ At(p, "redeem")'
      BY <2>2, SentEffect DEF t
    <3>2. row[t].send = proc[p].send
      BY <1>2, <3>1 DEF WorkerOK, At, HasSend, t
    <3>3. WorkerOK(p)'
      BY <1>1, <1>2, <3>1, <3>2 DEF WorkerOK, At, HasSend, HasReceive
    <3> QED BY <1>2, <3>1, <3>2, <3>3 DEF EntryOK
  <2>3. CASE SaveReceive(p)
    <3>1. /\ At(p, "saveReceive") /\ At(p, "redeem")'
          /\ row'[t].state = row[t].state /\ row'[t].send = row[t].send
          /\ row'[t].receive = proc[p].receive /\ proc'[p].receive = proc[p].receive
      BY <2>3, SaveReceiveEffect DEF t, Keeps
    <3>2. /\ row[t].send = proc[p].send
          /\ receive[proc[p].receive].token = proc[p].send
          /\ receive[proc[p].receive].wallet = proc[p].to
          /\ proc[p].receive \in Receives
      BY <1>2, <3>1, InTransfer DEF WorkerOK, At, HasSend, HasReceive, Entered, LocalsOf, t
    <3>3. row[t].state = "completed" => redeemed[proc[p].send] = proc[p].receive
      <4> SUFFICES ASSUME row[t].state = "completed" PROVE redeemed[proc[p].send] = proc[p].receive
        OBVIOUS
      <4>1. /\ row[t].receive # None /\ redeemed[proc[p].send] = row[t].receive
            /\ receive[row[t].receive].token = proc[p].send
            /\ row[t].receive \in Receives
        <5>1. row[t].receive \in Receives \cup {None}
          BY <1>2 DEF TypeInv, TypeOK, Entry
        <5> QED BY <1>2, <3>2, <5>1 DEF EntryOK
      <4> QED BY <1>2, <3>2, <4>1, TransferAssumption DEF TransferInv, Operations, OneReceive
    <3>4. WorkerOK(p)'
      BY <1>1, <1>2, <3>1, <3>2 DEF WorkerOK, At, HasSend, HasReceive
    <3> QED BY <1>2, <3>1, <3>2, <3>3, <3>4, TransferAssumption
  <2>4. CASE Received(p) \/ Complete(p)
    <3>1. /\ \/ At(p, "received") /\ At(p, "confirm")' /\ row'[t].state = "received"
             \/ At(p, "complete") /\ At(p, "exited")' /\ row'[t].state = "completed"
          /\ row'[t].send = row[t].send
          /\ row'[t].receive = row[t].receive /\ proc'[p].receive = proc[p].receive
      BY <2>4, RowStateEffect DEF t, Keeps
    <3>2. proc[p].pc \in HasReceive \ {"saveReceive"}
      BY <3>1 DEF At, HasReceive
    <3>3. /\ row[t].send = proc[p].send
          /\ row[t].receive = proc[p].receive
          /\ proc[p].receive \in Receives
      BY <3>2, KnowsReceive, KnowsSend DEF t
    <3>4. redeemed[proc[p].send] = proc[p].receive
      BY <1>2, <3>1 DEF WorkerOK, At
    <3>5. WorkerOK(p)'
      BY <1>1, <1>2, <3>1, <3>3, <3>4 DEF WorkerOK, At, Entered, HasSend, HasReceive
    <3> QED BY <1>2, <3>1, <3>3, <3>4, <3>5, TransferAssumption DEF EntryOK
  <2> QED BY <2>1, <2>2, <2>3, <2>4
<1>5. EntryOK(t)'
  <2>1. ~Unsent(t)'
    BY <1>1, <1>2, <1>4, TransferAssumption DEF Unsent, t
  <2> QED BY <1>1, <1>2, <1>3, <1>4, <2>1, TransferAssumption DEF EntryOK, t
<1>6. Entries' /\ Operations' /\ OperationsGrow
  <2>1. t' = t
    BY <1>1 DEF t
  <2>2. row'[t].send \in Sends
    BY <1>2, <1>4
  <2> QED BY <1>1, <1>2, <1>4, <1>5, <2>1, <2>2, RowAdvances
<1>7. Workers'
  BY <1>1, <1>2, <1>4, <1>6, OtherWorkers DEF t
<1> QED BY <1>6, <1>7 DEF TransferInv

LEMMA StepSend ==
  ASSUME TypeInv, LockInv, TransferInv, NEW p \in Procs,
         ExecuteSend(p) \/ Swap(p) \/ RefreshSend(p) \/ Confirm(p)
  PROVE  TransferInv'
<1>1. /\ Keeps(p) /\ Others(p) /\ SendAdvances(proc[p].send)
      /\ \/ proc[p].pc \in {"execute", "swap"} /\ proc'[p].pc \in {"swap", "sent", "failed"}
         \/ proc[p].pc = "confirm" /\ proc'[p].pc = "complete"
      /\ UNCHANGED <<row, receive, redeemed>>
  BY SendStepEffect DEF At
<1>2. proc[p].pc \in HasSend \ {"saveSend"}
  BY <1>1 DEF HasSend
<1>3. /\ proc[p].send \in Sends /\ row[proc[p].t].send = proc[p].send
      /\ send[proc[p].send].cause = proc[p].t /\ send[proc[p].send].state # "none"
      /\ proc[p].pc \in Entered \ {"journal"}
  BY <1>2, KnowsSend
<1>4. /\ row[proc[p].t].state # "none"
      /\ row[proc[p].t].from = proc[p].from
      /\ row[proc[p].t].to = proc[p].to
      /\ WorkerOK(p) /\ proc[p].t \in Transfers
  BY <1>3, InTransfer
<1>5. Entries' /\ Operations' /\ OperationsGrow
  BY <1>1, <1>3, <1>4, SendMoves
<1>6. WorkerOK(p)'
  BY <1>1, <1>3, <1>4 DEF WorkerOK, Keeps, At, HasSend, HasReceive
<1>7. OtherRows(proc[p].t) /\ row'[proc[p].t] = row[proc[p].t]
  BY <1>1 DEF OtherRows
<1>8. Workers'
  BY <1>1, <1>3, <1>5, <1>6, <1>7, OtherWorkers DEF Keeps
<1> QED BY <1>5, <1>8 DEF TransferInv

LEMMA StepReceive ==
  ASSUME TypeInv, LockInv, TransferInv, NEW p \in Procs,
         RefreshReceive(p) \/ ExecuteReceive(p) \/ SwapIn(p)
  PROVE  TransferInv'
<1> DEFINE r == proc[p].receive
           x == proc[p].send
<1>1. /\ Keeps(p) /\ Others(p) /\ ReceiveAdvances(r)
      /\ \/ /\ proc[p].pc = "redeem" /\ proc'[p].pc \in {"redeem", "failed", "swapIn"}
            /\ \/ receive' = receive
               \/ receive'[r].state # "finalized"
            /\ redeemed' = redeemed
         \/ /\ proc[p].pc = "redeem" /\ proc'[p].pc = "received"
            /\ redeemed[x] = r
            /\ redeemed' = redeemed
         \/ /\ proc[p].pc = "swapIn" /\ proc'[p].pc \in {"received", "failed"}
            /\ redeemed[x] = None
            /\ redeemed' = [redeemed EXCEPT ![x] = r]
      /\ UNCHANGED <<row, send>>
  BY ReceiveStepEffect DEF At
<1>2. proc[p].pc \in HasReceive \ {"saveReceive"}
  BY <1>1 DEF HasReceive
<1>3. /\ r \in Receives /\ row[proc[p].t].receive = r
      /\ receive[r].token = x /\ receive[r].state # "none"
      /\ proc[p].pc \in HasSend \ {"saveSend"}
  BY <1>2, KnowsReceive
<1>4. x \in Sends /\ row[proc[p].t].send = x /\ proc[p].pc \in Entered \ {"journal"}
  BY <1>3, KnowsSend
<1>5. /\ row[proc[p].t].state # "none"
      /\ row[proc[p].t].from = proc[p].from
      /\ row[proc[p].t].to = proc[p].to
      /\ WorkerOK(p) /\ proc[p].t \in Transfers
  BY <1>4, InTransfer
<1> HIDE DEF r, x
<1>6. redeemed \in [Sends -> Receives \cup {None}]
  BY DEF TypeInv, TypeOK
<1>7. /\ \A y \in Sends : redeemed[y] # None => redeemed'[y] = redeemed[y]
      /\ receive'[r] = receive[r] \/ receive'[r].state # "finalized" \/ redeemed'[x] = r
      /\ proc'[p].pc = "received" => redeemed'[x] = r
  BY <1>1, <1>4, <1>6
<1>8. Entries' /\ Operations' /\ OperationsGrow
  BY <1>1, <1>3, <1>4, <1>7, ReceiveMoves
<1>9. WorkerOK(p)'
  BY <1>1, <1>3, <1>4, <1>5, <1>7 DEF WorkerOK, Keeps, At, HasSend, HasReceive, r, x
<1>10. OtherRows(proc[p].t) /\ row'[proc[p].t] = row[proc[p].t]
  BY <1>1 DEF OtherRows
<1>11. Workers'
  BY <1>1, <1>4, <1>8, <1>9, <1>10, OtherWorkers DEF Keeps
<1> QED BY <1>8, <1>11 DEF TransferInv

LEMMA InitTransfers == Init => TransferInv
BY DEF Init, Idle, NoRow, TransferInv, Entries, OneUnsent, Unsent, EntryOK, Operations, OneSend,
       SendOK, OneReceive, ReceiveOK, Workers, OneWorker, WorkerOK, Entered, HasSend, HasReceive,
       At, Running

LEMMA StepTransfers ==
  ASSUME "unrelated" \notin Env
  PROVE  TypeInv /\ LockInv /\ TransferInv /\ [Next]_vars => TransferInv'
<1> SUFFICES ASSUME TypeInv, LockInv, TransferInv, [Next]_vars PROVE TransferInv'
  OBVIOUS
<1>1. CASE UNCHANGED vars
  <2>1. NoData /\ proc' = proc
    BY <1>1 DEF vars, NoData
  <2>2. Workers'
    BY <2>1 DEF TransferInv, Workers, OneWorker, WorkerOK, NoData, At, Running
  <2> QED BY <2>1, <2>2, NoDataKeeps DEF TransferInv
<1>2. CASE Next
  <2>1. PICK p \in Procs :
          \/ OpenSource(p) \/ OpenRecipient(p) \/ Fail(p) \/ Die(p) \/ Unlock(p) \/ RemoveLock(p)
          \/ Journal(p) \/ FindSend(p) \/ PrepareSend(p) \/ SaveSend(p)
          \/ ExecuteSend(p) \/ Swap(p) \/ RefreshSend(p) \/ AlreadySent(p) \/ Sent(p)
          \/ FindReceive(p) \/ PrepareReceive(p) \/ SaveReceive(p)
          \/ RefreshReceive(p) \/ ExecuteReceive(p) \/ SwapIn(p) \/ AlreadyReceived(p)
          \/ Received(p) \/ Confirm(p) \/ Complete(p)
    BY <1>2 DEF Next
  <2> QED BY <2>1, StepLeave, StepOpenRecipient, StepFind, StepJournal, StepPrepareSend,
             StepPrepareReceive, StepRow, StepSend, StepReceive
<1> QED BY <1>1, <1>2

\* What the properties assume of the operators: they remove the locks of dead
\* commands one at a time, and begin no transfer in a wallet with an unresolved one.
LEMMA TransfersHold ==
  ASSUME "unlocks" \notin Env, "unrelated" \notin Env
  PROVE  Spec => [](TypeInv /\ LockInv /\ TransferInv)
<1>1. TypeInv /\ LockInv /\ TransferInv /\ [Next]_vars => TypeInv' /\ LockInv' /\ TransferInv'
  BY StepType, StepLocks, StepTransfers
<1> QED BY InitType, InitLocks, InitTransfers, <1>1, PTL DEF Spec

LEMMA AtMostOne ==
  ASSUME NEW S, \A x, y \in S : x = y
  PROVE  Cardinality(S) <= 1
<1>1. CASE S = {}
  BY <1>1, FS_EmptySet
<1>2. CASE S # {}
  <2>1. PICK x \in S : TRUE
    BY <1>2
  <2>2. S = {x}
    BY <2>1
  <2> QED BY <2>2, FS_Singleton
<1> QED BY <1>1, <1>2

\* Resume reuses the exact send and receive, wherever the earlier attempt was cut
\* off: a transfer causes at most one send and a token at most one receive
\* (the candidates by previousSendIds, the matches by proofs).
THEOREM Reuses ==
  ASSUME "unlocks" \notin Env, "unrelated" \notin Env
  PROVE  Spec => []ResumeReuses
<1>1. TransferInv => ResumeReuses
  <2> SUFFICES ASSUME TransferInv PROVE ResumeReuses
    OBVIOUS
  <2>1. ASSUME NEW t \in Transfers PROVE Cardinality({x \in Sends : send[x].cause = t}) <= 1
    <3>1. \A x, y \in {z \in Sends : send[z].cause = t} : x = y
      BY TransferAssumption DEF TransferInv, Operations, OneSend
    <3> QED BY <3>1, AtMostOne
  <2>2. ASSUME NEW x \in Sends PROVE Cardinality({r \in Receives : receive[r].token = x}) <= 1
    <3>1. \A r, s \in {z \in Receives : receive[z].token = x} : r = s
      BY TransferAssumption DEF TransferInv, Operations, OneReceive
    <3> QED BY <3>1, AtMostOne
  <2> QED BY <2>1, <2>2 DEF ResumeReuses
<1> QED BY <1>1, TransfersHold, PTL

\* Money that has left the source and not reached a recipient is named by the
\* journal of a transfer that is not completed: sendId is saved before execute().
THEOREM Journalled ==
  ASSUME "unlocks" \notin Env, "unrelated" \notin Env
  PROVE  Spec => []TokenIsJournalled
<1>1. TypeInv /\ TransferInv => TokenIsJournalled
  <2> SUFFICES ASSUME TypeInv, TransferInv, NEW x \in Sends, send[x].swapped, redeemed[x] = None
               PROVE  \E t \in Transfers : row[t].send = x /\ row[t].state # "completed"
    BY DEF TokenIsJournalled
  <2>1. SendOK(x)
    BY DEF TransferInv, Operations
  <2>2. send[x].cause \in Transfers /\ row[send[x].cause].send = x
    BY <2>1 DEF SendOK
  <2>3. row[send[x].cause].state # "completed"
    BY <2>2 DEF TransferInv, Entries, EntryOK
  <2> QED BY <2>2, <2>3
<1> QED BY <1>1, TransfersHold, PTL

\* A completed transfer moved its own money to its own recipient: the send it
\* caused was redeemed by the receive its journal names (completeTransfer).
THEOREM Completed ==
  ASSUME "unlocks" \notin Env, "unrelated" \notin Env
  PROVE  Spec => []CompletedMeansReceived
<1>1. TransferInv => CompletedMeansReceived
  BY DEF TransferInv, Entries, EntryOK, CompletedMeansReceived
<1> QED BY <1>1, TransfersHold, PTL
=============================================================================

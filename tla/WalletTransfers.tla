---------------------------- MODULE WalletTransfers ----------------------------
(***************************************************************************)
(* Transfers between bot wallets (src/src/wallets/wallet-transfers.ts).    *)
(* Each command is a process of its own.  It opens the source wallet and   *)
(* the recipient's under their lock files, journals the transfer in the    *)
(* source wallet, prepares and executes a send, redeems its token in the   *)
(* recipient and confirms.  It may fail at every await, or die and leave   *)
(* its locks; transfer-resume takes the journal up again.                  *)
(*                                                                         *)
(* The operations of the wallet library and the mint are external: a       *)
(* prepared operation is durable, executing it marks it first, and the     *)
(* answer of the mint may be lost.  All amounts are equal, which is the    *)
(* hard case for finding an operation again.                               *)
(***************************************************************************)
EXTENDS Naturals, FiniteSets

CONSTANTS
  Wallets, Transfers, Procs,
  Sends, Receives,  \* the library's operations, by id
  Env,              \* "unrelated": a wallet with an unresolved transfer starts another;
                    \* "unlocks": two operators remove locks at a time
  None

ASSUME TransferAssumption ==
  None \notin Wallets \cup Transfers \cup Procs \cup Sends \cup Receives

VARIABLES
  lock,     \* wallet.lock: the process it names
  proc,     \* the commands
  row,      \* autopilot_wallet_transfers
  send,     \* send operations of the source wallets
  receive,  \* receive operations of the recipients
  redeemed  \* at the mint: the receive operation that redeemed a send's token

vars == <<lock, proc, row, send, receive, redeemed>>

Idle == [pc |-> "new", from |-> None, to |-> None, t |-> None, send |-> None, receive |-> None]
NoRow == [state |-> "none", from |-> None, to |-> None, send |-> None, receive |-> None, previous |-> {}]

Phases == {"new", "opened", "journal", "send", "saveSend", "execute", "swap", "sent",
           "receive", "saveReceive", "redeem", "swapIn", "received", "confirm", "complete",
           "failed", "unlock", "dead", "exited"}
Process == [pc : Phases, from : Wallets \cup {None}, to : Wallets \cup {None},
            t : Transfers \cup {None}, send : Sends \cup {None}, receive : Receives \cup {None}]
Entry == [state : {"none", "preparing", "sent", "received", "completed"},
          from : Wallets \cup {None}, to : Wallets \cup {None}, send : Sends \cup {None},
          receive : Receives \cup {None}, previous : SUBSET Sends]
SendOperation == [state : {"none", "prepared", "executing", "pending", "finalized", "rolledBack"},
                  wallet : Wallets \cup {None}, swapped : BOOLEAN, cause : Transfers \cup {None}]
ReceiveOperation == [state : {"none", "prepared", "executing", "finalized"},
                     wallet : Wallets \cup {None}, token : Sends \cup {None}]

TypeOK ==
  /\ lock \in [Wallets -> Procs \cup {None}]
  /\ proc \in [Procs -> Process]
  /\ row \in [Transfers -> Entry]
  /\ send \in [Sends -> SendOperation]
  /\ receive \in [Receives -> ReceiveOperation]
  /\ redeemed \in [Sends -> Receives \cup {None}]

Init ==
  /\ lock = [w \in Wallets |-> None]
  /\ proc = [p \in Procs |-> Idle]
  /\ row = [t \in Transfers |-> NoRow]
  /\ send = [x \in Sends |-> [state |-> "none", wallet |-> None, swapped |-> FALSE, cause |-> None]]
  /\ receive = [r \in Receives |-> [state |-> "none", wallet |-> None, token |-> None]]
  /\ redeemed = [x \in Sends |-> None]

-----------------------------------------------------------------------------
(* Opening the wallets                                                     *)

At(p, pc) == proc[p].pc = pc
Goto(p, pc) == proc' = [proc EXCEPT ![p].pc = pc]
Running(p) == proc[p].pc \notin {"new", "unlock", "dead", "exited"}
Uses(p) == {w \in Wallets : Running(p) /\ w \in {proc[p].from, proc[p].to}}

\* wallet.lock is created exclusively
OpenSource(p) ==
  /\ At(p, "new")
  /\ \E w \in Wallets : /\ lock[w] = None
                        /\ lock' = [lock EXCEPT ![w] = p]
                        /\ proc' = [proc EXCEPT ![p].pc = "opened", ![p].from = w]
  /\ UNCHANGED <<row, send, receive, redeemed>>

Unresolved(w) == \E t \in Transfers : row[t].from = w /\ row[t].state # "completed"

\* transfer-to-bot begins a transfer, and docs/bot-cashu-wallets.md:118 tells the
\* operator not to while another is pending; transfer-resume names one
OpenRecipient(p) ==
  /\ At(p, "opened")
  /\ \E t \in Transfers, w \in Wallets :
       /\ \/ /\ row[t].state = "none"
             /\ \A q \in Procs : Running(q) => proc[q].t # t
             /\ Unresolved(proc[p].from) => "unrelated" \in Env
          \/ row[t].from = proc[p].from /\ row[t].to = w
       /\ w # proc[p].from
       /\ lock[w] = None
       /\ lock' = [lock EXCEPT ![w] = p]
       /\ proc' = [proc EXCEPT ![p].pc = "journal", ![p].t = t, ![p].to = w]
  /\ UNCHANGED <<row, send, receive, redeemed>>

Released(p) == [w \in Wallets |-> IF w \in Uses(p) THEN None ELSE lock[w]]

\* an await throws: a busy wallet, an untrusted mint, an ambiguous match, a
\* refused operation
Fail(p) ==
  /\ Running(p)
  /\ lock' = Released(p)
  /\ Goto(p, "exited")
  /\ UNCHANGED <<row, send, receive, redeemed>>

Die(p) ==
  /\ Running(p)
  /\ Goto(p, "dead")
  /\ UNCHANGED <<lock, row, send, receive, redeemed>>

\* seeded fault: the recorded process is not looked up
UnlockUnchecked(p) ==
  /\ At(p, "new")
  /\ \E w \in Wallets : lock[w] # None /\ proc' = [proc EXCEPT ![p].pc = "unlock", ![p].from = w]
  /\ UNCHANGED <<lock, row, send, receive, redeemed>>

\* the owner is read and found dead ...
Unlock(p) ==
  /\ At(p, "new")
  /\ \E w \in Wallets : /\ lock[w] # None
                        /\ At(lock[w], "dead")
                        /\ \A q \in Procs : At(q, "unlock") => "unlocks" \in Env
                        /\ proc' = [proc EXCEPT ![p].pc = "unlock", ![p].from = w]
  /\ UNCHANGED <<lock, row, send, receive, redeemed>>

\* ... and the file is removed, whatever it says by then
RemoveLock(p) ==
  /\ At(p, "unlock")
  /\ lock' = [lock EXCEPT ![proc[p].from] = None]
  /\ Goto(p, "exited")
  /\ UNCHANGED <<row, send, receive, redeemed>>

-----------------------------------------------------------------------------
(* The send                                                                *)

Save(t, r) == row' = [row EXCEPT ![t] = r]
Mine(w) == {x \in Sends : send[x].wallet = w}

Journal(p) ==
  LET t == proc[p].t IN
  /\ At(p, "journal")
  /\ IF row[t].state = "none"
     THEN Save(t, [NoRow EXCEPT !.state = "preparing", !.from = proc[p].from, !.to = proc[p].to,
                                !.previous = Mine(proc[p].from)])
     ELSE UNCHANGED row
  /\ proc' = [proc EXCEPT ![p].pc = IF row[t].send = None THEN "send" ELSE "execute",
                          ![p].send = row[t].send]
  /\ UNCHANGED <<lock, send, receive, redeemed>>

\* seeded fault: an operation that was not journalled is not looked for
NoCandidates(p) == {}

\* seeded fault: by amount alone
CandidatesByAmount(p) == Mine(proc[p].from)

Candidates(p) == Mine(proc[p].from) \ row[proc[p].t].previous

FindSend(p) ==
  /\ At(p, "send")
  /\ \E x \in Candidates(p) : /\ Candidates(p) = {x}
                              /\ proc' = [proc EXCEPT ![p].pc = "saveSend", ![p].send = x]
  /\ UNCHANGED <<lock, row, send, receive, redeemed>>

\* seeded fault: the operation is executed before its id is journalled
PrepareUnsaved(p) ==
  /\ At(p, "send")
  /\ Candidates(p) = {}
  /\ \E x \in Sends :
       /\ send[x].state = "none"
       /\ send' = [send EXCEPT ![x].state = "prepared", ![x].wallet = proc[p].from, ![x].cause = proc[p].t]
       /\ proc' = [proc EXCEPT ![p].pc = "execute", ![p].send = x]
  /\ UNCHANGED <<lock, row, receive, redeemed>>

PrepareSend(p) ==
  /\ At(p, "send")
  /\ Candidates(p) = {}
  /\ \E x \in Sends :
       /\ send[x].state = "none"
       /\ send' = [send EXCEPT ![x].state = "prepared", ![x].wallet = proc[p].from, ![x].cause = proc[p].t]
       /\ proc' = [proc EXCEPT ![p].pc = "saveSend", ![p].send = x]
  /\ UNCHANGED <<lock, row, receive, redeemed>>

SaveSend(p) ==
  /\ At(p, "saveSend")
  /\ Save(proc[p].t, [row[proc[p].t] EXCEPT !.send = proc[p].send, !.previous = {}])
  /\ Goto(p, "execute")
  /\ UNCHANGED <<lock, send, receive, redeemed>>

Sending(p, s) == At(p, "execute") /\ send[proc[p].send].state = s

ExecuteSend(p) ==
  /\ Sending(p, "prepared")
  /\ send' = [send EXCEPT ![proc[p].send].state = "executing"]
  /\ Goto(p, "swap")
  /\ UNCHANGED <<lock, row, receive, redeemed>>

\* the mint hands out the token; its answer may be lost
Swap(p) ==
  /\ At(p, "swap")
  /\ \/ /\ send' = [send EXCEPT ![proc[p].send].swapped = TRUE, ![proc[p].send].state = "pending"]
        /\ Goto(p, "sent")
     \/ /\ send' = [send EXCEPT ![proc[p].send].swapped = TRUE]
        /\ Goto(p, "failed")
  /\ UNCHANGED <<lock, row, receive, redeemed>>

\* refresh() restores what the mint handed out, or gives up what it did not
RefreshSend(p) ==
  LET x == proc[p].send IN
  /\ Sending(p, "executing")
  /\ \/ /\ send[x].swapped
        /\ send' = [send EXCEPT ![x].state = "pending"]
        /\ Goto(p, "sent")
     \/ /\ ~send[x].swapped
        /\ send' \in {send, [send EXCEPT ![x].state = "rolledBack"]}
        /\ Goto(p, "failed")
  /\ UNCHANGED <<lock, row, receive, redeemed>>

AlreadySent(p) ==
  /\ Sending(p, "pending") \/ Sending(p, "finalized")
  /\ Goto(p, "sent")
  /\ UNCHANGED <<lock, row, send, receive, redeemed>>

\* also of a transfer that is further already
Sent(p) ==
  /\ At(p, "sent")
  /\ Save(proc[p].t, [row[proc[p].t] EXCEPT !.state = "sent"])
  /\ proc' = [proc EXCEPT ![p].pc = IF row[proc[p].t].receive = None THEN "receive" ELSE "redeem",
                          ![p].receive = row[proc[p].t].receive]
  /\ UNCHANGED <<lock, send, receive, redeemed>>

-----------------------------------------------------------------------------
(* The redemption                                                          *)

\* by the exact proofs of the token
Matches(p) == {r \in Receives : receive[r].wallet = proc[p].to /\ receive[r].token = proc[p].send}

FindReceive(p) ==
  /\ At(p, "receive")
  /\ \E r \in Matches(p) : /\ Matches(p) = {r}
                           /\ proc' = [proc EXCEPT ![p].pc = "saveReceive", ![p].receive = r]
  /\ UNCHANGED <<lock, row, send, receive, redeemed>>

PrepareReceive(p) ==
  /\ At(p, "receive")
  /\ Matches(p) = {}
  /\ \E r \in Receives :
       /\ receive[r].state = "none"
       /\ receive' = [receive EXCEPT ![r] = [state |-> "prepared", wallet |-> proc[p].to,
                                             token |-> proc[p].send]]
       /\ proc' = [proc EXCEPT ![p].pc = "saveReceive", ![p].receive = r]
  /\ UNCHANGED <<lock, row, send, redeemed>>

SaveReceive(p) ==
  /\ At(p, "saveReceive")
  /\ Save(proc[p].t, [row[proc[p].t] EXCEPT !.receive = proc[p].receive])
  /\ Goto(p, "redeem")
  /\ UNCHANGED <<lock, send, receive, redeemed>>

Receiving(p, s) == At(p, "redeem") /\ receive[proc[p].receive].state = s

\* seeded fault: a redemption that was not seen is rolled back like a send
RefreshReceiveLikeSend(p) ==
  /\ Receiving(p, "executing")
  /\ receive' = [receive EXCEPT ![proc[p].receive].state =
                   IF redeemed[proc[p].send] = proc[p].receive THEN "finalized" ELSE "rolledBack"]
  /\ Goto(p, "failed")
  /\ UNCHANGED <<lock, row, send, redeemed>>

\* finished if the mint redeemed it, otherwise to be tried again or inspected
RefreshReceive(p) ==
  LET r == proc[p].receive IN
  /\ Receiving(p, "executing")
  /\ \/ /\ redeemed[proc[p].send] = r
        /\ receive' = [receive EXCEPT ![r].state = "finalized"]
        /\ Goto(p, "received")
     \/ /\ redeemed[proc[p].send] # r
        /\ \/ receive' = [receive EXCEPT ![r].state = "prepared"] /\ UNCHANGED proc
           \/ UNCHANGED receive /\ Goto(p, "failed")
  /\ UNCHANGED <<lock, row, send, redeemed>>

ExecuteReceive(p) ==
  /\ Receiving(p, "prepared")
  /\ receive' = [receive EXCEPT ![proc[p].receive].state = "executing"]
  /\ Goto(p, "swapIn")
  /\ UNCHANGED <<lock, row, send, redeemed>>

\* the mint redeems a token once; its answer may be lost
SwapIn(p) ==
  /\ At(p, "swapIn")
  /\ redeemed[proc[p].send] = None
  /\ redeemed' = [redeemed EXCEPT ![proc[p].send] = proc[p].receive]
  /\ \/ /\ receive' = [receive EXCEPT ![proc[p].receive].state = "finalized"]
        /\ Goto(p, "received")
     \/ UNCHANGED receive /\ Goto(p, "failed")
  /\ UNCHANGED <<lock, row, send>>

AlreadyReceived(p) ==
  /\ Receiving(p, "finalized")
  /\ Goto(p, "received")
  /\ UNCHANGED <<lock, row, send, receive, redeemed>>

Received(p) ==
  /\ At(p, "received")
  /\ Save(proc[p].t, [row[proc[p].t] EXCEPT !.state = "received"])
  /\ Goto(p, "confirm")
  /\ UNCHANGED <<lock, send, receive, redeemed>>

\* the source asks the mint whether its token was redeemed
Confirm(p) ==
  /\ At(p, "confirm")
  /\ redeemed[proc[p].send] # None
  /\ send' = [send EXCEPT ![proc[p].send].state = "finalized"]
  /\ Goto(p, "complete")
  /\ UNCHANGED <<lock, row, receive, redeemed>>

Complete(p) ==
  /\ At(p, "complete")
  /\ Save(proc[p].t, [row[proc[p].t] EXCEPT !.state = "completed"])
  /\ lock' = Released(p)
  /\ Goto(p, "exited")
  /\ UNCHANGED <<send, receive, redeemed>>

Next == \E p \in Procs :
  \/ OpenSource(p) \/ OpenRecipient(p) \/ Fail(p) \/ Die(p) \/ Unlock(p) \/ RemoveLock(p)
  \/ Journal(p) \/ FindSend(p) \/ PrepareSend(p) \/ SaveSend(p)
  \/ ExecuteSend(p) \/ Swap(p) \/ RefreshSend(p) \/ AlreadySent(p) \/ Sent(p)
  \/ FindReceive(p) \/ PrepareReceive(p) \/ SaveReceive(p)
  \/ RefreshReceive(p) \/ ExecuteReceive(p) \/ SwapIn(p) \/ AlreadyReceived(p)
  \/ Received(p) \/ Confirm(p) \/ Complete(p)

Spec == Init /\ [][Next]_vars

-----------------------------------------------------------------------------
(* Properties                                                              *)

\* No two processes work in a wallet at a time, the removal of a dead one's
\* lock included (acquireWalletLock, unlockWallet).
WalletExclusive ==
  \A p, q \in Procs : p # q => Uses(p) \cap Uses(q) = {}

\* Resume reuses the exact send and receive, wherever the earlier attempt was
\* cut off: a transfer causes one send and its token one receive operation
\* (the candidates by previousSendIds, the matches by proofs).
ResumeReuses ==
  /\ \A t \in Transfers : Cardinality({x \in Sends : send[x].cause = t}) <= 1
  /\ \A x \in Sends : Cardinality({r \in Receives : receive[r].token = x}) <= 1

\* Money that has left the source and not reached a recipient can be found: the
\* journal of an unfinished transfer names the send that holds its token
\* (sendId is saved before execute()).
TokenIsJournalled ==
  \A x \in Sends : send[x].swapped /\ redeemed[x] = None =>
    \E t \in Transfers : row[t].send = x /\ row[t].state # "completed"

\* A completed transfer moved its own money to its own recipient: the send it
\* caused was redeemed by the receive operation it names.
CompletedMeansReceived ==
  \A t \in Transfers : row[t].state = "completed" =>
    /\ send[row[t].send].cause = t
    /\ redeemed[row[t].send] = row[t].receive
    /\ receive[row[t].receive].wallet = row[t].to
=============================================================================

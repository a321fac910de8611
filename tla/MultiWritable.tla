---------------------------- MODULE MultiWritable ----------------------------
(***************************************************************************)
(* A characteristic that takes messages longer than one write              *)
(* (MultiWritableCharacteristic, ble_utils.go:79-153).  A client writes    *)
(* packets with an offset; the device keeps the bytes, knows up to where   *)
(* they are complete (expectedOffset), and notifies that offset so that    *)
(* the client may resume there after a loss.  The write and subscription   *)
(* handlers are called one at a time by the GATT server; every             *)
(* subscription has a goroutine, the reader, that takes offsets from a     *)
(* channel and notifies them.  Handlers and readers share the variable     *)
(* offsetReqChan without a lock.                                           *)
(***************************************************************************)
EXTENDS Naturals, Sequences

CONSTANTS
  MaxBytes,      \* maxBytes: the size of the buffer
  MaxChunk,      \* the bytes of one write at most
  Lengths,       \* the lengths of the messages that clients have to send
  MaxTransfers,  \* bound: messages
  MaxSubs        \* bound: subscriptions to the notifications

ASSUME MultiWritableAssumption ==
  /\ MaxBytes \in Nat \ {0} /\ MaxChunk \in Nat \ {0}
  /\ Lengths \subseteq Nat \ {0}
  /\ MaxTransfers \in Nat \ {0} /\ MaxSubs \in Nat
  /\ MaxBytes + MaxChunk < 32768   \* an offset has fifteen bits

Transfers == 1 .. MaxTransfers
Subs == 1 .. MaxSubs
Positions == 0 .. MaxBytes - 1
Whole == 65535          \* 0xffff: the message is complete, notify nothing
Offsets == 0 .. MaxBytes + MaxChunk

VARIABLES
  bytesWritten,   \* which transfer's byte is at each position, 0 for none
  expectedOffset,
  offsetReqChan,  \* the subscription whose channel it is, 0 for nil
  channel,        \* the channel each subscription made
  handler,        \* the GATT server's goroutine, in a handler or not
  reader,         \* the goroutine of each subscription
  subscription,   \* the one in force, 0 for none: n.Done() of all others
  transfer,       \* the client's message, numbered
  length,         \* of that message
  told,           \* history: the offset last notified to a subscriber
  leftover,       \* history: a transfer was given up half-way, none completed since
  crossed,        \* history: a reader ended or loaded at an unlucky moment
  fresh,          \* history: positions written since the last message was complete
  answered        \* history: the kind of the last answer owed to this subscription

bufferVars == <<bytesWritten, expectedOffset, fresh>>
noteVars   == <<offsetReqChan, channel, reader, crossed, told>>
clientVars == <<transfer, length, leftover>>
vars == <<bufferVars, noteVars, clientVars, handler, subscription, answered>>

(* Types; a channel holds at most one offset.                              *)
TypeOK ==
  /\ bytesWritten \in [Positions -> 0 .. MaxTransfers]
  /\ expectedOffset \in Offsets /\ fresh \subseteq Positions
  /\ offsetReqChan \in 0 .. MaxSubs /\ subscription \in 0 .. MaxSubs
  /\ channel \in [Subs -> {<<>>} \cup {<<o>> : o \in Offsets \cup {Whole}}]
  /\ handler \in [at : {"idle", "offering", "sending", "completing"},
                  opens : 0 .. MaxSubs, offset : Offsets \cup {Whole},
                  target : 0 .. MaxSubs]
  /\ reader \in [Subs -> [at : {"none", "check", "load", "receive", "notify",
                                "exit", "ended"},
                          target : 0 .. MaxSubs, offset : Offsets \cup {Whole}]]
  /\ transfer \in Transfers /\ length \in Lengths /\ told \in Offsets
  /\ leftover \in BOOLEAN /\ crossed \in BOOLEAN
  /\ answered \in {"nothing", "more", "whole"}

Idle == [at |-> "idle", opens |-> 0, offset |-> 0, target |-> 0]
NoReader == [at |-> "none", target |-> 0, offset |-> 0]

Init ==
  /\ bytesWritten = [i \in Positions |-> 0] /\ expectedOffset = 0 /\ fresh = {}
  /\ offsetReqChan = 0 /\ channel = [s \in Subs |-> <<>>]
  /\ reader = [s \in Subs |-> NoReader] /\ crossed = FALSE
  /\ handler = Idle /\ subscription = 0 /\ answered = "nothing"
  /\ transfer = 1 /\ length \in Lengths /\ told = 0 /\ leftover = FALSE

-----------------------------------------------------------------------------
(* The write handler, up to the point where it may block.  It answers with *)
(* the offset to resume at, or with Whole when the packet was marked final *)
(* and everything up to its end is there.                                  *)
Answers(answer) ==
  /\ handler' = IF offsetReqChan # 0 THEN [Idle EXCEPT !.at = "offering", !.offset = answer]
                ELSE IF answer = Whole THEN [Idle EXCEPT !.at = "completing"]
                ELSE Idle
  /\ answered' = IF subscription = 0 THEN "nothing"
                 ELSE IF answer = Whole THEN "whole" ELSE "more"

Copy(offset, size) ==
  LET written == {i \in Positions : offset <= i /\ i < offset + size} IN
  /\ bytesWritten' = [i \in Positions |->
                        IF i \in written THEN transfer ELSE bytesWritten[i]]
  /\ fresh' = fresh \cup written

Advance_AnyOffset(offset, size) ==
  IF expectedOffset <= offset THEN offset + size ELSE expectedOffset

Advance(offset, size) ==
  IF expectedOffset = offset THEN offset + size ELSE expectedOffset

Receive_FinalSuffices(offset, size, final) ==
  IF offset >= MaxBytes
    THEN UNCHANGED <<bufferVars, handler, answered>>
    ELSE /\ Copy(offset, size)
         /\ expectedOffset' = Advance(offset, size)
         /\ Answers(IF final THEN Whole ELSE expectedOffset')

Receive_AnswersBefore(offset, size, final) ==
  IF offset >= MaxBytes
    THEN UNCHANGED <<bufferVars, handler, answered>>
    ELSE /\ Copy(offset, size)
         /\ expectedOffset' = Advance(offset, size)
         /\ Answers(IF final /\ expectedOffset' = offset + size THEN Whole
                    ELSE expectedOffset)

Receive(offset, size, final) ==
  IF offset >= MaxBytes
    THEN UNCHANGED <<bufferVars, handler, answered>>
    ELSE /\ Copy(offset, size)
         /\ expectedOffset' = Advance(offset, size)
         /\ Answers(IF final /\ expectedOffset' = offset + size THEN Whole
                    ELSE expectedOffset')

(* The rest of a handler: load the channel, send, and hand over a message. *)
HandlerLoads ==
  /\ handler.at = "offering"
  /\ handler' = [handler EXCEPT !.at = "sending", !.target = offsetReqChan]
  /\ UNCHANGED <<bufferVars, noteVars, clientVars, subscription, answered>>

HandlerSends_Overfills ==
  /\ handler.at = "sending" /\ handler.target # 0
  /\ channel' = [channel EXCEPT ![handler.target] = Append(@, handler.offset)]
  /\ handler' = IF handler.offset = Whole THEN [Idle EXCEPT !.at = "completing"] ELSE Idle
  /\ reader' = IF handler.opens = 0 THEN reader
               ELSE [reader EXCEPT ![handler.opens].at = "check"]
  /\ UNCHANGED <<bufferVars, offsetReqChan, crossed, told, clientVars, subscription, answered>>

HandlerSends ==
  /\ handler.at = "sending" /\ handler.target # 0 /\ channel[handler.target] = <<>>
  /\ channel' = [channel EXCEPT ![handler.target] = <<handler.offset>>]
  /\ handler' = IF handler.offset = Whole THEN [Idle EXCEPT !.at = "completing"] ELSE Idle
  /\ reader' = IF handler.opens = 0 THEN reader
               ELSE [reader EXCEPT ![handler.opens].at = "check"]
  /\ UNCHANGED <<bufferVars, offsetReqChan, crossed, told, clientVars, subscription, answered>>

Completes_KeepsOffset ==
  /\ handler.at = "completing" /\ expectedOffset <= MaxBytes
  /\ fresh' = {} /\ leftover' = FALSE /\ handler' = Idle
  /\ UNCHANGED <<bytesWritten, expectedOffset, noteVars, transfer, length, subscription, answered>>

Completes ==
  /\ handler.at = "completing" /\ expectedOffset <= MaxBytes
  /\ expectedOffset' = 0 /\ fresh' = {} /\ leftover' = FALSE
  /\ handler' = Idle
  /\ UNCHANGED <<bytesWritten, noteVars, transfer, length, subscription, answered>>

(* bytesWritten[:expectedOffset] is out of range: the process panics, and  *)
(* upstart starts it again.  The client has lost its connection.           *)
Panics ==
  /\ handler.at = "completing" /\ expectedOffset > MaxBytes
  /\ bytesWritten' = [i \in Positions |-> 0] /\ expectedOffset' = 0 /\ fresh' = {}
  /\ offsetReqChan' = 0 /\ channel' = [s \in Subs |-> <<>>]
  /\ reader' = [s \in Subs |-> IF reader[s].at = "none" THEN NoReader
                               ELSE [NoReader EXCEPT !.at = "ended"]]
  /\ handler' = Idle /\ subscription' = 0 /\ answered' = "nothing"
  /\ leftover' = FALSE /\ crossed' = FALSE /\ told' = 0
  /\ UNCHANGED <<transfer, length>>

-----------------------------------------------------------------------------
(* The subscription handler stores a new channel, sends 0 on it, and       *)
(* starts the reader.                                                      *)
Subscribes(s) ==
  /\ handler.at = "idle" /\ subscription = 0 /\ reader[s].at = "none"
  /\ \A r \in Subs : r < s => reader[r].at # "none"
  /\ offsetReqChan' = s
  /\ handler' = [at |-> "offering", opens |-> s, offset |-> 0, target |-> 0]
  /\ subscription' = s /\ answered' = "nothing"
  /\ UNCHANGED <<bufferVars, channel, reader, crossed, told, clientVars>>

Unsubscribes ==
  /\ subscription # 0 /\ subscription' = 0 /\ answered' = "nothing"
  /\ UNCHANGED <<bufferVars, noteVars, clientVars, handler>>

(* The reader: for !n.Done(), load the channel, receive, notify.           *)
ReaderGoes(s, at, target, offset) ==
  reader' = [reader EXCEPT ![s] = [at |-> at, target |-> target, offset |-> offset]]

ReaderOnly == UNCHANGED <<bufferVars, offsetReqChan, handler, subscription, answered, clientVars>>

ReaderChecks(s) ==
  /\ reader[s].at = "check"
  /\ ReaderGoes(s, IF subscription = s THEN "load" ELSE "exit", 0, 0)
  /\ ReaderOnly /\ UNCHANGED <<channel, crossed, told>>

ReaderLoads(s) ==
  /\ reader[s].at = "load"
  /\ ReaderGoes(s, "receive", offsetReqChan, 0)
  /\ crossed' = (crossed \/ offsetReqChan # s)
  /\ ReaderOnly /\ UNCHANGED <<channel, told>>

ReaderReceives(s) ==
  LET c == reader[s].target IN
  /\ reader[s].at = "receive" /\ c # 0 /\ channel[c] # <<>>
  /\ channel' = [channel EXCEPT ![c] = <<>>]
  /\ IF Head(channel[c]) = Whole THEN ReaderGoes(s, "check", 0, 0)
     ELSE ReaderGoes(s, "notify", 0, Head(channel[c]))
  /\ ReaderOnly /\ UNCHANGED <<crossed, told>>

ReaderNotifies_Ends(s) ==
  /\ reader[s].at = "notify"
  /\ told' = IF subscription = s THEN reader[s].offset ELSE told
  /\ ReaderGoes(s, "ended", 0, 0)
  /\ ReaderOnly /\ UNCHANGED <<channel, crossed>>

ReaderNotifies(s) ==
  /\ reader[s].at = "notify"
  /\ told' = IF subscription = s THEN reader[s].offset ELSE told
  /\ ReaderGoes(s, "check", 0, 0)
  /\ ReaderOnly /\ UNCHANGED <<channel, crossed>>

ReaderExits(s) ==
  /\ reader[s].at = "exit"
  /\ offsetReqChan' = 0
  /\ crossed' = (crossed \/ offsetReqChan # s \/ handler.at # "idle")
  /\ ReaderGoes(s, "ended", 0, 0)
  /\ UNCHANGED <<bufferVars, channel, told, handler, subscription, answered, clientVars>>

-----------------------------------------------------------------------------
(* The client sends any packet of its message, the last one marked final:  *)
(* packets may be lost, repeated after an offset was notified, and cut     *)
(* differently the second time.  It may give up a message for another one. *)
ClientSends(offset, size) ==
  /\ handler.at = "idle" /\ offset + size <= length
  /\ Receive(offset, size, offset + size = length)
  /\ UNCHANGED <<noteVars, clientVars, subscription>>

NextMessage(n) ==
  /\ handler.at = "idle" /\ transfer < MaxTransfers
  /\ transfer' = transfer + 1 /\ length' = n
  /\ leftover' = (leftover \/ expectedOffset # 0)
  /\ UNCHANGED <<bufferVars, noteVars, handler, subscription, answered>>

HandlerSteps == HandlerLoads \/ HandlerSends \/ Completes \/ Panics

ReaderSteps(s) ==
  \/ ReaderChecks(s) \/ ReaderLoads(s) \/ ReaderReceives(s)
  \/ ReaderNotifies(s) \/ ReaderExits(s)

Next ==
  \/ HandlerSteps
  \/ \E s \in Subs : ReaderSteps(s) \/ Subscribes(s)
  \/ Unsubscribes
  \/ \E offset \in 0 .. length - 1, size \in 1 .. MaxChunk : ClientSends(offset, size)
  \/ \E n \in Lengths : NextMessage(n)

(* Goroutines run when they can; the client owes nothing.                  *)
Fairness == WF_vars(HandlerSteps) /\ \A s \in Subs : WF_vars(ReaderSteps(s))

Spec == Init /\ [][Next]_vars
FairSpec == Spec /\ Fairness

-----------------------------------------------------------------------------
(* A message is handed over (ble_utils.go:142-144) complete and unmixed:   *)
(* as long as the client sent it, and every byte its own, whatever was     *)
(* lost, repeated or cut differently - unless a transfer before it was     *)
(* given up half-way.                                                      *)
Intact ==
  handler.at = "completing" /\ ~leftover /\ expectedOffset <= MaxBytes =>
    /\ expectedOffset = length
    /\ \A i \in 0 .. expectedOffset - 1 : bytesWritten[i] = transfer

(* Bytes of a message that was handed over are never part of another one:  *)
(* everything below expectedOffset was written since, in any case.         *)
NothingTwice ==
  \A i \in Positions : i < expectedOffset => i \in fresh

(* Whatever was lost or repeated, a message that fits the buffer can still *)
(* be completed: the offset the device waits for (ble_utils.go:133) is one *)
(* of the client's message, and a packet there is not refused (:125),      *)
(* unless a transfer before it was given up half-way.  A message longer    *)
(* than the buffer is promised nothing.                                    *)
Resumable ==
  handler.at = "idle" /\ ~leftover /\ length <= MaxBytes =>
    expectedOffset \in Positions /\ expectedOffset < length

(* The last offset notified to a subscriber is the one to resume at, once  *)
(* the reader has caught up with a packet that did not complete a message  *)
(* (ble_utils.go:146-148), unless offsetReqChan was crossed.               *)
CaughtUp(s) == reader[s].at = "receive" /\ channel[s] = <<>>

ToldWhereToResume ==
  handler.at = "idle" /\ ~crossed /\ subscription # 0 /\ answered = "more"
    /\ CaughtUp(subscription) => told = expectedOffset

(* A handler always returns, so the GATT server can serve the next         *)
(* request: there is a reader for every offset sent (ble_utils.go:86, 139, *)
(* 147), unless offsetReqChan was crossed.                                 *)
HandlerReturns == handler.at # "idle" ~> handler.at = "idle" \/ crossed
=============================================================================

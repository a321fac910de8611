------------------------- MODULE MultiWritableProofs -------------------------
(***************************************************************************)
(* What MultiWritable guarantees for buffers, packets, messages and        *)
(* subscriptions of any size and number.                                   *)
(***************************************************************************)
EXTENDS MultiWritable, TLAPS

(* The packet fits into what an offset can say: no answer of the write     *)
(* handler is out of range, and none but the completing one is Whole       *)
(* (ble_utils.go:121-148).                                                 *)
LEMMA AnswerType ==
  ASSUME TypeOK, NEW answer \in Offsets \cup {Whole}, Answers(answer)
  PROVE  /\ handler' \in [at : {"idle", "offering", "sending", "completing"},
                          opens : 0 .. MaxSubs, offset : Offsets \cup {Whole},
                          target : 0 .. MaxSubs]
         /\ answered' \in {"nothing", "more", "whole"}
  <1>1. 0 \in Offsets /\ 0 \in 0 .. MaxSubs
    BY MultiWritableAssumption DEF Offsets
  <1> QED BY <1>1 DEF Answers, Idle

(* What a packet does to the buffer (ble_utils.go:130-135).                *)
LEMMA ReceiveType ==
  ASSUME TypeOK, NEW offset \in Nat, NEW size \in 1 .. MaxChunk, NEW final,
         Receive(offset, size, final)
  PROVE  /\ bytesWritten' \in [Positions -> 0 .. MaxTransfers]
         /\ expectedOffset' \in Offsets /\ fresh' \subseteq Positions
         /\ handler' \in [at : {"idle", "offering", "sending", "completing"},
                          opens : 0 .. MaxSubs, offset : Offsets \cup {Whole},
                          target : 0 .. MaxSubs]
         /\ answered' \in {"nothing", "more", "whole"}
  <1>1. CASE offset >= MaxBytes
    BY <1>1 DEF Receive, bufferVars, TypeOK
  <1>2. CASE ~(offset >= MaxBytes)
    <2>1. offset + size \in Offsets
      BY <1>2, MultiWritableAssumption DEF Offsets
    <2>2. Copy(offset, size) /\ expectedOffset' = Advance(offset, size)
      BY <1>2 DEF Receive
    <2>3. expectedOffset' \in Offsets
      BY <2>1, <2>2 DEF Advance, TypeOK
    <2>4. bytesWritten' \in [Positions -> 0 .. MaxTransfers] /\ fresh' \subseteq Positions
      BY <2>2 DEF Copy, TypeOK, Transfers
    <2>5. PICK answer \in Offsets \cup {Whole} : Answers(answer)
      BY <1>2, <2>3 DEF Receive
    <2> QED BY <2>3, <2>4, <2>5, AnswerType
  <1> QED BY <1>1, <1>2

(* What a channel says of a message that is complete is not notified.      *)
NeverNotifiesWhole ==
  \A s \in Subs : reader[s].at = "notify" => reader[s].offset \in Offsets

TypeInv == TypeOK /\ NeverNotifiesWhole

ReaderType == [at : {"none", "check", "load", "receive", "notify", "exit", "ended"},
               target : 0 .. MaxSubs, offset : Offsets \cup {Whole}]

(* A step of a reader (ble_utils.go:89-104).                               *)
LEMMA ReaderStepType ==
  ASSUME TypeInv, NEW s \in Subs, ReaderSteps(s) PROVE TypeInv'
<1> USE DEF ReaderGoes, ReaderOnly, bufferVars, clientVars, TypeInv, TypeOK,
            NeverNotifiesWhole
<1>0. 0 \in Offsets /\ 0 \in 0 .. MaxSubs
  BY MultiWritableAssumption DEF Offsets
<1>1. CASE ReaderChecks(s)
  BY <1>0, <1>1 DEF ReaderChecks
<1>2. CASE ReaderLoads(s)
  BY <1>0, <1>2 DEF ReaderLoads
<1>3. CASE ReaderReceives(s)
  <2> DEFINE c == reader[s].target
  <2>1. c \in Subs /\ channel[c] # <<>>
    BY <1>3, MultiWritableAssumption DEF ReaderReceives, Subs
  <2>2. PICK o \in Offsets \cup {Whole} : channel[c] = <<o>>
    BY <2>1
  <2>3. Head(channel[c]) = o
    BY <2>2
  <2>4. channel' = [channel EXCEPT ![c] = <<>>]
    BY <1>3 DEF ReaderReceives
  <2>5. channel' \in [Subs -> {<<>>} \cup {<<x>> : x \in Offsets \cup {Whole}}]
    BY <2>4
  <2>6. CASE o = Whole
    <3>1. reader' = [reader EXCEPT ![s] = [at |-> "check", target |-> 0, offset |-> 0]]
      BY <1>3, <2>3, <2>6 DEF ReaderReceives
    <3> QED BY <1>0, <1>3, <2>5, <3>1 DEF ReaderReceives
  <2>7. CASE o # Whole
    <3>1. reader' = [reader EXCEPT ![s] = [at |-> "notify", target |-> 0, offset |-> o]]
      BY <1>3, <2>3, <2>7 DEF ReaderReceives
    <3>2. o \in Offsets
      BY <2>7
    <3> QED BY <1>0, <1>3, <2>5, <3>1, <3>2 DEF ReaderReceives
  <2> QED BY <2>6, <2>7
<1>4. CASE ReaderNotifies(s)
  BY <1>0, <1>4 DEF ReaderNotifies
<1>5. CASE ReaderExits(s)
  BY <1>0, <1>5 DEF ReaderExits
<1> QED BY <1>1, <1>2, <1>3, <1>4, <1>5 DEF ReaderSteps

(* A step of a handler after it has answered (ble_utils.go:86, 137-149).   *)
LEMMA HandlerType ==
  ASSUME TypeInv, HandlerSteps PROVE TypeInv'
<1> USE DEF TypeInv, TypeOK, NeverNotifiesWhole
<1>0. 0 \in Offsets /\ 0 \in 0 .. MaxSubs
  BY MultiWritableAssumption DEF Offsets
<1>1. CASE HandlerLoads
  BY <1>1 DEF HandlerLoads, bufferVars, noteVars, clientVars
<1>2. CASE HandlerSends
  <2>1. handler.target \in Subs /\ handler.offset \in Offsets \cup {Whole}
    BY <1>2, MultiWritableAssumption DEF HandlerSends, Subs
  <2>2. channel' \in [Subs -> {<<>>} \cup {<<o>> : o \in Offsets \cup {Whole}}]
    BY <1>2, <2>1 DEF HandlerSends
  <2>3. reader' \in [Subs -> ReaderType] /\ NeverNotifiesWhole'
    <3>1. CASE handler.opens = 0
      BY <1>2, <3>1 DEF HandlerSends, ReaderType
    <3>2. CASE handler.opens # 0
      <4>1. handler.opens \in Subs
        BY <3>2, MultiWritableAssumption DEF Subs
      <4>2. reader' = [reader EXCEPT ![handler.opens].at = "check"]
        BY <1>2, <3>2 DEF HandlerSends
      <4> DEFINE k == handler.opens
      <4> DEFINE r == [reader[k] EXCEPT !.at = "check"]
      <4>3. reader \in [Subs -> ReaderType]
        BY DEF ReaderType
      <4>4. reader[k] \in ReaderType
        BY <4>1, <4>3
      <4>5. r \in ReaderType /\ r.at = "check"
        BY <4>4 DEF ReaderType
      <4>6. reader' = [reader EXCEPT ![k] = r]
        BY <4>2
      <4> HIDE DEF k, r, ReaderType
      <4>7. reader' \in [Subs -> ReaderType]
        BY ONLY <4>3, <4>5, <4>6
      <4>8. NeverNotifiesWhole'
        BY <4>3, <4>5, <4>6
      <4> QED BY <4>7, <4>8
    <3> QED BY <3>1, <3>2
  <2> QED BY <1>0, <1>2, <2>2, <2>3 DEF HandlerSends, Idle, bufferVars, clientVars, ReaderType
<1>3. CASE Completes
  BY <1>0, <1>3 DEF Completes, Idle, noteVars
<1>4. CASE Panics
  <2>1. channel' \in [Subs -> {<<>>} \cup {<<o>> : o \in Offsets \cup {Whole}}]
    BY <1>4 DEF Panics
  <2>2. reader' \in [Subs -> ReaderType] /\ NeverNotifiesWhole'
    BY <1>0, <1>4 DEF Panics, NoReader, ReaderType
  <2>3. bytesWritten' \in [Positions -> 0 .. MaxTransfers]
    BY <1>4, MultiWritableAssumption DEF Panics
  <2> QED BY <1>0, <1>4, <2>1, <2>2, <2>3 DEF Panics, Idle, ReaderType
<1> QED BY <1>1, <1>2, <1>3, <1>4 DEF HandlerSteps

(* Types hold in every state, with any bounds; TypeOK needs that a reader  *)
(* about to notify has an offset in hand.                                  *)
LEMMA TypeInvInductive ==
  (Init => TypeInv) /\ (TypeInv /\ [Next]_vars => TypeInv')
<1>0. 0 \in Offsets /\ 0 \in 0 .. MaxSubs /\ 1 \in Transfers /\ 0 \in 0 .. MaxTransfers
  BY MultiWritableAssumption DEF Offsets, Transfers
<1>1. Init => TypeInv
  <2> SUFFICES ASSUME Init PROVE TypeInv OBVIOUS
  <2>1. channel \in [Subs -> {<<>>} \cup {<<o>> : o \in Offsets \cup {Whole}}]
    BY DEF Init
  <2>2. reader \in [Subs -> ReaderType] /\ NeverNotifiesWhole
    BY <1>0 DEF Init, NoReader, ReaderType, NeverNotifiesWhole
  <2>3. bytesWritten \in [Positions -> 0 .. MaxTransfers]
    BY <1>0 DEF Init
  <2> QED BY <1>0, <2>1, <2>2, <2>3 DEF Init, TypeInv, TypeOK, Idle, ReaderType
<1>2. ASSUME TypeInv, [Next]_vars PROVE TypeInv'
  <2> USE DEF TypeInv, TypeOK, NeverNotifiesWhole
  <2>1. CASE HandlerSteps
    BY <2>1, <1>2, HandlerType
  <2>2. ASSUME NEW s \in Subs, ReaderSteps(s) PROVE TypeInv'
    BY <2>2, <1>2, ReaderStepType
  <2>3. ASSUME NEW s \in Subs, Subscribes(s) PROVE TypeInv'
    BY <1>0, <1>2, <2>3, MultiWritableAssumption
    DEF Subscribes, bufferVars, clientVars, Subs
  <2>4. CASE Unsubscribes
    BY <1>0, <1>2, <2>4 DEF Unsubscribes, bufferVars, noteVars, clientVars
  <2>5. ASSUME NEW offset \in 0 .. length - 1, NEW size \in 1 .. MaxChunk,
               ClientSends(offset, size)
        PROVE  TypeInv'
    BY <1>2, <2>5, ReceiveType DEF ClientSends, noteVars, clientVars
  <2>6. ASSUME NEW n \in Lengths, NextMessage(n) PROVE TypeInv'
    BY <1>2, <2>6, MultiWritableAssumption DEF NextMessage, bufferVars, noteVars, Transfers
  <2>7. CASE UNCHANGED vars
    BY <1>2, <2>7 DEF vars, bufferVars, noteVars, clientVars
  <2> QED BY <1>2, <2>1, <2>2, <2>3, <2>4, <2>5, <2>6, <2>7 DEF Next
<1> QED BY <1>1, <1>2

(* The types of MultiWritable, for buffers and packets of any size.        *)
THEOREM TypeCorrect == Spec => []TypeOK
<1>1. TypeInv => TypeOK
  BY DEF TypeInv
<1> QED BY <1>1, TypeInvInductive, PTL DEF Spec

-----------------------------------------------------------------------------
(* Everything below expectedOffset is the present client's, unless a       *)
(* transfer was given up half-way and none has been completed since.       *)
OwnPrefix ==
  ~leftover => \A i \in Positions : i < expectedOffset => bytesWritten[i] = transfer

(* How far the message is, by what the handler is about to answer: only    *)
(* its last byte makes the answer Whole.                                   *)
Completing ==
  \/ handler.at = "completing"
  \/ handler.at \in {"offering", "sending"} /\ handler.offset = Whole

Progress ==
  ~leftover => IF Completing THEN expectedOffset = length ELSE expectedOffset < length

(* The inductive invariant.                                                *)
BufferInv == TypeInv /\ OwnPrefix /\ Progress /\ NothingTwice

(* A packet keeps it: it moves expectedOffset only when it starts there,   *)
(* and it is final only when it ends where the message does                *)
(* (ble_utils.go:130-137).                                                 *)
LEMMA ReceiveKeepsInv ==
  ASSUME BufferInv, NEW offset \in 0 .. length - 1, NEW size \in 1 .. MaxChunk,
         ClientSends(offset, size)
  PROVE  OwnPrefix' /\ Progress' /\ NothingTwice'
<1>0. /\ expectedOffset \in Nat /\ length \in Nat \ {0} /\ handler.at = "idle"
      /\ UNCHANGED <<transfer, length, leftover>> /\ MaxBytes \in Nat /\ MaxChunk \in Nat
      /\ bytesWritten \in [Positions -> 0 .. MaxTransfers]
  BY MultiWritableAssumption
  DEF BufferInv, TypeInv, TypeOK, Offsets, ClientSends, clientVars
<1>1. CASE offset >= MaxBytes
  BY <1>0, <1>1 DEF BufferInv, OwnPrefix, Progress, Completing, NothingTwice, ClientSends, Receive, bufferVars
<1>2. CASE ~(offset >= MaxBytes)
  <2> DEFINE final == offset + size = length
             answer == IF final /\ expectedOffset' = offset + size THEN Whole
                       ELSE expectedOffset'
  <2>1. /\ Copy(offset, size) /\ expectedOffset' = Advance(offset, size)
        /\ Answers(answer) /\ offset + size <= length
    BY <1>2 DEF ClientSends, Receive
  <2>2. expectedOffset' \in Nat /\ expectedOffset' < Whole
    BY <1>0, <1>2, <2>1, MultiWritableAssumption
    DEF Advance, Whole, BufferInv, TypeInv, TypeOK, Offsets
  <2>3. OwnPrefix'
    BY <1>0, <2>1 DEF BufferInv, OwnPrefix, Copy, Advance, Positions
  <2>4. NothingTwice'
    BY <1>0, <2>1 DEF BufferInv, NothingTwice, Copy, Advance, Positions
  <2>5. ASSUME ~leftover
        PROVE  IF answer = Whole THEN expectedOffset' = length ELSE expectedOffset' < length
    <3>1. expectedOffset < length
      BY <1>0, <2>5 DEF BufferInv, Progress, Completing
    <3> QED BY <1>0, <2>1, <2>2, <3>1 DEF Advance
  <2>6. Progress'
    <3>1. \/ handler'.at = "offering" /\ handler'.offset = answer
          \/ handler'.at = "completing" /\ answer = Whole
          \/ handler'.at = "idle" /\ answer # Whole
      BY <2>1 DEF Answers, Idle
    <3> HIDE DEF answer
    <3>2. SUFFICES ASSUME ~leftover
                   PROVE  IF Completing' THEN expectedOffset' = length
                          ELSE expectedOffset' < length
      BY <1>0 DEF Progress
    <3>3. IF answer = Whole THEN expectedOffset' = length ELSE expectedOffset' < length
      BY <2>5, <3>2
    <3> QED BY <3>1, <3>3 DEF Completing
  <2> QED BY <2>3, <2>4, <2>6
<1> QED BY <1>1, <1>2

(* Every step keeps it.                                                    *)
LEMMA BufferInvInductive ==
  (Init => BufferInv) /\ (BufferInv /\ [Next]_vars => BufferInv')
<1>1. Init => BufferInv
  <2> SUFFICES ASSUME Init PROVE BufferInv OBVIOUS
  <2>1. TypeInv
    BY TypeInvInductive
  <2>2. OwnPrefix /\ NothingTwice
    BY MultiWritableAssumption DEF Init, OwnPrefix, NothingTwice, Positions
  <2>3. Progress
    BY MultiWritableAssumption DEF Init, Progress, Completing, Idle
  <2> QED BY <2>1, <2>2, <2>3 DEF BufferInv
<1>2. ASSUME BufferInv, [Next]_vars PROVE BufferInv'
  <2>0. TypeInv' /\ TypeInv
    BY <1>2, TypeInvInductive DEF BufferInv
  <2>1. expectedOffset \in Nat /\ length \in Nat \ {0} /\ 0 # Whole
    BY <2>0, MultiWritableAssumption DEF TypeInv, TypeOK, Offsets, Whole
  <2> USE DEF BufferInv, OwnPrefix, Progress, Completing, NothingTwice
  <2>2. CASE HandlerLoads
    BY <1>2, <2>0, <2>2 DEF HandlerLoads, bufferVars, clientVars
  <2>3. CASE HandlerSends
    <3>1. /\ UNCHANGED <<bytesWritten, expectedOffset, fresh, transfer, length, leftover>>
          /\ handler.at = "sending"
          /\ handler' = IF handler.offset = Whole THEN [Idle EXCEPT !.at = "completing"]
                        ELSE Idle
      BY <2>3 DEF HandlerSends, bufferVars, clientVars
    <3>2. CASE handler.offset = Whole
      <4>1. handler'.at = "completing"
        BY <3>1, <3>2 DEF Idle
      <4> QED BY <1>2, <2>0, <3>1, <3>2, <4>1
    <3>3. CASE handler.offset # Whole
      <4>1. handler'.at = "idle"
        BY <3>1, <3>3 DEF Idle
      <4> QED BY <1>2, <2>0, <3>1, <3>3, <4>1
    <3> QED BY <3>2, <3>3
  <2>4. CASE Completes
    BY <1>2, <2>0, <2>1, <2>4 DEF Completes, Idle, Positions
  <2>5. CASE Panics
    BY <1>2, <2>0, <2>1, <2>5 DEF Panics, Idle, Positions
  <2>6. ASSUME NEW s \in Subs, ReaderSteps(s) PROVE BufferInv'
    BY <1>2, <2>0, <2>6
    DEF ReaderSteps, ReaderChecks, ReaderLoads, ReaderReceives, ReaderNotifies, ReaderExits,
        ReaderOnly, bufferVars, clientVars
  <2>7. ASSUME NEW s \in Subs, Subscribes(s) PROVE BufferInv'
    BY <1>2, <2>0, <2>1, <2>7 DEF Subscribes, bufferVars, clientVars
  <2>8. CASE Unsubscribes
    BY <1>2, <2>0, <2>8 DEF Unsubscribes, bufferVars, clientVars
  <2>9. ASSUME NEW offset \in 0 .. length - 1, NEW size \in 1 .. MaxChunk,
               ClientSends(offset, size)
        PROVE  BufferInv'
    BY <1>2, <2>0, <2>9, ReceiveKeepsInv
  <2>10. ASSUME NEW n \in Lengths, NextMessage(n) PROVE BufferInv'
    <3>1. /\ UNCHANGED <<bytesWritten, expectedOffset, fresh, handler>>
          /\ handler.at = "idle" /\ length' = n /\ n \in Nat \ {0}
          /\ leftover' = (leftover \/ expectedOffset # 0)
      BY <2>10, MultiWritableAssumption DEF NextMessage, bufferVars
    <3>2. NothingTwice'
      BY <1>2, <3>1
    <3>3. ~leftover' => expectedOffset = 0
      BY <3>1
    <3>4. OwnPrefix'
      BY <2>1, <3>1, <3>3, MultiWritableAssumption DEF Positions
    <3>5. Progress'
      BY <2>1, <3>1, <3>3
    <3> QED BY <2>0, <3>2, <3>4, <3>5
  <2>11. CASE UNCHANGED vars
    BY <1>2, <2>0, <2>11 DEF vars, bufferVars, clientVars
  <2> QED BY <1>2, <2>2, <2>3, <2>4, <2>5, <2>6, <2>7, <2>8, <2>9, <2>10, <2>11
      DEF Next, HandlerSteps
<1> QED BY <1>1, <1>2

(* For messages, packets and buffers of any size: a message is handed over *)
(* whole and unmixed, unless a transfer was given up before it.            *)
THEOREM MessagesIntact == Spec => []Intact
<1>1. ASSUME BufferInv, handler.at = "completing", ~leftover, expectedOffset <= MaxBytes
      PROVE  /\ expectedOffset = length
             /\ \A i \in 0 .. expectedOffset - 1 : bytesWritten[i] = transfer
  <2>1. expectedOffset = length
    BY <1>1 DEF BufferInv, Progress, Completing
  <2>2. 0 .. expectedOffset - 1 \subseteq Positions /\ expectedOffset \in Nat
    BY <1>1, MultiWritableAssumption DEF BufferInv, TypeInv, TypeOK, Offsets, Positions
  <2>3. \A i \in 0 .. expectedOffset - 1 : i < expectedOffset
    BY <2>2
  <2> QED BY <1>1, <2>1, <2>2, <2>3 DEF BufferInv, OwnPrefix
<1>2. BufferInv => Intact
  BY <1>1 DEF Intact
<1> QED BY <1>2, BufferInvInductive, PTL DEF Spec

(* No byte of a message that was handed over is part of another, in any    *)
(* case.                                                                   *)
THEOREM BytesUsedOnce == Spec => []NothingTwice
<1>1. BufferInv => NothingTwice
  BY DEF BufferInv
<1> QED BY <1>1, BufferInvInductive, PTL DEF Spec

(* The device always waits for a byte that the client's message has and a  *)
(* packet may start at, if the message fits the buffer and no transfer     *)
(* before it was given up.                                                 *)
THEOREM AlwaysResumable == Spec => []Resumable
<1>1. BufferInv => Resumable
  <2> SUFFICES ASSUME BufferInv, handler.at = "idle", ~leftover, length <= MaxBytes
               PROVE  expectedOffset \in Positions /\ expectedOffset < length
    BY DEF Resumable
  <2>1. expectedOffset < length
    BY DEF BufferInv, Progress, Completing
  <2>2. expectedOffset \in Nat /\ length \in Nat
    BY MultiWritableAssumption DEF BufferInv, TypeInv, TypeOK, Offsets
  <2> QED BY <2>1, <2>2, MultiWritableAssumption DEF Positions
<1> QED BY <1>1, BufferInvInductive, PTL DEF Spec
-----------------------------------------------------------------------------
(* The offset a subscriber will have been told once all that is under way  *)
(* to it has arrived: a handler's, then its channel's, then its reader's.  *)
Latest(s) ==
  IF handler.at \in {"offering", "sending"} THEN handler.offset
  ELSE IF channel[s] # <<>> THEN Head(channel[s])
  ELSE IF reader[s].at = "notify" THEN reader[s].offset ELSE told

(* The handlers write to, and every reader reads from, the channel its     *)
(* subscription made.                                                      *)
ChannelsKept ==
  ~crossed =>
    /\ subscription # 0 =>
         /\ offsetReqChan = subscription
         /\ handler.at = "sending" => handler.target = subscription
    /\ \A r \in Subs : reader[r].at = "receive" => reader[r].target = r

(* The subscription in force has its reader, and no packet was answered    *)
(* before it had.                                                          *)
ReaderServes ==
  /\ subscription # 0 => reader[subscription].at \notin {"exit", "ended"}
  /\ handler.opens # 0 => answered = "nothing"

(* Why what was told is right in the end: the last of what is under way is *)
(* the offset expected now.                                                *)
LatestIsCurrent ==
  ~crossed /\ subscription # 0 /\ answered = "more" =>
    handler.at # "completing" /\ Latest(subscription) = expectedOffset

(* The inductive invariant.                                                *)
ToldInv == TypeInv /\ ChannelsKept /\ ReaderServes /\ LatestIsCurrent

(* The types the proof below uses.                                         *)
LEMMA ToldTypes ==
  ASSUME TypeInv
  PROVE  /\ expectedOffset \in Offsets /\ Whole \notin Offsets
         /\ subscription # 0 => subscription \in Subs
         /\ offsetReqChan # 0 => offsetReqChan \in Subs
         /\ handler.target # 0 => handler.target \in Subs
         /\ handler.opens # 0 => handler.opens \in Subs
         /\ 0 \notin Subs
<1>1. expectedOffset \in Offsets
  BY DEF TypeInv, TypeOK
<1>2. Whole \notin Offsets
  BY MultiWritableAssumption DEF Whole, Offsets
<1>3. \A n \in 0 .. MaxSubs : n # 0 => n \in Subs
  BY MultiWritableAssumption DEF Subs
<1>4. /\ subscription \in 0 .. MaxSubs /\ offsetReqChan \in 0 .. MaxSubs
      /\ handler.target \in 0 .. MaxSubs /\ handler.opens \in 0 .. MaxSubs
  BY DEF TypeInv, TypeOK
<1>5. 0 \notin Subs
  BY DEF Subs
<1> QED BY <1>1, <1>2, <1>3, <1>4, <1>5

(* What is left alone by a step of one reader.                             *)
LEMMA ReaderMoves ==
  ASSUME TypeInv, NEW s \in Subs, NEW at, NEW target, NEW offset,
         ReaderGoes(s, at, target, offset)
  PROVE  /\ reader'[s].at = at /\ reader'[s].target = target /\ reader'[s].offset = offset
         /\ \A r \in Subs : r # s => reader'[r] = reader[r]
BY DEF ReaderGoes, TypeInv, TypeOK

(* A step of a handler (ble_utils.go:86, 137-149): what it sends moves     *)
(* from the handler to the channel.                                        *)
LEMMA HandlerTells ==
  ASSUME ToldInv, HandlerSteps
  PROVE  ChannelsKept' /\ ReaderServes' /\ LatestIsCurrent'
<1>0. TypeInv
  BY DEF ToldInv
<1>1. CASE HandlerLoads
  <2>1. /\ handler.at = "offering" /\ handler'.at = "sending"
        /\ handler'.target = offsetReqChan /\ handler'.offset = handler.offset
        /\ handler'.opens = handler.opens
    BY <1>0, <1>1 DEF HandlerLoads, TypeInv, TypeOK
  <2>2. UNCHANGED <<expectedOffset, offsetReqChan, channel, reader, crossed, told, subscription, answered>>
    BY <1>1 DEF HandlerLoads, bufferVars, noteVars
  <2> QED BY <2>1, <2>2 DEF ToldInv, ChannelsKept, ReaderServes, LatestIsCurrent, Latest
<1>2. CASE HandlerSends
  <2>1. /\ handler.at = "sending" /\ handler.target \in Subs /\ channel[handler.target] = <<>>
        /\ UNCHANGED <<expectedOffset, offsetReqChan, crossed, told, subscription, answered>>
    BY <1>0, <1>2, ToldTypes DEF HandlerSends, bufferVars
  <2>2. channel'[handler.target] = <<handler.offset>>
    BY <1>0, <1>2, <2>1 DEF HandlerSends, TypeInv, TypeOK
  <2>3. /\ handler'.at = IF handler.offset = Whole THEN "completing" ELSE "idle"
        /\ handler'.opens = 0
    BY <1>2 DEF HandlerSends, Idle
  <2>4. \A r \in Subs : reader'[r] = reader[r] \/ reader'[r].at = "check"
    BY <1>0, <1>2, ToldTypes DEF HandlerSends, TypeInv, TypeOK
  <2>5. ChannelsKept' /\ ReaderServes'
    BY <1>0, <2>1, <2>3, <2>4, ToldTypes DEF ToldInv, ChannelsKept, ReaderServes
  <2>6. LatestIsCurrent'
    <3> SUFFICES ASSUME ~crossed, subscription # 0, answered = "more"
                 PROVE  handler'.at # "completing" /\ Latest(subscription)' = expectedOffset
      BY <2>1 DEF LatestIsCurrent
    <3>1. handler.target = subscription /\ handler.offset = expectedOffset
      BY <2>1 DEF ToldInv, ChannelsKept, LatestIsCurrent, Latest
    <3>2. handler'.at = "idle"
      BY <1>0, <2>3, <3>1, ToldTypes
    <3>3. channel'[subscription] = <<expectedOffset>>
      BY <2>2, <3>1
    <3>4. subscription' = subscription
      BY <2>1
    <3> QED BY <3>2, <3>3, <3>4 DEF Latest
  <2> QED BY <2>5, <2>6
<1>3. CASE Completes
  <2>1. /\ handler.at = "completing" /\ handler'.at = "idle" /\ handler'.opens = 0
        /\ UNCHANGED <<offsetReqChan, reader, crossed, subscription, answered>>
    BY <1>3 DEF Completes, Idle, noteVars
  <2> QED BY <2>1 DEF ToldInv, ChannelsKept, ReaderServes, LatestIsCurrent
<1>4. CASE Panics
  <2>1. /\ handler'.opens = 0 /\ subscription' = 0
        /\ \A r \in Subs : reader'[r].at \in {"none", "ended"}
    BY <1>4 DEF Panics, Idle, NoReader
  <2> QED BY <2>1 DEF ChannelsKept, ReaderServes, LatestIsCurrent
<1> QED BY <1>1, <1>2, <1>3, <1>4 DEF HandlerSteps

(* A step of a reader (ble_utils.go:89-104): what it takes off its channel *)
(* it notifies next, before it looks at the channel again.                 *)
LEMMA ReaderTells ==
  ASSUME ToldInv, NEW s \in Subs, ReaderSteps(s)
  PROVE  ChannelsKept' /\ ReaderServes' /\ LatestIsCurrent'
<1>0. TypeInv
  BY DEF ToldInv
<1> USE DEF ReaderOnly, bufferVars
<1>1. CASE ReaderChecks(s)
  <2>1. /\ reader[s].at = "check" /\ reader'[s].at = (IF subscription = s THEN "load" ELSE "exit")
        /\ \A r \in Subs : r # s => reader'[r] = reader[r]
        /\ UNCHANGED <<expectedOffset, offsetReqChan, channel, crossed, told, handler, subscription, answered>>
    <3>1. ReaderGoes(s, IF subscription = s THEN "load" ELSE "exit", 0, 0)
      BY <1>1 DEF ReaderChecks
    <3> QED BY <1>0, <1>1, <3>1, ReaderMoves DEF ReaderChecks
  <2> QED BY <1>0, <2>1, ToldTypes DEF ToldInv, ChannelsKept, ReaderServes, LatestIsCurrent, Latest
<1>2. CASE ReaderLoads(s)
  <2>1. /\ reader[s].at = "load" /\ reader'[s].at = "receive" /\ reader'[s].target = offsetReqChan
        /\ \A r \in Subs : r # s => reader'[r] = reader[r]
        /\ crossed' = (crossed \/ offsetReqChan # s)
        /\ UNCHANGED <<expectedOffset, offsetReqChan, channel, told, handler, subscription, answered>>
    <3>1. ReaderGoes(s, "receive", offsetReqChan, 0)
      BY <1>2 DEF ReaderLoads
    <3> QED BY <1>0, <1>2, <3>1, ReaderMoves DEF ReaderLoads
  <2> QED BY <1>0, <2>1, ToldTypes DEF ToldInv, ChannelsKept, ReaderServes, LatestIsCurrent, Latest
<1>3. CASE ReaderReceives(s)
  <2> DEFINE c == reader[s].target
  <2>1. /\ reader[s].at = "receive" /\ c # 0 /\ channel[c] # <<>>
        /\ channel' = [channel EXCEPT ![c] = <<>>]
        /\ UNCHANGED <<expectedOffset, offsetReqChan, crossed, told, handler, subscription, answered>>
    BY <1>3 DEF ReaderReceives
  <2>2. c \in Subs
    BY <1>0, <2>1, MultiWritableAssumption DEF TypeInv, TypeOK, Subs
  <2>3. channel'[c] = <<>> /\ \A r \in Subs : r # c => channel'[r] = channel[r]
    BY <1>0, <2>1, <2>2 DEF TypeInv, TypeOK
  <2>4. /\ \A r \in Subs : r # s => reader'[r] = reader[r]
        /\ reader'[s].at \in {"check", "notify"}
        /\ Head(channel[c]) # Whole =>
             reader'[s].at = "notify" /\ reader'[s].offset = Head(channel[c])
    <3>1. CASE Head(channel[c]) = Whole
      <4>1. ReaderGoes(s, "check", 0, 0)
        BY <1>3, <3>1 DEF ReaderReceives
      <4> QED BY <1>0, <3>1, <4>1, ReaderMoves
    <3>2. CASE Head(channel[c]) # Whole
      <4>1. ReaderGoes(s, "notify", 0, Head(channel[c]))
        BY <1>3, <3>2 DEF ReaderReceives
      <4> QED BY <1>0, <4>1, ReaderMoves
    <3> QED BY <3>1, <3>2
  <2> HIDE DEF c
  <2>5. ChannelsKept' /\ ReaderServes'
    BY <1>0, <2>1, <2>4, ToldTypes DEF ToldInv, ChannelsKept, ReaderServes
  <2>6. LatestIsCurrent'
    <3> SUFFICES ASSUME ~crossed, subscription # 0, answered = "more"
                 PROVE  handler'.at # "completing" /\ Latest(subscription)' = expectedOffset
      BY <2>1 DEF LatestIsCurrent
    <3>1. /\ handler.at # "completing" /\ Latest(subscription) = expectedOffset
          /\ subscription \in Subs /\ c = s
      BY <1>0, <2>1, ToldTypes DEF ToldInv, LatestIsCurrent, ChannelsKept, c
    <3>2. CASE subscription # s
      <4>1. channel'[subscription] = channel[subscription] /\ reader'[subscription] = reader[subscription]
        BY <2>3, <2>4, <3>1, <3>2
      <4> QED BY <2>1, <3>1, <4>1 DEF Latest
    <3>3. CASE subscription = s /\ handler.at \in {"offering", "sending"}
      BY <2>1, <3>1, <3>3 DEF Latest
    <3>4. CASE subscription = s /\ handler.at \notin {"offering", "sending"}
      <4>1. Head(channel[c]) = expectedOffset
        BY <2>1, <3>1, <3>4 DEF Latest
      <4>2. reader'[s].at = "notify" /\ reader'[s].offset = expectedOffset
        BY <1>0, <2>4, <4>1, ToldTypes
      <4> QED BY <2>1, <2>3, <3>1, <3>4, <4>2 DEF Latest
    <3> QED BY <3>2, <3>3, <3>4
  <2> QED BY <2>5, <2>6
<1>4. CASE ReaderNotifies(s)
  <2>1. /\ reader[s].at = "notify" /\ reader'[s].at = "check"
        /\ \A r \in Subs : r # s => reader'[r] = reader[r]
        /\ told' = (IF subscription = s THEN reader[s].offset ELSE told)
        /\ UNCHANGED <<expectedOffset, offsetReqChan, channel, crossed, handler, subscription, answered>>
    <3>1. ReaderGoes(s, "check", 0, 0)
      BY <1>4 DEF ReaderNotifies
    <3> QED BY <1>0, <1>4, <3>1, ReaderMoves DEF ReaderNotifies
  <2>2. ChannelsKept' /\ ReaderServes'
    BY <1>0, <2>1, ToldTypes DEF ToldInv, ChannelsKept, ReaderServes
  <2>3. LatestIsCurrent'
    BY <1>0, <2>1, ToldTypes DEF ToldInv, LatestIsCurrent, Latest
  <2> QED BY <2>2, <2>3
<1>5. CASE ReaderExits(s)
  <2>1. /\ reader[s].at = "exit" /\ offsetReqChan' = 0 /\ reader'[s].at = "ended"
        /\ \A r \in Subs : r # s => reader'[r] = reader[r]
        /\ crossed' = (crossed \/ offsetReqChan # s \/ handler.at # "idle")
        /\ UNCHANGED <<expectedOffset, channel, told, handler, subscription, answered>>
    <3>1. ReaderGoes(s, "ended", 0, 0)
      BY <1>5 DEF ReaderExits
    <3> QED BY <1>0, <1>5, <3>1, ReaderMoves DEF ReaderExits
  <2>2. subscription # s
    BY <1>0, <2>1, ToldTypes DEF ToldInv, ReaderServes
  <2>3. ~crossed' => subscription = 0
    BY <2>1, <2>2 DEF ToldInv, ChannelsKept
  <2> QED BY <1>0, <2>1, <2>2, <2>3, ToldTypes DEF ToldInv, ChannelsKept, ReaderServes, LatestIsCurrent
<1> QED BY <1>1, <1>2, <1>3, <1>4, <1>5 DEF ReaderSteps

(* A packet: its answer is the latest from the moment it is given          *)
(* (ble_utils.go:137-148).                                                 *)
LEMMA PacketTells ==
  ASSUME ToldInv, NEW offset \in 0 .. length - 1, NEW size \in 1 .. MaxChunk,
         ClientSends(offset, size)
  PROVE  ChannelsKept' /\ ReaderServes' /\ LatestIsCurrent'
<1>1. /\ handler.at = "idle" /\ Receive(offset, size, offset + size = length)
      /\ UNCHANGED <<offsetReqChan, channel, reader, crossed, told, subscription>>
  BY DEF ClientSends, noteVars
<1>2. CASE offset >= MaxBytes
  <2>1. UNCHANGED <<expectedOffset, handler, answered>>
    BY <1>1, <1>2 DEF Receive, bufferVars
  <2> QED BY <1>1, <2>1 DEF ToldInv, ChannelsKept, ReaderServes, LatestIsCurrent, Latest
<1>3. CASE ~(offset >= MaxBytes)
  <2>1. PICK answer : Answers(answer) /\ answer \in {Whole, expectedOffset'}
    BY <1>1, <1>3 DEF Receive
  <2>2. handler'.opens = 0 /\ handler'.at # "sending"
    BY <2>1 DEF Answers, Idle
  <2>3. ChannelsKept' /\ ReaderServes'
    BY <1>1, <2>2 DEF ToldInv, ChannelsKept, ReaderServes
  <2>4. LatestIsCurrent'
    <3> SUFFICES ASSUME ~crossed, subscription # 0, answered' = "more"
                 PROVE  handler'.at # "completing" /\ Latest(subscription)' = expectedOffset'
      BY <1>1 DEF LatestIsCurrent
    <3>1. answer # Whole /\ offsetReqChan # 0
      BY <2>1 DEF Answers, ToldInv, ChannelsKept
    <3>2. handler'.at = "offering" /\ handler'.offset = expectedOffset'
      BY <2>1, <3>1 DEF Answers, Idle
    <3> QED BY <3>2 DEF Latest
  <2> QED BY <2>3, <2>4
<1> QED BY <1>2, <1>3

(* Every step keeps the invariant.                                         *)
LEMMA ToldInvInductive ==
  (Init => ToldInv) /\ (ToldInv /\ [Next]_vars => ToldInv')
<1>1. Init => ToldInv
  BY TypeInvInductive
  DEF Init, NoReader, Idle, ToldInv, ChannelsKept, ReaderServes, LatestIsCurrent
<1>2. ASSUME ToldInv, [Next]_vars PROVE ToldInv'
  <2>0. TypeInv /\ TypeInv'
    BY <1>2, TypeInvInductive DEF ToldInv
  <2>1. CASE HandlerSteps
    BY <1>2, <2>0, <2>1, HandlerTells DEF ToldInv
  <2>2. ASSUME NEW s \in Subs, ReaderSteps(s) PROVE ToldInv'
    BY <1>2, <2>0, <2>2, ReaderTells DEF ToldInv
  <2>3. ASSUME NEW s \in Subs, Subscribes(s) PROVE ToldInv'
    <3>1. /\ reader[s].at = "none" /\ offsetReqChan' = s /\ subscription' = s
          /\ handler'.at = "offering" /\ answered' = "nothing"
          /\ UNCHANGED <<reader, crossed>>
      BY <2>3 DEF Subscribes
    <3> QED BY <1>2, <2>0, <3>1 DEF ToldInv, ChannelsKept, ReaderServes, LatestIsCurrent
  <2>4. CASE Unsubscribes
    <3>1. /\ subscription' = 0 /\ answered' = "nothing"
          /\ UNCHANGED <<reader, crossed, handler>>
      BY <2>4 DEF Unsubscribes, noteVars
    <3> QED BY <1>2, <2>0, <3>1 DEF ToldInv, ChannelsKept, ReaderServes, LatestIsCurrent
  <2>5. ASSUME NEW offset \in 0 .. length - 1, NEW size \in 1 .. MaxChunk,
               ClientSends(offset, size)
        PROVE  ToldInv'
    BY <1>2, <2>0, <2>5, PacketTells DEF ToldInv
  <2>6. CASE UNCHANGED <<bufferVars, noteVars, handler, subscription, answered>>
    BY <1>2, <2>0, <2>6
    DEF ToldInv, ChannelsKept, ReaderServes, LatestIsCurrent, Latest, bufferVars, noteVars
  <2>7. ASSUME NEW n \in Lengths, NextMessage(n) PROVE ToldInv'
    BY <2>6, <2>7 DEF NextMessage
  <2>8. CASE UNCHANGED vars
    BY <2>6, <2>8 DEF vars
  <2> QED BY <1>2, <2>1, <2>2, <2>3, <2>4, <2>5, <2>7, <2>8 DEF Next
<1> QED BY <1>1, <1>2

(* For any number of subscriptions: once the reader has caught up, the     *)
(* offset the subscriber was told last is the one to resume at, unless     *)
(* offsetReqChan was crossed.                                              *)
THEOREM ToldRight == Spec => []ToldWhereToResume
<1>1. ASSUME ToldInv PROVE ToldWhereToResume
  BY <1>1 DEF ToldInv, LatestIsCurrent, Latest, ToldWhereToResume, CaughtUp
<1> QED BY <1>1, ToldInvInductive, PTL DEF Spec
=============================================================================

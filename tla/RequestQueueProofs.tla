------------------------- MODULE RequestQueueProofs -------------------------
(***************************************************************************)
(* For any number of calls and any channel capacity: the channel protocol  *)
(* strands no request behind Close, the directory lock outlives everything *)
(* that touches the directory, and Sync and Close cover what they promise. *)
(***************************************************************************)
EXTENDS RequestQueue, TLAPS

ClosePath == {"lock", "flush", "sweep", "send", "drain"}

(* Who may be where: one Close runs the shutdown, submitters are writes    *)
(* and Syncs, and none is inside submit once the store is closed.          *)
CallsInv ==
  /\ closer = NoCall => ~closed
  /\ closer # NoCall => /\ kind[closer] = "close"
                        /\ pc[closer] \in ClosePath \cup {"returned"}
                        /\ closed <=> pc[closer] # "lock"
  /\ \A c \in Calls :
       /\ pc[c] \in ClosePath => c = closer
       /\ pc[c] = "join" => closer # NoCall
       /\ pc[c] \in {"sending", "waiting"} => kind[c] \in {"write", "sync"}
       /\ pc[c] = "sending" => ~closed

(* The writer's own variables, by where it is.                             *)
LoopInv ==
  /\ writer = "select" => batch = <<>> /\ control = NoCall
  /\ writer = "drain" => control = NoCall
  /\ writer = "control" => batch = <<>> /\ control # NoCall
  /\ writer \in {"final", "exited"} => batch = <<>> /\ control = closer /\ closer # NoCall

(* A request is in one place: in the channel, in the batch or in control,  *)
(* once; and a call that waits for the writer has its request there.       *)
Holds(s, c) == \E i \in 1..Len(s) : s[i] = c
ChannelInv ==
  \A i \in 1..Len(requests) :
    \/ pc[requests[i]] = "waiting"
    \/ pc[requests[i]] = "drain" /\ i = Len(requests)
OnceInv == \A i, j \in 1..Len(requests) : requests[i] = requests[j] => i = j
BatchInv ==
  \A i \in 1..Len(batch) :
    pc[batch[i]] = "waiting" /\ kind[batch[i]] = "write" /\ ~Holds(requests, batch[i])
ControlInv ==
  control # NoCall =>
    /\ ~Holds(requests, control)
    /\ \/ pc[control] = "waiting" /\ kind[control] = "sync"
       \/ control = closer /\ pc[control] \in {"drain", "returned"} /\ requests = <<>>
WaitingInv ==
  \A c \in Calls : pc[c] = "waiting" => Holds(requests, c) \/ Holds(batch, c) \/ control = c
PlacesInv == ChannelInv /\ OnceInv /\ BatchInv /\ ControlInv /\ WaitingInv

(* What Close has waited for by the time it is where it is.                *)
QuietInv ==
  /\ closer # NoCall =>
       /\ pc[closer] \in {"sweep", "send", "drain", "returned"} => flushDone
       /\ pc[closer] \in {"send", "drain", "returned"} => sweepDone
  /\ writer = "exited" => ~snapshotRunning /\ pc[closer] \in {"drain", "returned"}
  /\ ~lockHeld => writer = "exited"

Inv == TypeOK /\ CallsInv /\ LoopInv /\ PlacesInv /\ QuietInv

-----------------------------------------------------------------------------
(* What the receiver and the sender do to a queue, element by element.     *)
LEMMA TailFacts ==
  ASSUME NEW S, NEW s \in Seq(S), s # <<>>
  PROVE  /\ Head(s) \in S /\ Head(s) = s[1] /\ Len(s) \in Nat \ {0}
         /\ Tail(s) \in Seq(S) /\ Len(Tail(s)) = Len(s) - 1
         /\ \A i \in 1..Len(Tail(s)) : Tail(s)[i] = s[i + 1]
  OBVIOUS

(* What store.requests <- request and the batch append do to a queue.      *)
LEMMA AppendFacts ==
  ASSUME NEW S, NEW s \in Seq(S), NEW x \in S
  PROVE  /\ Append(s, x) \in Seq(S) /\ Len(s) \in Nat /\ Len(Append(s, x)) = Len(s) + 1
         /\ \A i \in 1..Len(s) : Append(s, x)[i] = s[i]
         /\ Append(s, x)[Len(s) + 1] = x
  OBVIOUS

(* The calls of a batch are calls.                                         *)
LEMMA ElementsInRange ==
  ASSUME NEW S
  PROVE  \A s \in Seq(S) : Range(s) \subseteq S
  BY DEF Range

(* A step that moves no request and no call leaves every request in its    *)
(* place.                                                                  *)
LEMMA PlacesKept ==
  ASSUME PlacesInv, UNCHANGED <<kind, pc, closer, requests, batch, control>>
  PROVE  PlacesInv'
<1>1. ChannelInv'  BY Zenon DEF PlacesInv, ChannelInv
<1>2. OnceInv'  BY Zenon DEF PlacesInv, OnceInv
<1>3. BatchInv'  BY Zenon DEF PlacesInv, BatchInv, Holds
<1>4. ControlInv'  BY Zenon DEF PlacesInv, ControlInv, Holds
<1>5. WaitingInv'  BY Zenon DEF PlacesInv, WaitingInv, Holds
<1> QED  BY Zenon, <1>1, <1>2, <1>3, <1>4, <1>5 DEF PlacesInv

(* A call that is not waiting for the writer moves on, without a request   *)
(* to the channel: every request stays in its place.                       *)
LEMMA PlacesMove ==
  ASSUME TypeOK, PlacesInv, NEW c \in Calls, NEW label, NEW k,
         pc[c] \notin {"waiting", "drain", "returned"}, label # "waiting",
         pc' = [pc EXCEPT ![c] = label], kind' = [kind EXCEPT ![c] = k] \/ kind' = kind,
         closer' = closer \/ closer = NoCall,
         UNCHANGED <<requests, batch, control>>
  PROVE  PlacesInv'
<1>1. pc'[c] = label /\ \A d \in Calls : d # c => pc'[d] = pc[d] /\ kind'[d] = kind[d]
  BY Zenon DEF TypeOK
<1>2. /\ \A i \in 1..Len(requests) : requests[i] \in Calls /\ requests[i] # c
      /\ \A i \in 1..Len(batch) : batch[i] \in Calls /\ batch[i] # c
  BY DEF TypeOK, PlacesInv, ChannelInv, BatchInv
<1>3. control # NoCall => control \in Calls /\ control # c
  BY Zenon DEF TypeOK, PlacesInv, ControlInv
<1>4. ChannelInv'  BY Zenon, <1>1, <1>2 DEF PlacesInv, ChannelInv
<1>5. OnceInv'  BY Zenon DEF PlacesInv, OnceInv
<1>6. BatchInv'  BY ZenonT(30), <1>1, <1>2 DEF PlacesInv, BatchInv, Holds
<1>7. ControlInv'  BY Zenon, <1>1, <1>3 DEF PlacesInv, ControlInv, Holds
<1>8. WaitingInv'  BY Zenon, <1>1 DEF PlacesInv, WaitingInv, Holds
<1> QED  BY Zenon, <1>4, <1>5, <1>6, <1>7, <1>8 DEF PlacesInv

-----------------------------------------------------------------------------
(* A freshly opened Store satisfies the invariant.                         *)
LEMMA InitInv == Init => Inv
<1> SUFFICES ASSUME Init PROVE Inv  OBVIOUS
<1> USE CallsAssumption DEF Init
<1>1. TypeOK
  <2>1. requests \in Seq(Calls) /\ batch \in Seq(Calls) /\ Len(requests) = 0  OBVIOUS
  <2>2. kind \in [Calls -> Kinds \cup {"none"}] /\ pc \in [Calls -> Waiting]  BY Zenon DEF Waiting
  <2>3. /\ result \in [Calls -> {"none", "nil", "error", "closed"}]
        /\ before \in [Calls -> SUBSET Calls]
    OBVIOUS
  <2>4. /\ closed \in BOOLEAN /\ flushDone \in BOOLEAN /\ sweepDone \in BOOLEAN
        /\ closeDone \in BOOLEAN /\ lockHeld \in BOOLEAN /\ latched \in BOOLEAN
        /\ snapshotRunning \in BOOLEAN
    BY ZenonT(30)
  <2>5. closer \in Calls \cup {NoCall} /\ control \in Calls \cup {NoCall}  OBVIOUS
  <2>6. Len(requests) <= QueueCapacity  BY <2>1
  <2> QED  BY Zenon, <2>1, <2>2, <2>3, <2>4, <2>5, <2>6 DEF TypeOK
<1>2. CallsInv /\ LoopInv /\ QuietInv  BY Zenon DEF CallsInv, LoopInv, QuietInv, ClosePath
<1>3. PlacesInv
  BY DEF PlacesInv, ChannelInv, OnceInv, BatchInv, ControlInv, WaitingInv, Holds
<1> QED  BY Zenon, <1>1, <1>2, <1>3 DEF Inv

(* The invariant is strong enough for the two safety properties.           *)
LEMMA InvImplies == Inv => NothingBehindClose /\ QuietWhenUnlocked
  BY CallsAssumption DEF Inv, TypeOK, CallsInv, LoopInv, PlacesInv, ControlInv, WaitingInv, QuietInv,
     Holds, ClosePath, NothingBehindClose, QuietWhenUnlocked

(* submit starts a call: refused when closed, otherwise on its way to the  *)
(* channel.                                                                *)
LEMMA StepSubmit ==
  ASSUME Inv, NEW c \in Calls, NEW k \in {"write", "sync"}, submit(c, k)
  PROVE  Inv'
<1> USE CallsAssumption DEF Inv, submit, Return, Goto, Readers, calls, closing, loop, log
<1>1. TypeOK'  BY DEF TypeOK, Kinds, Waiting
<1>2. CallsInv'  BY DEF TypeOK, CallsInv, LoopInv, PlacesInv, ChannelInv, ControlInv, BatchInv, ClosePath
<1>3. LoopInv'  BY Zenon DEF TypeOK, CallsInv, LoopInv, PlacesInv, ChannelInv, ControlInv, BatchInv, ClosePath
<1>4. PlacesInv'
  <2>1. CASE closed  BY Zenon, <2>1, PlacesMove
  <2>2. CASE ~closed  BY Zenon, <2>2, PlacesMove
  <2> QED  BY Zenon, <2>1, <2>2
<1>5. QuietInv'  BY Zenon DEF TypeOK, CallsInv, LoopInv, PlacesInv, ControlInv, QuietInv, ClosePath
<1> QED  BY Zenon, <1>1, <1>2, <1>3, <1>4, <1>5

(* closeOnce.Do makes one call the closer for good.                        *)
LEMMA StepClose ==
  ASSUME Inv, NEW c \in Calls, Close(c)
  PROVE  Inv'
<1> USE CallsAssumption DEF Inv, Close, Goto, calls, closing, loop, log
<1>1. TypeOK'
  <2>1. kind' \in [Calls -> Kinds \cup {"none"}]  BY Zenon DEF TypeOK, Kinds
  <2>2. pc' \in [Calls -> Waiting]  BY ZenonT(30) DEF TypeOK, Waiting
  <2>3. closer' \in Calls \cup {NoCall}  BY Zenon DEF TypeOK
  <2> QED  BY ZenonT(30), <2>1, <2>2, <2>3 DEF TypeOK
<1>2. CallsInv'  BY DEF TypeOK, CallsInv, LoopInv, PlacesInv, ChannelInv, ControlInv, BatchInv, ClosePath
<1>3. LoopInv'  BY Zenon DEF TypeOK, CallsInv, LoopInv, PlacesInv, ChannelInv, ControlInv, BatchInv, ClosePath
<1>4. PlacesInv'
  <2>1. CASE closer = NoCall  BY Zenon, <2>1, PlacesMove
  <2>2. CASE closer # NoCall  BY Zenon, <2>2, PlacesMove
  <2> QED  BY Zenon, <2>1, <2>2
<1>5. QuietInv'  BY DEF TypeOK, CallsInv, LoopInv, PlacesInv, ControlInv, QuietInv, ClosePath
<1> QED  BY Zenon, <1>1, <1>2, <1>3, <1>4, <1>5

(* A send appends a request that was nowhere before.                       *)
LEMMA StepSend ==
  ASSUME Inv, NEW c \in Calls, Send(c)
  PROVE  Inv'
<1> USE CallsAssumption DEF Inv, Send, Goto, Pending, Acknowledged, calls, closing, loop, log
<1>1. TypeOK'  BY DEF TypeOK, Kinds, Waiting
<1>2. CallsInv'  BY DEF TypeOK, CallsInv, LoopInv, PlacesInv, ChannelInv, ControlInv, BatchInv, ClosePath
<1>3. LoopInv'  BY Zenon DEF TypeOK, CallsInv, LoopInv, PlacesInv, ChannelInv, ControlInv, BatchInv, ClosePath
<1>4. PlacesInv'
  <2> USE DEF TypeOK, PlacesInv
  <2>1. ChannelInv'  BY DEF ChannelInv, CallsInv, ClosePath
  <2>2. OnceInv'  BY DEF OnceInv, ChannelInv
  <2>3. BatchInv'  BY DEF BatchInv, ChannelInv, CallsInv, Holds
  <2>4. ControlInv'  BY DEF ControlInv, ChannelInv, CallsInv, LoopInv, ClosePath, Holds
  <2>5. WaitingInv'  BY DEF WaitingInv, Holds
  <2> QED  BY Zenon, <2>1, <2>2, <2>3, <2>4, <2>5
<1>5. QuietInv'  BY Zenon DEF TypeOK, CallsInv, LoopInv, PlacesInv, ControlInv, QuietInv, ClosePath
<1> QED  BY Zenon, <1>1, <1>2, <1>3, <1>4, <1>5

(* The write lock excludes every submit between its look at closed and its *)
(* send.                                                                   *)
LEMMA StepCloseLocks ==
  ASSUME Inv, NEW c \in Calls, CloseLocks(c)
  PROVE  Inv'
<1> USE CallsAssumption DEF Inv, CloseLocks, Goto, Readers, calls, closing, loop, log
<1>1. TypeOK'  BY ZenonT(30) DEF TypeOK, Kinds, Waiting
<1>2. CallsInv'  BY DEF TypeOK, CallsInv, LoopInv, PlacesInv, ChannelInv, ControlInv, BatchInv, ClosePath
<1>3. LoopInv'  BY Zenon DEF TypeOK, CallsInv, LoopInv, PlacesInv, ChannelInv, ControlInv, BatchInv, ClosePath
<1>4. PlacesInv'  BY Zenon, PlacesMove
<1>5. QuietInv'  BY Zenon DEF TypeOK, CallsInv, LoopInv, PlacesInv, ControlInv, QuietInv, ClosePath
<1> QED  BY Zenon, <1>1, <1>2, <1>3, <1>4, <1>5

(* Close goes on only once the flush ticker is gone.                       *)
LEMMA StepCloseAwaitsFlush ==
  ASSUME Inv, NEW c \in Calls, CloseAwaitsFlush(c)
  PROVE  Inv'
<1> USE CallsAssumption DEF Inv, CloseAwaitsFlush, Goto, calls, closing, loop, log
<1>1. TypeOK'  BY ZenonT(30) DEF TypeOK, Kinds, Waiting
<1>2. CallsInv'  BY ZenonT(30) DEF TypeOK, CallsInv, LoopInv, PlacesInv, ChannelInv, ControlInv, BatchInv, ClosePath
<1>3. LoopInv'  BY Zenon DEF TypeOK, CallsInv, LoopInv, PlacesInv, ChannelInv, ControlInv, BatchInv, ClosePath
<1>4. PlacesInv'  BY Zenon, PlacesMove
<1>5. QuietInv'  BY Zenon DEF TypeOK, CallsInv, LoopInv, PlacesInv, ControlInv, QuietInv, ClosePath
<1> QED  BY Zenon, <1>1, <1>2, <1>3, <1>4, <1>5

(* Close goes on only once the sweep is gone.                              *)
LEMMA StepCloseAwaitsSweep ==
  ASSUME Inv, NEW c \in Calls, CloseAwaitsSweep(c)
  PROVE  Inv'
<1> USE CallsAssumption DEF Inv, CloseAwaitsSweep, Goto, calls, closing, loop, log
<1>1. TypeOK'  BY ZenonT(30) DEF TypeOK, Kinds, Waiting
<1>2. CallsInv'  BY ZenonT(30) DEF TypeOK, CallsInv, LoopInv, PlacesInv, ChannelInv, ControlInv, BatchInv, ClosePath
<1>3. LoopInv'  BY Zenon DEF TypeOK, CallsInv, LoopInv, PlacesInv, ChannelInv, ControlInv, BatchInv, ClosePath
<1>4. PlacesInv'  BY Zenon, PlacesMove
<1>5. QuietInv'  BY Zenon DEF TypeOK, CallsInv, LoopInv, PlacesInv, ControlInv, QuietInv, ClosePath
<1> QED  BY Zenon, <1>1, <1>2, <1>3, <1>4, <1>5

(* The request of Close is the last one ever sent.                         *)
LEMMA StepCloseSends ==
  ASSUME Inv, NEW c \in Calls, CloseSends(c)
  PROVE  Inv'
<1> USE CallsAssumption DEF Inv, CloseSends, Goto, calls, closing, loop, log
<1>1. TypeOK'  BY DEF TypeOK, Kinds, Waiting
<1>2. CallsInv'  BY ZenonT(30) DEF TypeOK, CallsInv, LoopInv, PlacesInv, ChannelInv, ControlInv, BatchInv, ClosePath
<1>3. LoopInv'  BY Zenon DEF TypeOK, CallsInv, LoopInv, PlacesInv, ChannelInv, ControlInv, BatchInv, ClosePath
<1>4. PlacesInv'
  <2> USE DEF TypeOK, PlacesInv
  <2>1. ChannelInv'  BY DEF ChannelInv, CallsInv, ClosePath
  <2>2. OnceInv'  BY DEF OnceInv, ChannelInv
  <2>3. BatchInv'  BY DEF BatchInv, ChannelInv, CallsInv, Holds
  <2>4. ControlInv'  BY DEF ControlInv, ChannelInv, CallsInv, LoopInv, ClosePath, Holds
  <2>5. WaitingInv'  BY DEF WaitingInv, Holds
  <2> QED  BY Zenon, <2>1, <2>2, <2>3, <2>4, <2>5
<1>5. QuietInv'  BY Zenon DEF TypeOK, CallsInv, LoopInv, PlacesInv, ControlInv, QuietInv, ClosePath
<1> QED  BY Zenon, <1>1, <1>2, <1>3, <1>4, <1>5

(* The directory is unlocked after the writer has exited.                  *)
LEMMA StepCloseFinishes ==
  ASSUME Inv, NEW c \in Calls, CloseFinishes(c)
  PROVE  Inv'
<1>0. PICK r \in {result[c], "error"} :
        /\ pc[c] = "drain" /\ writer = "exited" /\ pc' = [pc EXCEPT ![c] = "returned"]
        /\ result' = [result EXCEPT ![c] = r] /\ lockHeld' = FALSE /\ closeDone' = TRUE
        /\ UNCHANGED <<kind, before, closed, closer, sweepDone, flushDone, requests, loop, log>>
  BY Zenon DEF CloseFinishes, Return
<1> USE CallsAssumption, <1>0 DEF Inv, calls, closing, loop, log
<1>1. TypeOK'
  <2>1. r \in {"none", "nil", "error", "closed"}  BY Zenon DEF TypeOK
  <2> QED  BY Zenon, <2>1 DEF TypeOK, Kinds, Waiting
<1>2. CallsInv'  BY Zenon DEF TypeOK, CallsInv, LoopInv, PlacesInv, ChannelInv, ControlInv, BatchInv, ClosePath
<1>3. LoopInv'  BY Zenon DEF TypeOK, CallsInv, LoopInv, PlacesInv, ChannelInv, ControlInv, BatchInv, ClosePath
<1>4. PlacesInv'
  <2> USE DEF TypeOK, PlacesInv
  <2>1. ChannelInv'  BY DEF ChannelInv, CallsInv, LoopInv, ControlInv, ClosePath
  <2>2. OnceInv'  BY Zenon DEF OnceInv, ChannelInv
  <2>3. BatchInv'  BY DEF BatchInv, ChannelInv, CallsInv, Holds
  <2>4. ControlInv'  BY Zenon DEF ControlInv, ChannelInv, CallsInv, LoopInv, ClosePath, Holds
  <2>5. WaitingInv'  BY Zenon DEF WaitingInv, Holds
  <2> QED  BY Zenon, <2>1, <2>2, <2>3, <2>4, <2>5
<1>5. QuietInv'  BY Zenon DEF TypeOK, CallsInv, LoopInv, PlacesInv, ControlInv, QuietInv, ClosePath
<1> QED  BY Zenon, <1>1, <1>2, <1>3, <1>4, <1>5

(* A second Close returns when the first has.                              *)
LEMMA StepCloseJoins ==
  ASSUME Inv, NEW c \in Calls, CloseJoins(c)
  PROVE  Inv'
<1> USE CallsAssumption DEF Inv, CloseJoins, Return, calls, closing, loop, log
<1>1. TypeOK'  BY ZenonT(30) DEF TypeOK, CallsInv, Kinds, Waiting
<1>2. CallsInv'  BY DEF TypeOK, CallsInv, LoopInv, PlacesInv, ChannelInv, ControlInv, BatchInv, ClosePath
<1>3. LoopInv'  BY Zenon DEF TypeOK, CallsInv, LoopInv, PlacesInv, ChannelInv, ControlInv, BatchInv, ClosePath
<1>4. PlacesInv'  BY Zenon, PlacesMove
<1>5. QuietInv'  BY Zenon DEF TypeOK, CallsInv, LoopInv, PlacesInv, ControlInv, QuietInv, ClosePath
<1> QED  BY Zenon, <1>1, <1>2, <1>3, <1>4, <1>5

(* Taking the head of the channel, as Receive and drainWrites do.          *)
LEMMA ChannelTakes ==
  ASSUME Inv, requests # <<>>, requests' = Tail(requests), UNCHANGED <<pc, kind>>
  PROVE  LET h == Head(requests)
         IN  /\ h \in Calls
             /\ \/ pc[h] = "waiting" /\ kind[h] \in {"write", "sync"}
                \/ pc[h] = "drain" /\ h = closer /\ kind[h] = "close" /\ requests' = <<>>
             /\ requests' \in Seq(Calls) /\ Len(requests') <= QueueCapacity
             /\ Holds(requests, h) /\ ~Holds(requests', h)
             /\ \A c : c # h => (Holds(requests, c) <=> Holds(requests', c))
             /\ ChannelInv' /\ OnceInv'
<1> DEFINE h == Head(requests)
<1>1. /\ h \in Calls /\ h = requests[1] /\ Len(requests) \in Nat \ {0}
      /\ requests' \in Seq(Calls) /\ Len(requests') = Len(requests) - 1
      /\ \A i \in 1..Len(requests') : requests'[i] = requests[i + 1]
  BY Zenon, TailFacts DEF Inv, TypeOK
<1>2. Len(requests') <= QueueCapacity  BY <1>1, CallsAssumption DEF Inv, TypeOK
<1>0. \A i \in 1..Len(requests) :
        \/ pc[requests[i]] = "waiting"
        \/ pc[requests[i]] = "drain" /\ i = Len(requests)
  BY Zenon DEF Inv, PlacesInv, ChannelInv
<1>3. pc[h] = "waiting" \/ (pc[h] = "drain" /\ Len(requests) = 1)
  <2>1. 1 \in 1..Len(requests)  BY <1>1
  <2>2. pc[requests[1]] = "waiting" \/ (pc[requests[1]] = "drain" /\ 1 = Len(requests))
    BY Zenon, <2>1, <1>0
  <2> QED  BY Zenon, <2>2, <1>1
<1>4. \/ pc[h] = "waiting" /\ kind[h] \in {"write", "sync"}
      \/ pc[h] = "drain" /\ h = closer /\ kind[h] = "close" /\ requests' = <<>>
  <2>1. CASE pc[h] = "waiting"  BY Zenon, <2>1, <1>1 DEF Inv, CallsInv
  <2>2. CASE pc[h] = "drain" /\ Len(requests) = 1
    <3>1. h = closer /\ closer # NoCall  BY Zenon, <2>2, <1>1, CallsAssumption DEF Inv, CallsInv, ClosePath
    <3>2. requests' = <<>>  BY <2>2, <1>1
    <3> QED  BY Zenon, <2>2, <3>1, <3>2 DEF Inv, CallsInv
  <2> QED  BY Zenon, <1>3, <2>1, <2>2
<1>5. Holds(requests, h) /\ ~Holds(requests', h)  BY <1>1 DEF Inv, Holds, PlacesInv, OnceInv
<1>6. ASSUME NEW c, c # h  PROVE Holds(requests, c) <=> Holds(requests', c)
  <2>1. Holds(requests', c) => Holds(requests, c)  BY <1>1 DEF Holds
  <2>2. ASSUME Holds(requests, c)  PROVE Holds(requests', c)
    <3>1. PICK i \in 1..Len(requests) : requests[i] = c  BY Zenon, <2>2 DEF Holds
    <3>2. i - 1 \in 1..Len(requests') /\ requests'[i - 1] = c  BY <3>1, <1>1, <1>6
    <3> QED  BY Zenon, <3>2 DEF Holds
  <2> QED  BY Zenon, <2>1, <2>2
<1>7. ChannelInv'
  <2> SUFFICES ASSUME NEW i \in 1..Len(requests')
               PROVE  \/ pc[requests'[i]] = "waiting"
                      \/ pc[requests'[i]] = "drain" /\ i = Len(requests')
    BY Zenon DEF ChannelInv
  <2>1. i + 1 \in 1..Len(requests) /\ requests'[i] = requests[i + 1]  BY <1>1
  <2>2. \/ pc[requests[i + 1]] = "waiting"
        \/ pc[requests[i + 1]] = "drain" /\ i + 1 = Len(requests)
    BY Zenon, <2>1, <1>0
  <2>3. i + 1 = Len(requests) => i = Len(requests')
    <3>1. \A m, n, k \in Int : k + 1 = m /\ n = m - 1 => k = n  OBVIOUS
    <3>2. Len(requests) \in Int /\ Len(requests') \in Int /\ i \in Int  BY <1>1
    <3> QED  BY Zenon, <1>1, <3>1, <3>2, Zenon
  <2> QED  BY Zenon, <2>1, <2>2, <2>3
<1>8. OnceInv'  BY <1>1 DEF Inv, PlacesInv, OnceInv
<1> QED  BY Zenon, <1>1, <1>2, <1>4, <1>5, <1>6, <1>7, <1>8

(* The writer moves the head of the channel to its batch or to control.    *)
LEMMA StepReceive ==
  ASSUME Inv, Receive
  PROVE  Inv'
<1> DEFINE h == Head(requests)
<1> USE CallsAssumption DEF Inv, calls, closing, log
<1>1. /\ requests # <<>> /\ writer = "select" /\ batch = <<>> /\ control = NoCall
      /\ requests' = Tail(requests) /\ UNCHANGED <<calls, closing, flushDone, log>>
  BY Zenon DEF Receive, LoopInv
<1>2. \/ kind[h] = "write" /\ batch' = <<h>> /\ control' = NoCall /\ writer' = "drain"
      \/ kind[h] # "write" /\ control' = h /\ batch' = <<>> /\ writer' = "control"
  BY Zenon, <1>1 DEF Receive
<1>3. /\ h \in Calls
      /\ \/ pc[h] = "waiting" /\ kind[h] \in {"write", "sync"}
         \/ pc[h] = "drain" /\ h = closer /\ kind[h] = "close" /\ requests' = <<>>
      /\ requests' \in Seq(Calls) /\ Len(requests') <= QueueCapacity
      /\ ~Holds(requests', h)
      /\ \A c : c # h => (Holds(requests, c) <=> Holds(requests', c))
      /\ ChannelInv' /\ OnceInv'
  BY Zenon, <1>1, ChannelTakes
<1>4. batch' \in Seq(Calls) /\ \A i \in 1..Len(batch') : batch'[i] = h /\ kind[h] = "write"
  <2>1. <<h>> \in Seq(Calls) /\ \A i \in 1..Len(<<h>>) : <<h>>[i] = h  BY <1>3
  <2>2. <<>> \in Seq(Calls) /\ 1..Len(<<>>) = {}  OBVIOUS
  <2>3. CASE kind[h] = "write" /\ batch' = <<h>>
    <3> HIDE DEF h
    <3> QED  BY Zenon, <2>1, <2>3
  <2>4. CASE batch' = <<>>
    <3> HIDE DEF h
    <3> QED  BY Zenon, <2>2, <2>4
  <2> QED  BY Zenon, <1>2, <2>3, <2>4
<1>5. TypeOK'  BY ZenonT(30), <1>1, <1>2, <1>3, <1>4 DEF TypeOK
<1>6. CallsInv'  BY Zenon, <1>1 DEF CallsInv
<1>7. LoopInv'  BY Zenon, <1>2, <1>3 DEF LoopInv
<1>8. BatchInv'  BY Zenon, <1>1, <1>3, <1>4 DEF BatchInv
<1>9. ControlInv'  BY Zenon, <1>1, <1>2, <1>3 DEF ControlInv
<1>10. WaitingInv'
  <2> SUFFICES ASSUME NEW c \in Calls, pc[c] = "waiting"
               PROVE  Holds(requests', c) \/ Holds(batch', c) \/ control' = c
    BY Zenon, <1>1 DEF WaitingInv
  <2>1. Holds(requests, c)  BY <1>1 DEF PlacesInv, WaitingInv, Holds
  <2>2. Holds(<<h>>, h)  BY DEF Holds
  <2> QED  BY Zenon, <2>1, <2>2, <1>2, <1>3
<1>11. QuietInv'  BY Zenon, <1>1, <1>2 DEF QuietInv
<1> QED  BY Zenon, <1>3, <1>5, <1>6, <1>7, <1>8, <1>9, <1>10, <1>11 DEF PlacesInv

(* Draining moves writes to the batch and stops at the first other request.*)
LEMMA StepDrainWrites ==
  ASSUME Inv, drainWrites
  PROVE  Inv'
<1> DEFINE h == Head(requests)
<1> USE CallsAssumption DEF Inv, calls, closing, log
<1>1. /\ writer = "drain" /\ control = NoCall /\ batch \in Seq(Calls)
      /\ UNCHANGED <<calls, closing, flushDone, log>>
  BY Zenon DEF drainWrites, LoopInv, TypeOK
<1>2. CASE requests = <<>>
  <2>1. writer' = "write" /\ UNCHANGED <<requests, batch, control>>  BY Zenon, <1>2 DEF drainWrites
  <2>2. TypeOK' /\ CallsInv'  BY ZenonT(30), <1>1, <2>1 DEF TypeOK, CallsInv
  <2>3. LoopInv' /\ QuietInv'  BY Zenon, <1>1, <2>1 DEF LoopInv, QuietInv
  <2>4. PlacesInv'
    BY <1>1, <2>1 DEF PlacesInv, ChannelInv, OnceInv, BatchInv, ControlInv, WaitingInv, Holds
  <2> QED  BY Zenon, <2>2, <2>3, <2>4
<1>3. CASE requests # <<>>
  <2>1. requests' = Tail(requests)  BY Zenon, <1>3 DEF drainWrites
  <2>2. \/ kind[h] = "write" /\ batch' = Append(batch, h) /\ writer' = "drain" /\ control' = NoCall
        \/ kind[h] # "write" /\ batch' = batch /\ writer' = "write" /\ control' = h
    BY Zenon, <1>1, <1>3 DEF drainWrites
  <2>3. /\ h \in Calls
        /\ \/ pc[h] = "waiting" /\ kind[h] \in {"write", "sync"}
           \/ pc[h] = "drain" /\ h = closer /\ kind[h] = "close" /\ requests' = <<>>
        /\ requests' \in Seq(Calls) /\ Len(requests') <= QueueCapacity
        /\ Holds(requests, h) /\ ~Holds(requests', h)
        /\ \A c : c # h => (Holds(requests, c) <=> Holds(requests', c))
        /\ ChannelInv' /\ OnceInv'
    BY Zenon, <1>1, <1>3, <2>1, ChannelTakes
  <2>4. /\ batch' \in Seq(Calls)
        /\ \A i \in 1..Len(batch') : Holds(batch, batch'[i]) \/ (batch'[i] = h /\ kind[h] = "write")
        /\ \A c : Holds(batch, c) => Holds(batch', c)
        /\ kind[h] = "write" => Holds(batch', h)
    <3>1. CASE kind[h] = "write"
      <4>1. batch' = Append(batch, h)  BY Zenon, <2>2, <3>1
      <4>2. /\ batch' \in Seq(Calls) /\ Len(batch) \in Nat /\ Len(batch') = Len(batch) + 1
            /\ \A i \in 1..Len(batch) : batch'[i] = batch[i]
            /\ batch'[Len(batch) + 1] = h
        BY <1>1, <2>3, <4>1, AppendFacts
      <4> QED  BY SMTT(30), <3>1, <4>2 DEF Holds
    <3>2. CASE kind[h] # "write"  BY Zenon, <1>1, <2>2, <3>2 DEF Holds
    <3> QED  BY Zenon, <3>1, <3>2
  <2>5. TypeOK'  BY ZenonT(30), <1>1, <2>2, <2>3, <2>4 DEF TypeOK
  <2>6. CallsInv'  BY Zenon, <1>1 DEF CallsInv
  <2>7. LoopInv' /\ QuietInv'  BY Zenon, <1>1, <2>2, <2>3 DEF LoopInv, QuietInv
  <2>8. BatchInv'
    <3> SUFFICES ASSUME NEW i \in 1..Len(batch')
                 PROVE  /\ pc[batch'[i]] = "waiting" /\ kind[batch'[i]] = "write"
                        /\ ~Holds(requests', batch'[i])
      BY Zenon, <1>1 DEF BatchInv
    <3>1. CASE batch'[i] = h /\ kind[h] = "write"  BY Zenon, <2>3, <3>1
    <3>2. CASE Holds(batch, batch'[i])
      <4>1. pc[batch'[i]] = "waiting" /\ kind[batch'[i]] = "write" /\ ~Holds(requests, batch'[i])
        BY Zenon, <3>2 DEF PlacesInv, BatchInv, Holds
      <4> HIDE DEF h
      <4> QED  BY Zenon, <2>3, <4>1
    <3> QED  BY Zenon, <2>4, <3>1, <3>2
  <2>9. ControlInv'  BY Zenon, <1>1, <2>2, <2>3 DEF ControlInv
  <2>10. WaitingInv'
    <3> SUFFICES ASSUME NEW c \in Calls, pc[c] = "waiting"
                 PROVE  Holds(requests', c) \/ Holds(batch', c) \/ control' = c
      BY Zenon, <1>1 DEF WaitingInv
    <3>1. Holds(requests, c) \/ Holds(batch, c)  BY Zenon, <1>1 DEF PlacesInv, WaitingInv
    <3> QED  BY Zenon, <3>1, <2>2, <2>3, <2>4
  <2> QED  BY Zenon, <2>3, <2>5, <2>6, <2>7, <2>8, <2>9, <2>10 DEF PlacesInv
<1> QED  BY Zenon, <1>2, <1>3

(* Every request of the batch is answered, and nothing else moves.         *)
LEMMA StepWriteBatch ==
  ASSUME Inv, writeBatch
  PROVE  Inv'
<1> USE CallsAssumption DEF Inv, closing
<1>1. PICK p \in 0..Len(batch), rollFails \in BOOLEAN :
        respondAll(p) /\ latched' = (p < Len(batch) \/ rollFails)
  BY Zenon DEF writeBatch
<1>2. /\ writer = "write" /\ batch' = <<>>
      /\ writer' = IF control = NoCall THEN "select" ELSE "control"
      /\ UNCHANGED <<kind, before, closing, flushDone, requests, control, stable>>
  BY Zenon DEF writeBatch
<1>3. batch \in Seq(Calls) /\ \A c : c \in Range(batch) <=> Holds(batch, c)
  BY DEF TypeOK, Range, Holds
<1>4. /\ pc' \in [Calls -> Waiting]
      /\ \A c \in Calls : pc'[c] = IF Holds(batch, c) THEN "returned" ELSE pc[c]
  BY Zenon, <1>1, <1>3 DEF respondAll, TypeOK, Waiting
<1>5. \A c : Holds(batch, c) => pc[c] = "waiting" /\ kind[c] = "write" /\ ~Holds(requests, c)
  BY Zenon DEF PlacesInv, BatchInv, Holds
<1>6. Range(SubSeq(batch, 1, p)) \subseteq Calls
  <2>1. SubSeq(batch, 1, p) \in Seq(Calls)  BY <1>1, <1>3
  <2>2. \A s \in Seq(Calls) : Range(s) \subseteq Calls  BY Zenon, ElementsInRange
  <2> QED  BY Zenon, <2>1, <2>2
<1>7. TypeOK'
  <2>1. result' \in [Calls -> {"none", "nil", "error", "closed"}]
    BY Zenon, <1>1 DEF respondAll, TypeOK
  <2>2. accepted' \subseteq Calls  BY Zenon, <1>1, <1>6 DEF respondAll, TypeOK
  <2>3. latched' \in BOOLEAN  BY Zenon, <1>1
  <2>4. snapshotRunning' \in BOOLEAN  BY Zenon, <2>3 DEF writeBatch, TypeOK
  <2>5. writer' \in {"select", "control"} /\ batch' \in Seq(Calls)  BY <1>2
  <2> QED  BY Zenon, <1>2, <1>4, <2>1, <2>2, <2>3, <2>4, <2>5 DEF TypeOK
<1>8. CallsInv'  BY Zenon, <1>2, <1>4, <1>5 DEF TypeOK, CallsInv, ClosePath
<1>9. LoopInv'  BY Zenon, <1>2 DEF LoopInv
<1>10. PlacesInv'
  <2>1. ChannelInv'
    <3>1. \A i \in 1..Len(requests) : requests[i] \in Calls /\ ~Holds(batch, requests[i])
      <4>1. \A i \in 1..Len(requests) : requests[i] \in Calls  BY DEF TypeOK
      <4>2. \A i \in 1..Len(requests) : Holds(requests, requests[i])  BY Zenon DEF Holds
      <4> QED  BY Zenon, <1>5, <4>1, <4>2
    <3> QED  BY Zenon, <1>2, <1>4, <3>1 DEF PlacesInv, ChannelInv
  <2>2. OnceInv'  BY Zenon, <1>2 DEF PlacesInv, OnceInv
  <2>3. BatchInv'  BY <1>2 DEF BatchInv
  <2>4. ControlInv'
    <3> SUFFICES ASSUME control # NoCall PROVE ControlInv'  BY Zenon, <1>2 DEF ControlInv
    <3>1. control \in Calls /\ ~Holds(batch, control)
      BY Zenon, <1>5 DEF TypeOK, PlacesInv, ControlInv
    <3>2. pc'[control] = pc[control]  BY Zenon, <3>1, <1>4
    <3> QED  BY Zenon, <1>2, <3>2 DEF PlacesInv, ControlInv, Holds
  <2>5. WaitingInv'  BY Zenon, <1>2, <1>4 DEF PlacesInv, WaitingInv, Holds
  <2> QED  BY Zenon, <2>1, <2>2, <2>3, <2>4, <2>5 DEF PlacesInv
<1>11. QuietInv'
  <2>1. closer # NoCall => pc'[closer] = pc[closer]
    BY Zenon, <1>4, <1>5 DEF TypeOK, CallsInv
  <2> QED  BY Zenon, <1>2, <2>1 DEF QuietInv
<1> QED  BY Zenon, <1>7, <1>8, <1>9, <1>10, <1>11

(* A Sync is answered and the loop goes back to its select.                *)
LEMMA StepHandleSync ==
  ASSUME Inv, HandleSync
  PROVE  Inv'
<1> USE CallsAssumption DEF Inv, HandleSync, SyncWAL, Return, calls, closing, loop, log
<1>1. TypeOK'  BY ZenonT(30) DEF TypeOK, Kinds, Waiting
<1>2. /\ control \in Calls /\ control # closer /\ pc[control] = "waiting" /\ batch = <<>>
      /\ ~Holds(requests, control)
  BY Zenon DEF TypeOK, CallsInv, LoopInv, PlacesInv, ControlInv
<1>3. /\ pc'[control] = "returned" /\ \A d \in Calls : d # control => pc'[d] = pc[d]
      /\ UNCHANGED <<kind, closed, closer, requests, batch>>
      /\ control' = NoCall /\ writer' = "select"
  BY Zenon, <1>2 DEF TypeOK
<1>4. closer # NoCall => closer \in Calls /\ pc'[closer] = pc[closer]  BY Zenon, <1>2, <1>3 DEF TypeOK
<1>5. CallsInv'
  <2>1. closer # NoCall => /\ kind'[closer] = "close"
                           /\ pc'[closer] \in ClosePath \cup {"returned"}
                           /\ closed <=> pc'[closer] # "lock"
    BY Zenon, <1>3, <1>4 DEF CallsInv
  <2>2. ASSUME NEW d \in Calls
        PROVE  /\ pc'[d] \in ClosePath => d = closer
               /\ pc'[d] = "join" => closer # NoCall
               /\ pc'[d] \in {"sending", "waiting"} => kind'[d] \in {"write", "sync"}
               /\ pc'[d] = "sending" => ~closed
    BY Zenon, <1>3 DEF CallsInv, ClosePath
  <2> QED  BY <1>3, <2>1, <2>2 DEF CallsInv
<1>6. LoopInv'  BY Zenon, <1>2, <1>3 DEF LoopInv
<1>7. PlacesInv'
  <2>1. \A i \in 1..Len(requests) : requests[i] \in Calls /\ requests[i] # control
    BY <1>2 DEF TypeOK, Holds
  <2>2. ChannelInv'  BY Zenon, <1>3, <2>1 DEF PlacesInv, ChannelInv
  <2>3. OnceInv'  BY Zenon, <1>3 DEF PlacesInv, OnceInv
  <2>4. BatchInv'  BY <1>2, <1>3 DEF BatchInv
  <2>5. ControlInv'  BY Zenon, <1>3 DEF ControlInv
  <2>6. WaitingInv'  BY Zenon, <1>3 DEF PlacesInv, WaitingInv, Holds
  <2> QED  BY Zenon, <2>2, <2>3, <2>4, <2>5, <2>6 DEF PlacesInv
<1>8. QuietInv'  BY Zenon, <1>3, <1>4 DEF QuietInv
<1> QED  BY Zenon, <1>1, <1>5, <1>6, <1>7, <1>8

(* The writer has taken the request of Close, so the channel is empty.     *)
LEMMA StepHandleClose ==
  ASSUME Inv, HandleClose
  PROVE  Inv'
<1> USE CallsAssumption DEF Inv, HandleClose, SyncWAL, calls, closing, loop, log
<1>1. TypeOK'  BY ZenonT(30) DEF TypeOK
<1>2. CallsInv'  BY Zenon DEF TypeOK, CallsInv, LoopInv, PlacesInv, ChannelInv, ControlInv, BatchInv, ClosePath
<1>3. LoopInv'  BY Zenon DEF TypeOK, CallsInv, LoopInv, PlacesInv, ChannelInv, ControlInv, BatchInv, ClosePath
<1>4. PlacesInv'
  <2>1. UNCHANGED <<kind, pc, closer, requests, batch, control>>  OBVIOUS
  <2> QED  BY Zenon, <2>1, PlacesKept
<1>5. QuietInv'  BY Zenon DEF TypeOK, CallsInv, LoopInv, PlacesInv, ControlInv, QuietInv, ClosePath
<1> QED  BY Zenon, <1>1, <1>2, <1>3, <1>4, <1>5

(* The writer exits only after the background snapshot has ended.          *)
LEMMA StepWriteFinalSnapshot ==
  ASSUME Inv, writeFinalSnapshot
  PROVE  Inv'
<1> USE CallsAssumption DEF Inv, writeFinalSnapshot, calls, closing, loop, log
<1>1. TypeOK'  BY Zenon DEF TypeOK
<1>2. CallsInv'  BY Zenon DEF TypeOK, CallsInv, LoopInv, PlacesInv, ChannelInv, ControlInv, BatchInv, ClosePath
<1>3. LoopInv'  BY Zenon DEF TypeOK, CallsInv, LoopInv, PlacesInv, ChannelInv, ControlInv, BatchInv, ClosePath
<1>4. PlacesInv'
  <2>1. UNCHANGED <<kind, pc, closer, requests, batch, control>>  OBVIOUS
  <2> QED  BY Zenon, <2>1, PlacesKept
<1>5. QuietInv'  BY Zenon DEF TypeOK, CallsInv, LoopInv, PlacesInv, ControlInv, QuietInv, ClosePath
<1> QED  BY Zenon, <1>1, <1>2, <1>3, <1>4, <1>5

(* The ticker stops for good.                                              *)
LEMMA StepStopFlushing ==
  ASSUME Inv, StopFlushing
  PROVE  Inv'
<1> USE CallsAssumption DEF Inv, StopFlushing, calls, closing, loop, log
<1>1. TypeOK'  BY Zenon DEF TypeOK
<1>2. CallsInv'  BY Zenon DEF TypeOK, CallsInv, LoopInv, PlacesInv, ChannelInv, ControlInv, BatchInv, ClosePath
<1>3. LoopInv'  BY Zenon DEF TypeOK, CallsInv, LoopInv, PlacesInv, ChannelInv, ControlInv, BatchInv, ClosePath
<1>4. PlacesInv'
  <2>1. UNCHANGED <<kind, pc, closer, requests, batch, control>>  OBVIOUS
  <2> QED  BY Zenon, <2>1, PlacesKept
<1>5. QuietInv'  BY Zenon DEF TypeOK, CallsInv, LoopInv, PlacesInv, ControlInv, QuietInv, ClosePath
<1> QED  BY Zenon, <1>1, <1>2, <1>3, <1>4, <1>5

(* A tick syncs, or latches, and touches no request.                       *)
LEMMA StepTick ==
  ASSUME Inv, Tick
  PROVE  Inv'
<1> USE CallsAssumption DEF Inv, Tick, SyncWAL, calls, closing, loop, log
<1>1. TypeOK'  BY Zenon DEF TypeOK
<1>2. CallsInv'  BY Zenon DEF TypeOK, CallsInv, LoopInv, PlacesInv, ChannelInv, ControlInv, BatchInv, ClosePath
<1>3. LoopInv'  BY Zenon DEF TypeOK, CallsInv, LoopInv, PlacesInv, ChannelInv, ControlInv, BatchInv, ClosePath
<1>4. PlacesInv'
  <2>1. UNCHANGED <<kind, pc, closer, requests, batch, control>>  OBVIOUS
  <2> QED  BY Zenon, <2>1, PlacesKept
<1>5. QuietInv'  BY Zenon DEF TypeOK, CallsInv, LoopInv, PlacesInv, ControlInv, QuietInv, ClosePath
<1> QED  BY Zenon, <1>1, <1>2, <1>3, <1>4, <1>5

(* A background snapshot ends.                                             *)
LEMMA StepSnapshotEnds ==
  ASSUME Inv, SnapshotEnds
  PROVE  Inv'
<1> USE CallsAssumption DEF Inv, SnapshotEnds, calls, closing, loop, log
<1>1. TypeOK'
  <2>1. snapshotRunning' \in BOOLEAN  BY ZenonT(30)
  <2>2. UNCHANGED <<calls, closing, flushDone, requests, loop, latched, accepted, stable>>  OBVIOUS
  <2> HIDE DEF SnapshotEnds
  <2> QED  BY ZenonT(30), <2>1, <2>2 DEF TypeOK
<1>2. CallsInv'  BY Zenon DEF TypeOK, CallsInv, LoopInv, PlacesInv, ChannelInv, ControlInv, BatchInv, ClosePath
<1>3. LoopInv'  BY Zenon DEF TypeOK, CallsInv, LoopInv, PlacesInv, ChannelInv, ControlInv, BatchInv, ClosePath
<1>4. PlacesInv'
  <2>1. UNCHANGED <<kind, pc, closer, requests, batch, control>>  OBVIOUS
  <2> QED  BY Zenon, <2>1, PlacesKept
<1>5. QuietInv'  BY Zenon DEF TypeOK, CallsInv, LoopInv, PlacesInv, ControlInv, QuietInv, ClosePath
<1> QED  BY Zenon, <1>1, <1>2, <1>3, <1>4, <1>5

(* The sweep stops for good.                                               *)
LEMMA StepSweepStops ==
  ASSUME Inv, SweepStops
  PROVE  Inv'
<1> USE CallsAssumption DEF Inv, SweepStops, calls, closing, loop, log
<1>1. TypeOK'  BY ZenonT(30) DEF TypeOK
<1>2. CallsInv'  BY Zenon DEF TypeOK, CallsInv, LoopInv, PlacesInv, ChannelInv, ControlInv, BatchInv, ClosePath
<1>3. LoopInv'  BY Zenon DEF TypeOK, CallsInv, LoopInv, PlacesInv, ChannelInv, ControlInv, BatchInv, ClosePath
<1>4. PlacesInv'
  <2>1. UNCHANGED <<kind, pc, closer, requests, batch, control>>  OBVIOUS
  <2> QED  BY Zenon, <2>1, PlacesKept
<1>5. QuietInv'  BY Zenon DEF TypeOK, CallsInv, LoopInv, PlacesInv, ControlInv, QuietInv, ClosePath
<1> QED  BY Zenon, <1>1, <1>2, <1>3, <1>4, <1>5

(* Nothing happening changes nothing.                                      *)
LEMMA Stutter == ASSUME Inv, UNCHANGED vars PROVE Inv'
<1> USE DEF vars, calls, closing, loop, log
<1>1. TypeOK'  BY DEF Inv, TypeOK
<1>2. CallsInv'  BY Zenon DEF Inv, CallsInv
<1>3. LoopInv' /\ QuietInv'  BY Zenon DEF Inv, LoopInv, QuietInv
<1>4. PlacesInv'  BY Zenon, PlacesKept DEF Inv
<1> QED  BY Zenon, <1>1, <1>2, <1>3, <1>4 DEF Inv

-----------------------------------------------------------------------------
(* The invariant holds in every reachable state, for any set of calls and  *)
(* any capacity of the channel.                                            *)
THEOREM Invariance == Spec => []Inv
<1>1. Inv /\ [Next]_vars => Inv'
  <2> SUFFICES ASSUME Inv, [Next]_vars PROVE Inv'  OBVIOUS
  <2>1. ASSUME NEW c \in Calls, Close(c)  PROVE Inv'  BY Zenon, <2>1, StepClose
  <2>2. ASSUME NEW c \in Calls, NEW k \in {"write", "sync"}, submit(c, k)  PROVE Inv'
    BY Zenon, <2>2, StepSubmit
  <2>3. ASSUME NEW c \in Calls, CallStep(c)  PROVE Inv'
    BY Zenon, <2>3, StepSend, StepCloseLocks, StepCloseAwaitsFlush, StepCloseAwaitsSweep,
       StepCloseSends, StepCloseFinishes, StepCloseJoins DEF CallStep
  <2>4. CASE WriterStep
    BY Zenon, <2>4, StepReceive, StepDrainWrites, StepWriteBatch, StepHandleSync, StepHandleClose,
       StepWriteFinalSnapshot DEF WriterStep
  <2>5. CASE StopFlushing \/ Tick \/ SnapshotEnds \/ SweepStops
    BY Zenon, <2>5, StepStopFlushing, StepTick, StepSnapshotEnds, StepSweepStops
  <2>6. CASE UNCHANGED vars  BY Zenon, <2>6, Stutter
  <2> QED  BY Zenon, <2>1, <2>2, <2>3, <2>4, <2>5, <2>6 DEF Next
<1> QED  BY <1>1, InitInv, PTL DEF Spec

(* Once the writer has taken the request of Close, no call is left in the  *)
(* channel, in a batch or on its way there: submit holds the read lock     *)
(* from its look at closed to its send, and Close sets closed under the    *)
(* write lock.                                                             *)
THEOREM NoStrandedRequest == Spec => []NothingBehindClose
<1> QED  BY InvImplies, Invariance, PTL

(* Close releases the directory lock only after the writer, the snapshot,  *)
(* the sweep and the ticker have all ended.                                *)
THEOREM UnlockIsLast == Spec => []QuietWhenUnlocked
<1> QED  BY InvImplies, Invariance, PTL
-----------------------------------------------------------------------------
(* What Sync and Close cover, on top of Inv.                               *)

(* The log holds the records of the acknowledged writes and no others, and *)
(* what is stable is in the log; only calls that the writer, submit or     *)
(* another Close has answered have a result.                               *)
AckInv ==
  /\ \A c \in Calls :
       /\ pc[c] \notin {"drain", "returned"} => result[c] = "none"
       /\ pc[c] = "idle" => kind[c] = "none"
       /\ pc[c] = "join" => kind[c] = "close"
  /\ accepted = Acknowledged /\ stable \subseteq accepted
  /\ writer \in {"drain", "write"} => batch # <<>>

(* The last sync of the writer covered everything, or latched.             *)
CloseInv ==
  /\ writer \in {"final", "exited"} /\ ~latched => accepted \subseteq stable
  /\ \A c \in Calls : kind[c] = "close" /\ result[c] = "nil" =>
       writer = "exited" /\ accepted \subseteq stable

(* A write that the writer meets before the request of c.                  *)
Ahead(w, c) ==
  \/ Holds(batch, w)
  \/ \E i, j \in 1..Len(requests) : i < j /\ requests[i] = w /\ requests[j] = c

(* Of the writes sent before a Sync that still waits each is in the log or *)
(* ahead of it, or the Sync will find the store latched.                   *)
AheadInv ==
  \A c \in Calls : kind[c] = "sync" /\ pc[c] = "waiting" =>
    \A w \in before[c] : kind[w] = "write" /\ (w \in accepted \/ latched \/ Ahead(w, c))

CoverInv == AckInv /\ CloseInv /\ AheadInv /\ SyncCoversEarlierWrites

(* A Store that nobody has called covers everything.                       *)
LEMMA InitCover == Init => CoverInv
  BY Zenon DEF Init, CoverInv, AckInv, CloseInv, AheadInv, SyncCoversEarlierWrites, Acknowledged

(* CoverInv says of the two promises what the properties state.            *)
LEMMA CoverImplies == CoverInv => SyncCoversEarlierWrites /\ CloseCoversAcknowledged
  BY Zenon DEF CoverInv, AckInv, CloseInv, CloseCoversAcknowledged, Acknowledged

(* A step of one call, which the writer is not serving, to its label, with *)
(* a result unless it goes on: only a Close may return nil this way, and   *)
(* the writes before a Sync that enters the channel are ahead of it.       *)
LEMMA CoverMove ==
  ASSUME Inv, CoverInv, NEW c \in Calls, NEW label, NEW k, NEW r, NEW b,
         pc[c] \notin {"waiting", "returned"}, label # "idle",
         pc' = [pc EXCEPT ![c] = label], kind' = [kind EXCEPT ![c] = k],
         result' = [result EXCEPT ![c] = r], before' = [before EXCEPT ![c] = b],
         k = kind[c] \/ kind[c] = "none",
         label \notin {"drain", "returned"} => r = "none",
         label = "join" => k = "close",
         r = "nil" => k = "close" /\ writer = "exited" /\ accepted \subseteq stable,
         label = "waiting" /\ k = "sync" =>
           \A w \in b : w # c /\ kind[w] = "write" /\ (w \in accepted \/ Ahead(w, c)'),
         \A w, d : Ahead(w, d) => Ahead(w, d)',
         b \subseteq Calls,
         UNCHANGED <<writer, batch, log>>
  PROVE  CoverInv'
<1>1. /\ pc'[c] = label /\ kind'[c] = k /\ result'[c] = r /\ before'[c] = b
      /\ \A d \in Calls : d # c => /\ pc'[d] = pc[d] /\ kind'[d] = kind[d]
                                   /\ result'[d] = result[d] /\ before'[d] = before[d]
  BY Zenon DEF Inv, TypeOK
<1>2. c \notin Acknowledged
  BY ZenonT(30), CallsAssumption DEF Inv, CallsInv, ClosePath, CoverInv, AckInv, Acknowledged
<1>3. UNCHANGED <<accepted, stable, latched, writer, batch>>  BY Zenon DEF log
<1>4. Acknowledged' = Acknowledged  BY ZenonT(30), <1>1, <1>2 DEF Acknowledged
<1>5. AckInv'  BY ZenonT(30), <1>1, <1>3, <1>4 DEF CoverInv, AckInv
<1>6. CloseInv'  BY <1>1, <1>3 DEF CoverInv, CloseInv
<1>7. SyncCoversEarlierWrites'  BY ZenonT(30), <1>1, <1>3 DEF CoverInv, SyncCoversEarlierWrites
<1>8. AheadInv'
  <2> SUFFICES ASSUME NEW d \in Calls, kind'[d] = "sync", pc'[d] = "waiting", NEW w \in before'[d]
               PROVE  kind'[w] = "write" /\ (w \in accepted' \/ latched' \/ Ahead(w, d)')
    BY Zenon DEF AheadInv
  <2>1. CASE d = c  BY <2>1, <1>1, <1>3
  <2>2. CASE d # c
    <3>1. kind[d] = "sync" /\ pc[d] = "waiting" /\ w \in before[d]  BY Zenon, <2>2, <1>1
    <3>2. kind[w] = "write" /\ (w \in accepted \/ latched \/ Ahead(w, d))
      BY Zenon, <3>1 DEF CoverInv, AheadInv
    <3>3. kind'[w] = "write"
      <4>1. w \in Calls  BY Zenon, <3>1 DEF Inv, TypeOK
      <4> QED  BY Zenon, <3>2, <4>1, <1>1
    <3> QED  BY Zenon, <3>2, <3>3, <1>3
  <2> QED  BY Zenon, <2>1, <2>2
<1> QED  BY Zenon, <1>5, <1>6, <1>7, <1>8 DEF CoverInv

(* A step that answers no call keeps what it covers, when a sync only adds *)
(* accepted writes to the stable ones and no write loses its place.        *)
LEMMA CoverKept ==
  ASSUME CoverInv, UNCHANGED <<kind, pc, result, before, accepted>>,
         stable \subseteq stable', stable' \subseteq accepted, latched => latched',
         writer' \in {"drain", "write"} => batch' # <<>>,
         writer' \in {"final", "exited"} /\ ~latched' => accepted \subseteq stable',
         writer = "exited" => writer' = "exited",
         \A w, d : kind[w] = "write" /\ Ahead(w, d) => Ahead(w, d)'
  PROVE  CoverInv'
<1>1. AckInv'  BY Zenon DEF CoverInv, AckInv, Acknowledged
<1>2. CloseInv'  BY Zenon DEF CoverInv, CloseInv
<1>3. SyncCoversEarlierWrites'  BY Zenon DEF CoverInv, SyncCoversEarlierWrites
<1>4. AheadInv'
  <2> SUFFICES ASSUME NEW d \in Calls, kind[d] = "sync", pc[d] = "waiting", NEW w \in before[d]
               PROVE  kind[w] = "write" /\ (w \in accepted \/ latched' \/ Ahead(w, d)')
    BY Zenon DEF AheadInv
  <2>1. kind[w] = "write" /\ (w \in accepted \/ latched \/ Ahead(w, d))  BY Zenon DEF CoverInv, AheadInv
  <2> QED  BY Zenon, <2>1
<1> QED  BY Zenon, <1>1, <1>2, <1>3, <1>4 DEF CoverInv

(* Order in the channel when nothing enters or leaves it.                  *)
LEMMA AheadSame ==
  ASSUME UNCHANGED <<requests, batch>>
  PROVE  \A w, d : Ahead(w, d) => Ahead(w, d)'
  BY Zenon DEF Ahead, Holds

(* A send puts its request behind everything in the channel.               *)
LEMMA AheadAppend ==
  ASSUME requests \in Seq(Calls), NEW c \in Calls, requests' = Append(requests, c), batch' = batch
  PROVE  /\ \A w, d : Ahead(w, d) => Ahead(w, d)'
         /\ \A w : Holds(requests, w) \/ Holds(batch, w) => Ahead(w, c)'
<1>1. /\ Len(requests) \in Nat /\ Len(requests') = Len(requests) + 1
      /\ \A i \in 1..Len(requests) : requests'[i] = requests[i]
      /\ requests'[Len(requests) + 1] = c
  BY AppendFacts
<1>2. ASSUME NEW w, NEW d, Ahead(w, d)  PROVE Ahead(w, d)'
  BY SMTT(30), <1>1, <1>2 DEF Ahead, Holds
<1>3. ASSUME NEW w, Holds(requests, w) \/ Holds(batch, w)  PROVE Ahead(w, c)'
  <2>1. CASE Holds(batch, w)  BY Zenon, <2>1 DEF Ahead, Holds
  <2>2. CASE Holds(requests, w)
    <3>1. PICK i \in 1..Len(requests) : requests[i] = w  BY Zenon, <2>2 DEF Holds
    <3>2. /\ i \in 1..Len(requests') /\ Len(requests) + 1 \in 1..Len(requests')
          /\ i < Len(requests) + 1 /\ requests'[i] = w
      BY <3>1, <1>1
    <3> QED  BY Zenon, <3>2, <1>1 DEF Ahead
  <2> QED  BY Zenon, <1>3, <2>1, <2>2
<1> QED  BY Zenon, <1>2, <1>3

(* The head of the channel leaves it: a write to the batch, so that it is  *)
(* still ahead of all that it was ahead of.                                *)
LEMMA AheadTail ==
  ASSUME requests \in Seq(Calls), requests # <<>>, requests' = Tail(requests),
         \A w : Holds(batch, w) => Holds(batch', w),
         kind[Head(requests)] = "write" => Holds(batch', Head(requests))
  PROVE  \A w, d : kind[w] = "write" /\ Ahead(w, d) => Ahead(w, d)'
<1>1. /\ Head(requests) = requests[1] /\ Len(requests) \in Nat \ {0}
      /\ Len(requests') = Len(requests) - 1
      /\ \A i \in 1..Len(requests') : requests'[i] = requests[i + 1]
  BY Zenon, TailFacts
<1> SUFFICES ASSUME NEW w, NEW d, kind[w] = "write", Ahead(w, d)  PROVE Ahead(w, d)'  OBVIOUS
<1>2. CASE Holds(batch, w)
  <2>1. Holds(batch', w)  BY Zenon, <1>2
  <2> QED  BY Zenon, <2>1 DEF Ahead, Holds
<1>3. CASE ~Holds(batch, w)
  <2>1. PICK i, j \in 1..Len(requests) : i < j /\ requests[i] = w /\ requests[j] = d
    BY Zenon, <1>3 DEF Ahead
  <2>2. CASE i = 1
    <3>1. Holds(batch', w)  BY Zenon, <1>1, <2>1, <2>2
    <3> QED  BY Zenon, <3>1 DEF Ahead, Holds
  <2>3. CASE i # 1
    <3>1. /\ i - 1 \in 1..Len(requests') /\ j - 1 \in 1..Len(requests') /\ i - 1 < j - 1
          /\ (i - 1) + 1 = i /\ (j - 1) + 1 = j
      BY <1>1, <2>1, <2>3
    <3>2. requests'[i - 1] = w /\ requests'[j - 1] = d  BY Zenon, <1>1, <2>1, <3>1
    <3> QED  BY Zenon, <3>1, <3>2 DEF Ahead
  <2> QED  BY Zenon, <2>2, <2>3
<1> QED  BY Zenon, <1>2, <1>3

-----------------------------------------------------------------------------
(* submit gives a call its kind, and refuses it when closed.               *)
LEMMA CoverSubmit ==
  ASSUME Inv, CoverInv, NEW c \in Calls, NEW k \in {"write", "sync"}, submit(c, k)
  PROVE  CoverInv'
<1>1. /\ pc[c] = "idle" /\ kind[c] = "none" /\ result[c] = "none" /\ before[c] \subseteq Calls
      /\ kind' = [kind EXCEPT ![c] = k] /\ before' = [before EXCEPT ![c] = before[c]]
      /\ UNCHANGED <<requests, writer, batch, log>>
  BY Zenon DEF submit, loop, Inv, TypeOK, CoverInv, AckInv
<1>2. \A w, d : Ahead(w, d) => Ahead(w, d)'  BY Zenon, <1>1, AheadSame
<1>3. CASE closed
  <2>1. /\ pc' = [pc EXCEPT ![c] = "returned"]
        /\ result' = [result EXCEPT ![c] = "closed"]
    BY Zenon, <1>3 DEF submit, Return
  <2> QED  BY Zenon, <1>1, <1>2, <2>1, CoverMove
<1>4. CASE ~closed
  <2>1. pc' = [pc EXCEPT ![c] = "sending"] /\ result' = [result EXCEPT ![c] = "none"]
    BY ZenonT(30), <1>1, <1>4 DEF submit, Goto, Inv, TypeOK
  <2> QED  BY Zenon, <1>1, <1>2, <2>1, CoverMove
<1> QED  BY Zenon, <1>3, <1>4

(* What a Sync is to cover is ahead of it when it enters the channel.      *)
LEMMA CoverSend ==
  ASSUME Inv, CoverInv, NEW c \in Calls, Send(c)
  PROVE  CoverInv'
<1> DEFINE b == IF kind[c] = "sync" THEN Pending ELSE {}
<1>1. /\ pc[c] = "sending" /\ result[c] = "none" /\ b \subseteq Calls
      /\ pc' = [pc EXCEPT ![c] = "waiting"] /\ kind' = [kind EXCEPT ![c] = kind[c]]
      /\ result' = [result EXCEPT ![c] = "none"] /\ before' = [before EXCEPT ![c] = b]
      /\ requests' = Append(requests, c) /\ UNCHANGED <<writer, batch, log>>
  BY Zenon DEF Send, Goto, loop, Inv, TypeOK, CoverInv, AckInv, Pending, Acknowledged
<1>2. /\ \A w, d : Ahead(w, d) => Ahead(w, d)'
      /\ \A w : Holds(requests, w) \/ Holds(batch, w) => Ahead(w, c)'
  BY Zenon, <1>1, AheadAppend DEF Inv, TypeOK
<1>3. ASSUME NEW w \in b, kind[c] = "sync"
      PROVE  w # c /\ kind[w] = "write" /\ (w \in accepted \/ Ahead(w, c)')
  <2>1. w \in Pending /\ w \in Calls /\ kind[w] = "write"
    BY Zenon, <1>3 DEF Pending, Acknowledged
  <2>2. CASE w \in Acknowledged  BY Zenon, <2>1, <2>2, <1>3 DEF CoverInv, AckInv
  <2>3. CASE pc[w] = "waiting"
    <3>1. control # w  BY Zenon, <2>1, <2>3, CallsAssumption DEF Inv, PlacesInv, ControlInv
    <3>2. Holds(requests, w) \/ Holds(batch, w)
      BY Zenon, <2>1, <2>3, <3>1 DEF Inv, PlacesInv, WaitingInv
    <3> QED  BY Zenon, <2>1, <3>2, <1>2, <1>3
  <2> QED  BY Zenon, <2>1, <2>2, <2>3 DEF Pending
<1> HIDE DEF b
<1> QED  BY Zenon, <1>1, <1>2, <1>3, CoverMove

(* The steps of Close that answer nobody but itself.                       *)
LEMMA CoverClosePath ==
  ASSUME Inv, CoverInv, NEW c \in Calls,
         CloseLocks(c) \/ CloseAwaitsFlush(c) \/ CloseAwaitsSweep(c) \/ CloseSends(c)
  PROVE  CoverInv'
<1>1. PICK label \in {"flush", "sweep", "send", "drain"} : pc' = [pc EXCEPT ![c] = label]
  BY Zenon DEF CloseLocks, CloseAwaitsFlush, CloseAwaitsSweep, CloseSends, Goto
<1>2. /\ pc[c] \in {"lock", "flush", "sweep", "send"} /\ result[c] = "none"
      /\ UNCHANGED <<kind, result, before, writer, batch, log>>
      /\ requests' = requests \/ requests' = Append(requests, c)
  BY Zenon DEF CloseLocks, CloseAwaitsFlush, CloseAwaitsSweep, CloseSends, loop, CoverInv, AckInv
<1>3. /\ kind' = [kind EXCEPT ![c] = kind[c]] /\ result' = [result EXCEPT ![c] = "none"]
      /\ before' = [before EXCEPT ![c] = before[c]] /\ before[c] \subseteq Calls
  BY Zenon, <1>2 DEF Inv, TypeOK
<1>4. \A w, d : Ahead(w, d) => Ahead(w, d)'
  <2>1. CASE requests' = requests  BY Zenon, <1>2, <2>1, AheadSame
  <2>2. CASE requests' = Append(requests, c)  BY Zenon, <1>2, <2>2, AheadAppend DEF Inv, TypeOK
  <2> QED  BY Zenon, <1>2, <2>1, <2>2
<1>5. /\ pc[c] \notin {"waiting", "returned"} /\ label # "idle" /\ label # "join"
      /\ label # "waiting" /\ UNCHANGED <<writer, batch, log>>
  BY Zenon, <1>1, <1>2
<1> QED  BY Zenon, <1>1, <1>3, <1>4, <1>5, CoverMove

(* Close begins, finishes with the answer of the writer or with an error,  *)
(* or returns what the Close it waited for returned.                       *)
LEMMA CoverCloseEnds ==
  ASSUME Inv, CoverInv, NEW c \in Calls, Close(c) \/ CloseFinishes(c) \/ CloseJoins(c)
  PROVE  CoverInv'
<1>1. /\ before' = [before EXCEPT ![c] = before[c]] /\ before[c] \subseteq Calls
      /\ UNCHANGED <<requests, writer, batch, log>>
  BY Zenon DEF Close, CloseFinishes, CloseJoins, loop, Inv, TypeOK
<1>2. \A w, d : Ahead(w, d) => Ahead(w, d)'  BY Zenon, <1>1, AheadSame
<1>3. CASE Close(c)
  <2>1. PICK label \in {"lock", "join"} : pc' = [pc EXCEPT ![c] = label]
    BY Zenon, <1>3 DEF Close, Goto
  <2>2. /\ pc[c] = "idle" /\ kind[c] = "none" /\ kind' = [kind EXCEPT ![c] = "close"]
        /\ result' = [result EXCEPT ![c] = "none"]
    BY Zenon, <1>3 DEF Close, Inv, TypeOK, CoverInv, AckInv
  <2> QED  BY Zenon, <1>1, <1>2, <2>1, <2>2, CoverMove
<1>4. CASE CloseFinishes(c)
  <2>1. PICK r \in {result[c], "error"} :
          /\ pc[c] = "drain" /\ pc' = [pc EXCEPT ![c] = "returned"]
          /\ kind' = [kind EXCEPT ![c] = kind[c]] /\ result' = [result EXCEPT ![c] = r]
    BY Zenon, <1>4 DEF CloseFinishes, Return, Inv, TypeOK
  <2>2. kind[c] = "close"  BY Zenon, <2>1, CallsAssumption DEF Inv, CallsInv, ClosePath
  <2>3. r = "nil" => writer = "exited" /\ accepted \subseteq stable
    BY Zenon, <2>1, <2>2 DEF CoverInv, CloseInv
  <2> QED  BY Zenon, <1>1, <1>2, <2>1, <2>2, <2>3, CoverMove
<1>5. CASE CloseJoins(c)
  <2>1. /\ pc[c] = "join" /\ kind[c] = "close" /\ pc' = [pc EXCEPT ![c] = "returned"]
        /\ kind' = [kind EXCEPT ![c] = kind[c]]
        /\ result' = [result EXCEPT ![c] = result[closer]]
    BY Zenon, <1>5 DEF CloseJoins, Return, Inv, TypeOK, CoverInv, AckInv
  <2>2. closer \in Calls /\ kind[closer] = "close"  BY Zenon, <2>1 DEF Inv, TypeOK, CallsInv
  <2>3. result[closer] = "nil" => writer = "exited" /\ accepted \subseteq stable
    BY Zenon, <2>2 DEF CoverInv, CloseInv
  <2> QED  BY Zenon, <1>1, <1>2, <2>1, <2>3, CoverMove
<1> QED  BY Zenon, <1>3, <1>4, <1>5

(* The writer takes requests in the order of the channel.                  *)
LEMMA CoverTakes ==
  ASSUME Inv, CoverInv, Receive \/ drainWrites
  PROVE  CoverInv'
<1> DEFINE h == Head(requests)
<1>1. /\ UNCHANGED <<kind, pc, result, before, accepted, stable, latched>>
      /\ writer \in {"select", "drain"} /\ writer' \in {"drain", "write", "control"}
      /\ batch \in Seq(Calls) /\ requests \in Seq(Calls)
  BY Zenon DEF Receive, drainWrites, calls, log, Inv, TypeOK
<1>2. CASE requests = <<>>
  <2>1. UNCHANGED <<requests, batch>> /\ writer = "drain"  BY Zenon, <1>2 DEF Receive, drainWrites
  <2>2. batch' # <<>>  BY Zenon, <2>1 DEF CoverInv, AckInv
  <2>3. \A w, d : Ahead(w, d) => Ahead(w, d)'  BY Zenon, <2>1, AheadSame
  <2> QED  BY Zenon, <1>1, <2>2, <2>3, CoverKept DEF CoverInv, AckInv
<1>3. CASE requests # <<>>
  <2>1. requests' = Tail(requests) /\ h \in Calls
    BY Zenon, <1>1, <1>3, TailFacts DEF Receive, drainWrites
  <2>2. /\ writer' \in {"drain", "write"} => batch' # <<>>
        /\ \A w : Holds(batch, w) => Holds(batch', w)
        /\ kind[h] = "write" => Holds(batch', h)
    <3>1. CASE Receive
      <4>1. batch = <<>>  BY Zenon, <3>1 DEF Receive, Inv, LoopInv
      <4>2. \A w : ~Holds(batch, w)  BY <4>1 DEF Holds
      <4>3. <<h>> # <<>> /\ Holds(<<h>>, h)  BY DEF Holds
      <4>4. \/ kind[h] = "write" /\ batch' = <<h>>
            \/ kind[h] # "write" /\ writer' = "control"
        BY Zenon, <3>1 DEF Receive
      <4> HIDE DEF h
      <4> QED  BY Zenon, <4>2, <4>3, <4>4
    <3>2. CASE drainWrites
      <4>1. batch # <<>>  BY Zenon, <3>2 DEF drainWrites, CoverInv, AckInv
      <4>2. CASE kind[h] = "write"
        <5>1. batch' = Append(batch, h)  BY Zenon, <1>3, <3>2, <4>2 DEF drainWrites
        <5>2. /\ Len(batch) \in Nat /\ Len(batch') = Len(batch) + 1
              /\ \A i \in 1..Len(batch) : batch'[i] = batch[i]
              /\ batch'[Len(batch) + 1] = h
          BY <1>1, <2>1, <5>1, AppendFacts
        <5>3. batch' # <<>>  BY <5>2
        <5> QED  BY <5>2, <5>3 DEF Holds
      <4>3. CASE kind[h] # "write"
        <5>1. batch' = batch  BY Zenon, <1>3, <3>2, <4>3 DEF drainWrites
        <5> QED  BY Zenon, <4>1, <4>3, <5>1
      <4> QED  BY Zenon, <4>2, <4>3
    <3> QED  BY Zenon, <3>1, <3>2
  <2>3. \A w, d : kind[w] = "write" /\ Ahead(w, d) => Ahead(w, d)'
    BY Zenon, <1>1, <1>3, <2>1, <2>2, AheadTail
  <2> QED  BY Zenon, <1>1, <2>2, <2>3, CoverKept DEF CoverInv, AckInv
<1> QED  BY Zenon, <1>2, <1>3

(* Of a batch either every write reaches the log or the store is latched,  *)
(* and a latched store stays latched.                                      *)
LEMMA CoverWriteBatch ==
  ASSUME Inv, CoverInv, writeBatch
  PROVE  CoverInv'
<1>1. PICK p \in 0..Len(batch), rollFails \in BOOLEAN :
        (latched => p = 0) /\ respondAll(p) /\ latched' = (p < Len(batch) \/ rollFails)
  BY Zenon DEF writeBatch
<1>2. /\ writer = "write" /\ writer' \in {"select", "control"} /\ batch' = <<>>
      /\ UNCHANGED <<kind, before, requests, stable>>
  BY Zenon DEF writeBatch
<1> DEFINE q == Range(SubSeq(batch, 1, p))
<1>3. batch \in Seq(Calls) /\ Len(batch) \in Nat /\ \A c : c \in Range(batch) <=> Holds(batch, c)
  BY DEF Inv, TypeOK, Range, Holds
<1>4. /\ \A c \in q : Holds(batch, c) /\ c \in Calls
      /\ p = Len(batch) => \A c : Holds(batch, c) => c \in q
  <2>1. /\ SubSeq(batch, 1, p) \in Seq(Calls) /\ Len(SubSeq(batch, 1, p)) = p
        /\ \A i \in 1..p : SubSeq(batch, 1, p)[i] = batch[i]
    BY <1>1, <1>3
  <2>2. \A c : c \in q <=> \E i \in 1..p : batch[i] = c  BY <2>1 DEF Range
  <2>3. 1..p \subseteq 1..Len(batch)  BY <1>1, <1>3
  <2>4. \A i \in 1..Len(batch) : batch[i] \in Calls  BY <1>3
  <2> HIDE DEF q
  <2> QED  BY Zenon, <2>2, <2>3, <2>4 DEF Holds
<1>5. /\ accepted' = accepted \cup q
      /\ \A c \in Calls :
           /\ pc'[c] = IF Holds(batch, c) THEN "returned" ELSE pc[c]
           /\ result'[c] = IF c \in q THEN "nil" ELSE IF Holds(batch, c) THEN "error" ELSE result[c]
  BY Zenon, <1>1, <1>3 DEF respondAll
<1>6. \A c : Holds(batch, c) => pc[c] = "waiting" /\ kind[c] = "write"
  BY Zenon DEF Inv, PlacesInv, BatchInv, Holds
<1>7. latched => latched'
  <2>1. batch # <<>>  BY Zenon, <1>2 DEF CoverInv, AckInv
  <2>2. 0 < Len(batch)  BY <2>1, <1>3
  <2> QED  BY Zenon, <1>1, <2>2
<1>8. \A w : Holds(batch, w) => w \in accepted' \/ latched'
  <2>1. CASE p = Len(batch)  BY Zenon, <2>1, <1>4, <1>5
  <2>2. CASE p # Len(batch)
    <3>1. p < Len(batch)  BY <2>2, <1>1, <1>3
    <3> QED  BY Zenon, <3>1, <1>1
  <2> QED  BY Zenon, <2>1, <2>2
<1> HIDE DEF q
<1>9. Acknowledged' = Acknowledged \cup q
  <2>1. \A c \in Calls : Holds(batch, c) => c \notin Acknowledged
    BY Zenon, <1>6 DEF CoverInv, AckInv, Acknowledged
  <2>2. \A c \in Calls : c \in Acknowledged' <=> c \in Acknowledged \/ c \in q
    BY Zenon, <1>2, <1>4, <1>5, <1>6, <2>1 DEF Acknowledged
  <2> QED  BY Zenon, <1>4, <2>2 DEF Acknowledged
<1>10. AckInv'
  <2>1. \A c \in Calls : pc'[c] \notin {"drain", "returned"} => result'[c] = "none"
    BY Zenon, <1>4, <1>5 DEF CoverInv, AckInv
  <2>2. \A c \in Calls : /\ pc'[c] = "idle" => kind'[c] = "none"
                         /\ pc'[c] = "join" => kind'[c] = "close"
    BY Zenon, <1>2, <1>5 DEF CoverInv, AckInv
  <2> QED  BY Zenon, <1>2, <1>5, <1>9, <2>1, <2>2 DEF CoverInv, AckInv
<1>11. CloseInv'  BY ZenonT(30), <1>2, <1>4, <1>5, <1>6 DEF CoverInv, CloseInv
<1>12. SyncCoversEarlierWrites'
  BY Zenon, <1>2, <1>4, <1>5, <1>6 DEF CoverInv, SyncCoversEarlierWrites
<1>13. AheadInv'
  <2> SUFFICES ASSUME NEW d \in Calls, kind[d] = "sync", pc'[d] = "waiting", NEW w \in before[d]
               PROVE  kind[w] = "write" /\ (w \in accepted' \/ latched' \/ Ahead(w, d)')
    BY Zenon, <1>2 DEF AheadInv
  <2>1. pc[d] = "waiting"  BY Zenon, <1>5
  <2>2. kind[w] = "write" /\ (w \in accepted \/ latched \/ Ahead(w, d))
    BY Zenon, <2>1 DEF CoverInv, AheadInv
  <2>3. Ahead(w, d) => Holds(batch, w) \/ Ahead(w, d)'  BY Zenon, <1>2 DEF Ahead
  <2> QED  BY Zenon, <1>5, <1>7, <1>8, <2>2, <2>3
<1> QED  BY Zenon, <1>10, <1>11, <1>12, <1>13 DEF CoverInv

(* The Sync that the writer serves has nothing ahead of it any more, so    *)
(* its fsync covers what it is to cover.                                   *)
LEMMA CoverHandleSync ==
  ASSUME Inv, CoverInv, HandleSync
  PROVE  CoverInv'
<1>1. /\ writer = "control" /\ writer' = "select" /\ kind[control] = "sync"
      /\ UNCHANGED <<kind, before, requests, batch, accepted>>
  BY Zenon DEF HandleSync
<1>2. /\ control \in Calls /\ pc[control] = "waiting" /\ batch = <<>> /\ ~Holds(requests, control)
  BY Zenon, <1>1, CallsAssumption DEF Inv, TypeOK, CallsInv, LoopInv, PlacesInv, ControlInv
<1>3. PICK r \in {"nil", "error"} :
        /\ Return(control, r)
        /\ r = "nil" => ~latched /\ stable' = accepted
        /\ stable' = stable \/ stable' = accepted
        /\ latched => latched'
  <2>1. CASE latched  BY Zenon, <2>1 DEF HandleSync
  <2>2. CASE ~latched
    <3>1. PICK ok \in BOOLEAN : SyncWAL(ok) /\ Return(control, IF ok THEN "nil" ELSE "error")
      BY Zenon, <2>2 DEF HandleSync
    <3>2. CASE ok  BY Zenon, <2>2, <3>1, <3>2 DEF SyncWAL
    <3>3. CASE ~ok  BY Zenon, <2>2, <3>1, <3>3 DEF SyncWAL
    <3> QED  BY Zenon, <3>2, <3>3
  <2> QED  BY Zenon, <2>1, <2>2
<1>4. /\ pc'[control] = "returned" /\ result'[control] = r
      /\ \A d \in Calls : d # control => pc'[d] = pc[d] /\ result'[d] = result[d]
  BY Zenon, <1>2, <1>3 DEF Return, Inv, TypeOK
<1>5. stable \subseteq stable' /\ stable' \subseteq accepted  BY Zenon, <1>3 DEF CoverInv, AckInv
<1>6. Acknowledged' = Acknowledged  BY Zenon, <1>1, <1>2, <1>4 DEF Acknowledged
<1>7. AckInv'  BY Zenon, <1>1, <1>4, <1>5, <1>6 DEF CoverInv, AckInv
<1>8. CloseInv'  BY Zenon, <1>1, <1>2, <1>4 DEF CoverInv, CloseInv
<1>9. SyncCoversEarlierWrites'
  <2>1. r = "nil" => before[control] \subseteq accepted
    <3> SUFFICES ASSUME r = "nil", NEW w \in before[control]  PROVE w \in accepted  OBVIOUS
    <3>1. ~Ahead(w, control)  BY <1>2 DEF Ahead, Holds
    <3> QED  BY Zenon, <1>1, <1>2, <1>3, <3>1 DEF CoverInv, AheadInv
  <2> QED  BY Zenon, <1>1, <1>3, <1>4, <1>5, <2>1 DEF CoverInv, SyncCoversEarlierWrites
<1>10. AheadInv'
  <2> SUFFICES ASSUME NEW d \in Calls, kind[d] = "sync", pc'[d] = "waiting", NEW w \in before[d]
               PROVE  kind[w] = "write" /\ (w \in accepted \/ latched' \/ Ahead(w, d)')
    BY Zenon, <1>1 DEF AheadInv
  <2>1. pc[d] = "waiting"  BY Zenon, <1>4
  <2>2. Ahead(w, d) => Ahead(w, d)'  BY Zenon, <1>1, AheadSame
  <2> QED  BY Zenon, <1>3, <2>1, <2>2 DEF CoverInv, AheadInv
<1> QED  BY Zenon, <1>7, <1>8, <1>9, <1>10 DEF CoverInv

(* The answer to Close is nil only when the last sync covered everything.  *)
LEMMA CoverFinal ==
  ASSUME Inv, CoverInv, writeFinalSnapshot
  PROVE  CoverInv'
<1>1. /\ writer = "final" /\ writer' = "exited"
      /\ UNCHANGED <<kind, pc, before, requests, batch, accepted, stable, latched>>
  BY Zenon DEF writeFinalSnapshot, log
<1>2. /\ control \in Calls /\ kind[control] = "close" /\ pc[control] \in {"drain", "returned"}
  BY Zenon, <1>1, CallsAssumption DEF Inv, TypeOK, CallsInv, LoopInv, PlacesInv, ControlInv, ClosePath
<1>3. PICK r \in {"nil", "error"} :
        result' = [result EXCEPT ![control] = r] /\ (r = "nil" => ~latched)
  BY Zenon DEF writeFinalSnapshot
<1>4. /\ result'[control] = r
      /\ \A d \in Calls : d # control => result'[d] = result[d]
  BY Zenon, <1>2, <1>3 DEF Inv, TypeOK
<1>5. Acknowledged' = Acknowledged  BY Zenon, <1>1, <1>2, <1>4 DEF Acknowledged
<1>6. AckInv'  BY Zenon, <1>1, <1>2, <1>4, <1>5 DEF CoverInv, AckInv
<1>7. CloseInv'  BY Zenon, <1>1, <1>3, <1>4 DEF CoverInv, CloseInv
<1>8. SyncCoversEarlierWrites'
  BY Zenon, <1>1, <1>2, <1>4 DEF CoverInv, SyncCoversEarlierWrites
<1>9. AheadInv'  BY <1>1 DEF CoverInv, AheadInv, Ahead, Holds
<1> QED  BY Zenon, <1>6, <1>7, <1>8, <1>9 DEF CoverInv

(* The sync of Close and of the ticker, and the steps that touch no call   *)
(* and no record.                                                          *)
LEMMA CoverBackground ==
  ASSUME Inv, CoverInv,
         HandleClose \/ Tick \/ StopFlushing \/ SnapshotEnds \/ SweepStops \/ UNCHANGED vars
  PROVE  CoverInv'
<1>1. UNCHANGED <<kind, pc, result, before, accepted, requests, batch>>
  BY Zenon DEF HandleClose, Tick, StopFlushing, SnapshotEnds, SweepStops, vars, calls, loop, log
<1>2. \A w, d : Ahead(w, d) => Ahead(w, d)'  BY Zenon, <1>1, AheadSame
<1>3. stable \subseteq accepted  BY Zenon DEF CoverInv, AckInv
<1>4. CASE HandleClose
  <2>1. writer = "control" /\ writer' = "final" /\ \E ok \in BOOLEAN : SyncWAL(ok)
    BY Zenon, <1>4 DEF HandleClose
  <2>2. /\ stable \subseteq stable' /\ stable' \subseteq accepted /\ (latched => latched')
        /\ ~latched' => accepted \subseteq stable'
    BY Zenon, <1>3, <2>1 DEF SyncWAL
  <2> QED  BY Zenon, <1>1, <1>2, <2>1, <2>2, CoverKept
<1>5. CASE Tick
  <2>1. writer = "select" /\ writer' = "select" /\ \E ok \in BOOLEAN : SyncWAL(ok)
    BY Zenon, <1>5 DEF Tick, loop
  <2>2. stable \subseteq stable' /\ stable' \subseteq accepted /\ (latched => latched')
    BY Zenon, <1>3, <2>1 DEF SyncWAL
  <2> QED  BY Zenon, <1>1, <1>2, <2>1, <2>2, CoverKept
<1>6. CASE StopFlushing \/ SnapshotEnds \/ SweepStops \/ UNCHANGED vars
  <2>1. UNCHANGED <<writer, stable, latched>>
    BY Zenon, <1>6 DEF StopFlushing, SnapshotEnds, SweepStops, vars, loop, log
  <2>2. /\ writer \in {"drain", "write"} => batch # <<>>
        /\ writer \in {"final", "exited"} /\ ~latched => accepted \subseteq stable
    BY Zenon DEF CoverInv, AckInv, CloseInv
  <2> QED  BY Zenon, <1>1, <1>2, <1>3, <2>1, <2>2, CoverKept
<1> QED  BY Zenon, <1>4, <1>5, <1>6

-----------------------------------------------------------------------------
(* CoverInv holds in every reachable state, for any set of calls and any   *)
(* capacity of the channel.                                                *)
THEOREM CoverInvariance == Spec => []CoverInv
<1>1. Inv /\ CoverInv /\ [Next]_vars => CoverInv'
  <2> SUFFICES ASSUME Inv, CoverInv, [Next]_vars PROVE CoverInv'  OBVIOUS
  <2>1. ASSUME NEW c \in Calls, Close(c)  PROVE CoverInv'  BY Zenon, <2>1, CoverCloseEnds
  <2>2. ASSUME NEW c \in Calls, NEW k \in {"write", "sync"}, submit(c, k)  PROVE CoverInv'
    BY Zenon, <2>2, CoverSubmit
  <2>3. ASSUME NEW c \in Calls, CallStep(c)  PROVE CoverInv'
    BY Zenon, <2>3, CoverSend, CoverClosePath, CoverCloseEnds DEF CallStep
  <2>4. CASE WriterStep
    BY Zenon, <2>4, CoverTakes, CoverWriteBatch, CoverHandleSync, CoverBackground, CoverFinal
       DEF WriterStep
  <2>5. CASE StopFlushing \/ Tick \/ SnapshotEnds \/ SweepStops \/ UNCHANGED vars
    BY Zenon, <2>5, CoverBackground
  <2> QED  BY Zenon, <2>1, <2>2, <2>3, <2>4, <2>5 DEF Next
<1> QED  BY <1>1, InitCover, Invariance, PTL DEF Spec

(* A Sync that returns nil has made stable every write whose request was   *)
(* in the channel before its own: the channel and the batch keep their     *)
(* order, and a batch that fails latches the store, which fails the Sync.  *)
THEOREM SyncCovers == Spec => []SyncCoversEarlierWrites
<1> QED  BY CoverImplies, CoverInvariance, PTL

(* A Close that returns nil leaves every acknowledged write stable: its    *)
(* request is the last one the writer serves, and its sync follows every   *)
(* write the log accepted.  A write refused with ErrClosed is not in it.   *)
THEOREM CloseCovers == Spec => []CloseCoversAcknowledged
<1> QED  BY CoverImplies, CoverInvariance, PTL

-----------------------------------------------------------------------------
(* closeDone opens when the call inside closeOnce.Do returns, and not      *)
(* before the lock is gone; every Close that has returned has its outcome. *)
EndInv ==
  /\ closeDone => ~lockHeld /\ closer # NoCall /\ pc[closer] = "returned"
  /\ \A c \in Calls : kind[c] = "close" /\ pc[c] = "returned" =>
                       closeDone /\ result[c] = result[closer]

(* A step that ends no Close and gives no new answer to one that has ended.*)
LEMMA EndKept ==
  ASSUME EndInv, UNCHANGED <<closeDone, lockHeld, closer>>,
         closeDone => pc'[closer] = pc[closer] /\ result'[closer] = result[closer],
         \A c \in Calls : kind'[c] = "close" /\ pc'[c] = "returned" =>
           kind[c] = "close" /\ pc[c] = "returned" /\ result'[c] = result[c]
  PROVE  EndInv'
  BY Zenon DEF EndInv

(* A call that is under way moves on, and is no Close that returns.        *)
LEMMA EndMove ==
  ASSUME Inv, EndInv, NEW c \in Calls, NEW label, NEW r, NEW k, pc[c] # "returned",
         label # "returned" \/ k # "close",
         pc' = [pc EXCEPT ![c] = label], kind' = [kind EXCEPT ![c] = k],
         result' = [result EXCEPT ![c] = r], UNCHANGED <<closeDone, lockHeld>>,
         closer' = closer \/ closer = NoCall
  PROVE  EndInv'
<1>1. /\ pc'[c] = label /\ kind'[c] = k
      /\ \A d \in Calls : d # c => pc'[d] = pc[d] /\ kind'[d] = kind[d] /\ result'[d] = result[d]
  BY Zenon DEF Inv, TypeOK
<1>2. closeDone => closer' = closer /\ closer \in Calls /\ closer # c
  BY Zenon DEF EndInv, Inv, TypeOK
<1>3. \A d \in Calls : kind'[d] = "close" /\ pc'[d] = "returned" =>
        d # c /\ kind[d] = "close" /\ pc[d] = "returned" /\ result'[d] = result[d]
  BY Zenon, <1>1
<1>4. ASSUME closeDone'
      PROVE  ~lockHeld' /\ closer' # NoCall /\ pc'[closer'] = "returned" /\ result'[closer'] = result[closer]
  <2>1. closeDone  BY Zenon, <1>4
  <2> QED  BY Zenon, <1>1, <1>2, <2>1 DEF EndInv
<1>5. ASSUME NEW d \in Calls, kind'[d] = "close", pc'[d] = "returned"
      PROVE  closeDone' /\ result'[d] = result'[closer']
  <2>1. closeDone /\ result[d] = result[closer] /\ result'[d] = result[d]  BY Zenon, <1>3, <1>5 DEF EndInv
  <2> QED  BY Zenon, <1>4, <2>1
<1> QED  BY Zenon, <1>4, <1>5 DEF EndInv

(* Every step of a call.                                                   *)
LEMMA EndCallStep ==
  ASSUME Inv, EndInv, NEW c \in Calls,
         Close(c) \/ CallStep(c) \/ \E k \in {"write", "sync"} : submit(c, k)
  PROVE  EndInv'
<1>1. kind = [kind EXCEPT ![c] = kind[c]] /\ result = [result EXCEPT ![c] = result[c]]
  BY Zenon DEF Inv, TypeOK
<1>2. CASE \E k \in {"write", "sync"} : submit(c, k)
  <2>1. PICK k \in {"write", "sync"} : submit(c, k)  BY Zenon, <1>2
  <2>2. /\ pc[c] = "idle" /\ k # "close" /\ kind' = [kind EXCEPT ![c] = k]
        /\ UNCHANGED <<closeDone, lockHeld, closer>>
    BY Zenon, <2>1 DEF submit, closing
  <2>3. CASE closed
    <3>1. pc' = [pc EXCEPT ![c] = "returned"] /\ result' = [result EXCEPT ![c] = "closed"]
      BY Zenon, <2>1, <2>3 DEF submit, Return
    <3> QED  BY Zenon, <2>2, <3>1, EndMove
  <2>4. CASE ~closed
    <3>1. pc' = [pc EXCEPT ![c] = "sending"] /\ result' = [result EXCEPT ![c] = result[c]]
      BY Zenon, <1>1, <2>1, <2>4 DEF submit, Goto
    <3> QED  BY Zenon, <2>2, <3>1, EndMove
  <2> QED  BY Zenon, <2>3, <2>4
<1>3. CASE Close(c)
  <2>1. PICK label \in {"lock", "join"} : pc' = [pc EXCEPT ![c] = label]
    BY Zenon, <1>3 DEF Close, Goto
  <2>2. /\ pc[c] = "idle" /\ kind' = [kind EXCEPT ![c] = "close"]
        /\ UNCHANGED <<closeDone, lockHeld>> /\ (closer' = closer \/ closer = NoCall)
        /\ result' = [result EXCEPT ![c] = result[c]]
    BY Zenon, <1>1, <1>3 DEF Close
  <2>3. label # "returned" /\ pc[c] # "returned"  BY Zenon, <2>1, <2>2
  <2> QED  BY Zenon, <2>1, <2>2, <2>3, EndMove
<1>4. CASE Send(c) \/ CloseLocks(c) \/ CloseAwaitsFlush(c) \/ CloseAwaitsSweep(c) \/ CloseSends(c)
  <2>1. PICK label \in {"waiting", "flush", "sweep", "send", "drain"} : pc' = [pc EXCEPT ![c] = label]
    BY Zenon, <1>4 DEF Send, CloseLocks, CloseAwaitsFlush, CloseAwaitsSweep, CloseSends, Goto
  <2>2. /\ pc[c] \in {"sending", "lock", "flush", "sweep", "send"}
        /\ UNCHANGED <<kind, result, closeDone, lockHeld, closer>>
    BY Zenon, <1>4 DEF Send, CloseLocks, CloseAwaitsFlush, CloseAwaitsSweep, CloseSends, closing
  <2>3. kind' = [kind EXCEPT ![c] = kind[c]] /\ result' = [result EXCEPT ![c] = result[c]]
    BY Zenon, <1>1, <2>2
  <2>4. label # "returned" /\ pc[c] # "returned"  BY Zenon, <2>1, <2>2
  <2> QED  BY Zenon, <2>1, <2>2, <2>3, <2>4, EndMove
<1>5. CASE CloseFinishes(c)
  <2>1. /\ pc[c] = "drain" /\ lockHeld' = FALSE /\ closeDone' = TRUE /\ UNCHANGED <<kind, closer>>
        /\ pc' = [pc EXCEPT ![c] = "returned"]
    BY Zenon, <1>5 DEF CloseFinishes, Return
  <2>2. c = closer /\ c # NoCall  BY Zenon, <2>1, CallsAssumption DEF Inv, CallsInv, ClosePath
  <2>3. \A d \in Calls : ~(kind[d] = "close" /\ pc[d] = "returned")  BY Zenon, <2>1, <2>2 DEF EndInv
  <2>4. pc'[c] = "returned" /\ \A d \in Calls : d # c => pc'[d] = pc[d]  BY Zenon, <2>1 DEF Inv, TypeOK
  <2> QED  BY Zenon, <2>1, <2>2, <2>3, <2>4 DEF EndInv
<1>6. CASE CloseJoins(c)
  <2>1. /\ pc[c] = "join" /\ closeDone /\ UNCHANGED <<kind, closeDone, lockHeld, closer>>
        /\ pc' = [pc EXCEPT ![c] = "returned"] /\ result' = [result EXCEPT ![c] = result[closer]]
    BY Zenon, <1>6 DEF CloseJoins, Return, closing
  <2>2. /\ pc'[c] = "returned" /\ result'[c] = result[closer]
        /\ \A d \in Calls : d # c => pc'[d] = pc[d] /\ result'[d] = result[d]
    BY Zenon, <2>1 DEF Inv, TypeOK
  <2>3. closer \in Calls /\ closer # c  BY Zenon, <2>1 DEF EndInv, Inv, TypeOK
  <2> QED  BY Zenon, <2>1, <2>2, <2>3 DEF EndInv
<1> QED  BY Zenon, <1>2, <1>3, <1>4, <1>5, <1>6 DEF CallStep

(* The writer answers writes and Syncs, and one Close before its end.      *)
LEMMA EndWriterStep ==
  ASSUME Inv, EndInv, WriterStep \/ StopFlushing \/ Tick \/ SnapshotEnds \/ SweepStops \/ UNCHANGED vars
  PROVE  EndInv'
<1>1. UNCHANGED <<kind, closeDone, lockHeld, closer>>
  BY ZenonT(30) DEF WriterStep, Receive, drainWrites, writeBatch, HandleSync, HandleClose, writeFinalSnapshot,
    StopFlushing, Tick, SnapshotEnds, SweepStops, vars, calls, closing
<1>2. closer # NoCall => closer \in Calls /\ kind[closer] = "close"  BY Zenon DEF Inv, TypeOK, CallsInv
<1>3. CASE writeBatch
  <2>1. PICK p \in 0..Len(batch) : respondAll(p)  BY Zenon, <1>3 DEF writeBatch
  <2>2. \A c \in Calls : c \in Range(batch) => kind[c] = "write"
    <3>1. batch \in Seq(Calls)  BY Zenon DEF Inv, TypeOK
    <3>2. \A c : c \in Range(batch) => \E i \in 1..Len(batch) : batch[i] = c  BY <3>1 DEF Range
    <3>3. \A i \in 1..Len(batch) : kind[batch[i]] = "write"  BY Zenon DEF Inv, PlacesInv, BatchInv
    <3> QED  BY <3>2, <3>3
  <2>3. \A c \in Calls : c \in Range(SubSeq(batch, 1, p)) => c \in Range(batch)
    <3>1. batch \in Seq(Calls)  BY Zenon DEF Inv, TypeOK
    <3>2. /\ Len(SubSeq(batch, 1, p)) = p /\ SubSeq(batch, 1, p) \in Seq(Calls)
          /\ \A i \in 1..p : SubSeq(batch, 1, p)[i] = batch[i] /\ i \in 1..Len(batch)
      BY <3>1
    <3> QED  BY <3>1, <3>2 DEF Range
  <2>4. \A c \in Calls : kind[c] = "close" => pc'[c] = pc[c] /\ result'[c] = result[c]
    BY Zenon, <2>1, <2>2, <2>3 DEF respondAll
  <2> QED  BY Zenon, <1>1, <1>2, <2>4, EndKept DEF EndInv
<1>4. CASE HandleSync
  <2>1. kind[control] = "sync" /\ \E r : Return(control, r)  BY Zenon, <1>4 DEF HandleSync
  <2>2. \A c \in Calls : kind[c] = "close" => pc'[c] = pc[c] /\ result'[c] = result[c]
    BY Zenon, <2>1 DEF Return, Inv, TypeOK
  <2> QED  BY Zenon, <1>1, <1>2, <2>2, EndKept DEF EndInv
<1>5. CASE writeFinalSnapshot
  <2>1. writer = "final" /\ pc' = pc  BY Zenon, <1>5 DEF writeFinalSnapshot
  <2>2. ~closeDone  BY Zenon, <2>1 DEF EndInv, Inv, QuietInv
  <2> QED  BY Zenon, <1>1, <2>1, <2>2 DEF EndInv
<1>6. CASE Receive \/ drainWrites \/ HandleClose \/ StopFlushing \/ Tick \/ SnapshotEnds \/ SweepStops
           \/ UNCHANGED vars
  <2>1. UNCHANGED <<pc, result>>
    BY Zenon, <1>6 DEF Receive, drainWrites, HandleClose, StopFlushing, Tick, SnapshotEnds, SweepStops,
      vars, calls
  <2> QED  BY Zenon, <1>1, <2>1, EndKept
<1> QED  BY Zenon, <1>3, <1>4, <1>5, <1>6 DEF WriterStep

(* No Close returns before the directory is free, and all return one       *)
(* outcome, for any number of calls of Close.                              *)
THEOREM ClosesTogether == Spec => []ClosesAgree
<1>1. Init => EndInv  BY Zenon DEF Init, EndInv
<1>2. Inv /\ EndInv /\ [Next]_vars => EndInv'
  <2> SUFFICES ASSUME Inv, EndInv, [Next]_vars PROVE EndInv'  OBVIOUS
  <2> QED  BY ZenonT(30), EndCallStep, EndWriterStep DEF Next
<1>3. Inv /\ EndInv => ClosesAgree  BY Zenon DEF Inv, QuietInv, EndInv, ClosesAgree
<1> QED  BY <1>1, <1>2, <1>3, Invariance, PTL DEF Spec
=============================================================================

----------------------------- MODULE QueueConn -----------------------------
(***************************************************************************)
(* The queueing connection of conn_queue.go: an outbound channel sendCh,   *)
(* a sender goroutine (sendLoop), a receiver goroutine (receiveLoop), the  *)
(* application goroutines calling Send / Close / CloseWith, and the        *)
(* two-phase close(err, isReadingErr) that elects, by a CAS on doneFlag,   *)
(* the goroutine that closes the stream and the one that runs the          *)
(* pending-packets handler and onClose.                                    *)
(*                                                                         *)
(* Every shared-memory access of the Go code (atomic flag, channel         *)
(* operation, plain field write, Conn.Close) is one step, so the model     *)
(* contains every interleaving of the goroutines.  The underlying Conn     *)
(* (EasyConn over a net.Conn) is abstracted to one boolean ncClosed: once  *)
(* it is closed every Send and Receive on it fails; before that a write or *)
(* a read may fail at any time (peer reset, EOF, read/write deadline).    *)
(***************************************************************************)
EXTENDS Naturals, Sequences, SequencesExt, FiniteSets

CONSTANTS
    Users,              \* application goroutines calling the QueueConn API
    Pkts,               \* packet values; each is given to Send at most once
    Nil,                \* the nil packet, used as the close sentinel
    SendChSize,         \* capacity of sendCh (option SendChSize)
    HasPendingHandler,  \* whether the PendingPktsHandler option was given
    MaxCalls            \* bound on API calls per application goroutine

ASSUME /\ Nil \notin Pkts
       /\ SendChSize \in Nat \ {0}
       /\ HasPendingHandler \in BOOLEAN
       /\ MaxCalls \in Nat

Workers == {"sender", "receiver"}

(* Go error values; "nil" is the nil error. *)
Errors == {"nil", "ClosedActively", "WriteErr", "ReadErr"}

VARIABLES
    sendCh,       \* contents of the buffered channel sendCh
    closedFlag,   \* c.closedFlag /= 0
    doneFlag,     \* c.doneFlag /= 0
    cause,        \* c.cause
    ncClosed,     \* the underlying Conn has been closed
    pc,           \* program counter of each worker goroutine
    err,          \* the local err of each worker loop
    cur,          \* packet the sender has dequeued and is writing
    uPc,          \* program counter of each application goroutine
    uCall,        \* API method the application goroutine is in
    uPkt,         \* packet argument of that Send
    calls,        \* API calls made by each application goroutine
    \* history variables, not part of the program state
    enqueued,     \* data packets in the order they entered sendCh
    written,      \* packets written to the stream, in order
    lost,         \* packets dequeued whose write failed
    pending,      \* packets handed to pendingPktsHandler
    accepted,     \* packets for which Send returned nil
    used,         \* packets already given to Send
    slowSeen,     \* some Send returned ErrSlowConsumer
    onCloseCalls  \* causes passed to onClose, in order

worker == <<sendCh, closedFlag, doneFlag, cause, ncClosed, pc, err, cur>>
app == <<uPc, uCall, uPkt, calls>>
history == <<enqueued, written, lost, pending, accepted, used, slowSeen,
             onCloseCalls>>
vars == <<worker, app, history>>

IsData(p) == p /= Nil

(* The data packets of a channel content, sentinels left out. *)
Data(s) == SelectSeq(s, IsData)

-----------------------------------------------------------------------------
(* NewQueueConn: empty channel, both flags clear, both loops started.      *)
Init ==
    /\ sendCh = <<>>
    /\ closedFlag = FALSE
    /\ doneFlag = FALSE
    /\ cause = "nil"
    /\ ncClosed = FALSE
    /\ pc = [w \in Workers |-> "loop"]
    /\ err = [w \in Workers |-> "nil"]
    /\ cur = Nil
    /\ uPc = [u \in Users |-> "idle"]
    /\ uCall = [u \in Users |-> "none"]
    /\ uPkt = [u \in Users |-> Nil]
    /\ calls = [u \in Users |-> 0]
    /\ enqueued = <<>>
    /\ written = <<>>
    /\ lost = <<>>
    /\ pending = <<>>
    /\ accepted = {}
    /\ used = {}
    /\ slowSeen = FALSE
    /\ onCloseCalls = <<>>

-----------------------------------------------------------------------------
(***************************************************************************)
(* Application goroutines.  A call starts at "chk" (the IsClosed test of   *)
(* Send); Close is Send(nil) followed by markClosed; CloseWith(p) is       *)
(* Send(p) followed by Close().                                            *)
(***************************************************************************)
StartCall(u, m, p) ==
    /\ uPc[u] = "idle"
    /\ calls[u] < MaxCalls
    /\ uPc' = [uPc EXCEPT ![u] = "chk"]
    /\ uCall' = [uCall EXCEPT ![u] = m]
    /\ uPkt' = [uPkt EXCEPT ![u] = p]
    /\ calls' = [calls EXCEPT ![u] = @ + 1]
    /\ used' = used \cup ({p} \ {Nil})
    /\ UNCHANGED <<worker, enqueued, written, lost, pending, accepted,
                   slowSeen, onCloseCalls>>

CallSend(u) == \E p \in Pkts \ used : StartCall(u, "Send", p)
CallClose(u) == StartCall(u, "Close", Nil)
CallCloseWith(u) == \E p \in Pkts \ used : StartCall(u, "CloseWith", p)

(* Where a goroutine goes when its Send(uPkt[u]) returns. *)
SendReturn(u) ==
    CASE uCall[u] = "Send"      -> /\ uPc' = [uPc EXCEPT ![u] = "idle"]
                                   /\ UNCHANGED <<uCall, uPkt>>
      [] uCall[u] = "Close"     -> /\ uPc' = [uPc EXCEPT ![u] = "mark"]
                                   /\ UNCHANGED <<uCall, uPkt>>
      [] uCall[u] = "CloseWith" -> /\ uPc' = [uPc EXCEPT ![u] = "chk"]
                                   /\ uCall' = [uCall EXCEPT ![u] = "Close"]
                                   /\ uPkt' = [uPkt EXCEPT ![u] = Nil]

(* Send: if c.IsClosed() return ErrConnClosed. *)
SendCheck(u) ==
    /\ uPc[u] = "chk"
    /\ IF closedFlag
         THEN SendReturn(u)
         ELSE /\ uPc' = [uPc EXCEPT ![u] = "enq"]
              /\ UNCHANGED <<uCall, uPkt>>
    /\ UNCHANGED <<worker, calls, history>>

(* Mutant: the enqueue ignores the channel capacity. *)
SendEnqueueUnbounded(u) ==
    /\ uPc[u] = "enq"
    /\ sendCh' = Append(sendCh, uPkt[u])
    /\ enqueued' = IF IsData(uPkt[u]) THEN Append(enqueued, uPkt[u])
                                      ELSE enqueued
    /\ accepted' = accepted \cup ({uPkt[u]} \ {Nil})
    /\ SendReturn(u)
    /\ UNCHANGED <<closedFlag, doneFlag, cause, ncClosed, pc, err, cur,
                   calls, written, lost, pending, used, slowSeen,
                   onCloseCalls>>

(* Send: the select on c.sendCh <- p; the default branch when it is full. *)
SendEnqueue(u) ==
    /\ uPc[u] = "enq"
    /\ IF Len(sendCh) < SendChSize
         THEN /\ sendCh' = Append(sendCh, uPkt[u])
              /\ enqueued' = IF IsData(uPkt[u]) THEN Append(enqueued, uPkt[u])
                                                ELSE enqueued
              /\ accepted' = accepted \cup ({uPkt[u]} \ {Nil})
              /\ SendReturn(u)
         ELSE /\ uPc' = [uPc EXCEPT ![u] = "slowClose"]
              /\ UNCHANGED <<sendCh, enqueued, accepted, uCall, uPkt>>
    /\ UNCHANGED <<closedFlag, doneFlag, cause, ncClosed, pc, err, cur,
                   calls, written, lost, pending, used, slowSeen,
                   onCloseCalls>>

(* Send on a full channel: c.Conn.Close(). *)
SendSlowClose(u) ==
    /\ uPc[u] = "slowClose"
    /\ ncClosed' = TRUE
    /\ uPc' = [uPc EXCEPT ![u] = "slowMark"]
    /\ UNCHANGED <<sendCh, closedFlag, doneFlag, cause, pc, err, cur,
                   uCall, uPkt, calls, history>>

(* Send on a full channel: c.markClosed(); return ErrSlowConsumer. *)
SendSlowMark(u) ==
    /\ uPc[u] = "slowMark"
    /\ closedFlag' = TRUE
    /\ slowSeen' = TRUE
    /\ SendReturn(u)
    /\ UNCHANGED <<sendCh, doneFlag, cause, ncClosed, pc, err, cur, calls,
                   enqueued, written, lost, pending, accepted, used,
                   onCloseCalls>>

(* Close: c.markClosed() after Send(nil), whatever Send returned. *)
CloseMark(u) ==
    /\ uPc[u] = "mark"
    /\ closedFlag' = TRUE
    /\ uPc' = [uPc EXCEPT ![u] = "idle"]
    /\ UNCHANGED <<sendCh, doneFlag, cause, ncClosed, pc, err, cur,
                   uCall, uPkt, calls, history>>

-----------------------------------------------------------------------------
(***************************************************************************)
(* sendLoop and receiveLoop.                                               *)
(***************************************************************************)

(* sendLoop: p := <-c.sendCh; a nil p breaks the loop with err = nil,      *)
(* which becomes ErrClosedActively.                                        *)
SendLoopRecv ==
    /\ pc["sender"] = "loop"
    /\ sendCh /= <<>>
    /\ sendCh' = Tail(sendCh)
    /\ IF Head(sendCh) = Nil
         THEN /\ pc' = [pc EXCEPT !["sender"] = "cas"]
              /\ err' = [err EXCEPT !["sender"] = "ClosedActively"]
              /\ UNCHANGED cur
         ELSE /\ pc' = [pc EXCEPT !["sender"] = "write"]
              /\ cur' = Head(sendCh)
              /\ UNCHANGED err
    /\ UNCHANGED <<closedFlag, doneFlag, cause, ncClosed, app, history>>

(* Mutant: a failed write does not break the loop (continue, not break). *)
SendLoopWriteNoBreak ==
    /\ pc["sender"] = "write"
    /\ \/ /\ ~ncClosed
          /\ written' = Append(written, cur)
          /\ UNCHANGED <<err, lost>>
       \/ /\ lost' = Append(lost, cur)
          /\ err' = [err EXCEPT !["sender"] = "WriteErr"]
          /\ UNCHANGED written
    /\ pc' = [pc EXCEPT !["sender"] = "loop"]
    /\ cur' = Nil
    /\ UNCHANGED <<sendCh, closedFlag, doneFlag, cause, ncClosed, app,
                   enqueued, pending, accepted, used, slowSeen,
                   onCloseCalls>>

(* sendLoop: err = c.Conn.Send(p); an error breaks the loop.  A write on a *)
(* closed Conn fails; on an open one it may succeed or fail.               *)
SendLoopWrite ==
    /\ pc["sender"] = "write"
    /\ \/ /\ ~ncClosed
          /\ written' = Append(written, cur)
          /\ pc' = [pc EXCEPT !["sender"] = "loop"]
          /\ UNCHANGED <<err, lost>>
       \/ /\ lost' = Append(lost, cur)
          /\ err' = [err EXCEPT !["sender"] = "WriteErr"]
          /\ pc' = [pc EXCEPT !["sender"] = "cas"]
          /\ UNCHANGED written
    /\ cur' = Nil
    /\ UNCHANGED <<sendCh, closedFlag, doneFlag, cause, ncClosed, app,
                   enqueued, pending, accepted, used, slowSeen,
                   onCloseCalls>>

(* receiveLoop: p, err = c.Conn.Receive() returned an error.  On a closed  *)
(* Conn this always happens; on an open one it happens on EOF, a reset or  *)
(* the read deadline.  A successfully received packet goes to pktHandler   *)
(* and changes no state of the QueueConn, so it is not a step here.        *)
ReceiveLoopErr ==
    /\ pc["receiver"] = "loop"
    /\ pc' = [pc EXCEPT !["receiver"] = "cas"]
    /\ err' = [err EXCEPT !["receiver"] = "ReadErr"]
    /\ UNCHANGED <<sendCh, closedFlag, doneFlag, cause, ncClosed, cur,
                   app, history>>

ReceiveLoopErrOnClosed == ncClosed /\ ReceiveLoopErr

-----------------------------------------------------------------------------
(***************************************************************************)
(* close(err, isReadingErr), run by each worker when its loop ends.        *)
(***************************************************************************)
Goto(w, l) == pc' = [pc EXCEPT ![w] = l]

(* if atomic.CompareAndSwapUint32(&c.doneFlag, 0, 1) *)
closeCAS(w) ==
    /\ pc[w] = "cas"
    /\ IF ~doneFlag
         THEN /\ doneFlag' = TRUE
              /\ Goto(w, "setCause")
         ELSE /\ UNCHANGED doneFlag
              /\ Goto(w, "pending")
    /\ UNCHANGED <<sendCh, closedFlag, cause, ncClosed, err, cur, app,
                   history>>

(* c.cause = err *)
closeSetCause(w) ==
    /\ pc[w] = "setCause"
    /\ cause' = err[w]
    /\ Goto(w, "markClosed")
    /\ UNCHANGED <<sendCh, closedFlag, doneFlag, ncClosed, err, cur, app,
                   history>>

(* c.markClosed() *)
closeMarkClosed(w) ==
    /\ pc[w] = "markClosed"
    /\ closedFlag' = TRUE
    /\ Goto(w, "connClose")
    /\ UNCHANGED <<sendCh, doneFlag, cause, ncClosed, err, cur, app,
                   history>>

(* c.Conn.Close(); the sender's close returns here. *)
closeConnClose(w) ==
    /\ pc[w] = "connClose"
    /\ ncClosed' = TRUE
    /\ Goto(w, IF w = "receiver" THEN "wake" ELSE "exited")
    /\ UNCHANGED <<sendCh, closedFlag, doneFlag, cause, err, cur, app,
                   history>>

(* Mutant: the first caller does not return after waking the sender. *)
closeWakeNoReturn(w) ==
    /\ pc[w] = "wake"
    /\ sendCh' = IF Len(sendCh) < SendChSize THEN Append(sendCh, Nil)
                                             ELSE sendCh
    /\ Goto(w, "pending")
    /\ UNCHANGED <<closedFlag, doneFlag, cause, ncClosed, err, cur, app,
                   history>>

(* Mutant: the receiver's close does not put nil on sendCh. *)
closeWakeDropped(w) ==
    /\ pc[w] = "wake"
    /\ Goto(w, "exited")
    /\ UNCHANGED <<sendCh, closedFlag, doneFlag, cause, ncClosed, err, cur,
                   app, history>>

(* isReadingErr: select { case c.sendCh <- nil: default: }; return *)
closeWake(w) ==
    /\ pc[w] = "wake"
    /\ sendCh' = IF Len(sendCh) < SendChSize THEN Append(sendCh, Nil)
                                             ELSE sendCh
    /\ Goto(w, "exited")
    /\ UNCHANGED <<closedFlag, doneFlag, cause, ncClosed, err, cur, app,
                   history>>

(* The second caller: if c.pendingPktsHandler != nil && len(c.sendCh) > 0 *)
(* then getPendingPackets, which receives until the first nil or until     *)
(* the channel is empty, the nil being consumed.                           *)
closePending(w) ==
    /\ pc[w] = "pending"
    /\ IF HasPendingHandler /\ Len(sendCh) > 0
         THEN LET i == SelectInSeq(sendCh, LAMBDA x : x = Nil)
                  n == IF i = 0 THEN Len(sendCh) ELSE i - 1
              IN  /\ pending' = pending \o SubSeq(sendCh, 1, n)
                  /\ sendCh' = IF i = 0 THEN <<>>
                                        ELSE SubSeq(sendCh, i + 1, Len(sendCh))
         ELSE UNCHANGED <<sendCh, pending>>
    /\ Goto(w, "onClose")
    /\ UNCHANGED <<closedFlag, doneFlag, cause, ncClosed, err, cur, app,
                   enqueued, written, lost, accepted, used, slowSeen,
                   onCloseCalls>>

(* if c.onClose != nil { c.onClose(c.cause) } *)
closeOnClose(w) ==
    /\ pc[w] = "onClose"
    /\ onCloseCalls' = Append(onCloseCalls, cause)
    /\ Goto(w, "exited")
    /\ UNCHANGED <<sendCh, closedFlag, doneFlag, cause, ncClosed, err, cur,
                   app, enqueued, written, lost, pending, accepted, used,
                   slowSeen>>

closeStep(w) ==
    \/ closeCAS(w)
    \/ closeSetCause(w)
    \/ closeMarkClosed(w)
    \/ closeConnClose(w)
    \/ closeWake(w)
    \/ closePending(w)
    \/ closeOnClose(w)

-----------------------------------------------------------------------------
(* Both goroutines have returned and no application call is running or     *)
(* can start: the program has nothing left to do.                          *)
Terminated ==
    /\ \A w \in Workers : pc[w] = "exited"
    /\ \A u \in Users : uPc[u] = "idle" /\ calls[u] = MaxCalls

Next ==
    \/ \E u \in Users :
          \/ CallSend(u) \/ CallClose(u) \/ CallCloseWith(u)
          \/ SendCheck(u) \/ SendEnqueue(u)
          \/ SendSlowClose(u) \/ SendSlowMark(u)
          \/ CloseMark(u)
    \/ SendLoopRecv
    \/ SendLoopWrite
    \/ ReceiveLoopErr
    \/ \E w \in Workers : closeStep(w)
    \/ Terminated /\ UNCHANGED vars

(***************************************************************************)
(* Fairness.  The Go scheduler runs every runnable goroutine, so each step *)
(* of the two workers is weakly fair.  A write always ends: it completes,  *)
(* fails, or hits the write deadline.  A read on an open Conn may block    *)
(* for as long as the peer keeps sending, so only a read on a closed Conn  *)
(* is fair.  The application is under no obligation to call anything.     *)
(***************************************************************************)
Fairness ==
    /\ WF_vars(SendLoopRecv)
    /\ WF_vars(SendLoopWrite)
    /\ WF_vars(ReceiveLoopErrOnClosed)
    /\ \A w \in Workers : WF_vars(closeStep(w))
    /\ \A u \in Users : WF_vars(SendCheck(u) \/ SendEnqueue(u)
                                \/ SendSlowClose(u) \/ SendSlowMark(u)
                                \/ CloseMark(u))

Spec == Init /\ [][Next]_vars /\ Fairness

-----------------------------------------------------------------------------
Pc == {"loop", "write", "cas", "setCause", "markClosed", "connClose",
       "wake", "pending", "onClose", "exited"}

TypeOK ==
    /\ sendCh \in Seq(Pkts \cup {Nil}) /\ Len(sendCh) <= SendChSize
    /\ closedFlag \in BOOLEAN /\ doneFlag \in BOOLEAN /\ ncClosed \in BOOLEAN
    /\ cause \in Errors
    /\ pc \in [Workers -> Pc]
    /\ err \in [Workers -> Errors]
    /\ cur \in Pkts \cup {Nil}
    /\ uPc \in [Users -> {"idle", "chk", "enq", "slowClose", "slowMark",
                          "mark"}]
    /\ uCall \in [Users -> {"none", "Send", "Close", "CloseWith"}]
    /\ uPkt \in [Users -> Pkts \cup {Nil}]
    /\ calls \in [Users -> 0..MaxCalls]
    /\ accepted \subseteq used /\ used \subseteq Pkts
    /\ onCloseCalls \in Seq(Errors)

(* The packet the sender is writing, if any. *)
InFlight == IF pc["sender"] = "write" THEN <<cur>> ELSE <<>>

(***************************************************************************)
(* sendLoop, getPendingPackets and the channel together lose, duplicate    *)
(* and reorder nothing: the packets that entered sendCh are, in the order  *)
(* they entered it, those written, then the one whose write failed, then   *)
(* the one being written, then those reported to pendingPktsHandler, then  *)
(* those still in the channel.                                             *)
(***************************************************************************)
PacketConservation ==
    enqueued = written \o lost \o InFlight \o pending \o Data(sendCh)

(* onClose is called at most once: only the goroutine that loses the CAS   *)
(* on doneFlag reaches it.                                                 *)
OnCloseAtMostOnce == Len(onCloseCalls) <= 1

(***************************************************************************)
(* Once the connection is marked closed (by Close, by a slow consumer, or  *)
(* by a worker that ended), both goroutines exit and onClose is called:    *)
(* the receiver's close puts a nil on sendCh so that an idle sender wakes, *)
(* and the closed Conn makes the receiver's read fail.                     *)
(***************************************************************************)
ClosedLeadsToOnClose == closedFlag ~> (Len(onCloseCalls) = 1)

(***************************************************************************)
(* spec 4.5: "The on-close callback fires exactly once, after both workers *)
(* have exited" with "the first error observed": when onClose runs the    *)
(* cause is recorded and the connection is closed.                         *)
(***************************************************************************)
OnCloseSeesShutdown ==
    Len(onCloseCalls) > 0 =>
        /\ onCloseCalls[1] /= "nil"
        /\ closedFlag
        /\ ncClosed

(***************************************************************************)
(* spec 4.5: pending packets are incomplete only on the SlowConsumer path. *)
(* Without a slow consumer, once onClose has run no packet for which Send  *)
(* returned nil is left in sendCh, unsent and unreported.                  *)
(***************************************************************************)
PendingComplete ==
    (HasPendingHandler /\ Len(onCloseCalls) > 0 /\ ~slowSeen) =>
        \A i \in 1..Len(sendCh) : sendCh[i] \notin accepted

=============================================================================

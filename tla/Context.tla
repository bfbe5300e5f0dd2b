------------------------------ MODULE Context ------------------------------
(***************************************************************************)
(* Dispatch of one handler chain through a route.Context (route/context.go *)
(* and HandlePacket in route/route.go).  The index is an int8 and wraps;   *)
(* a handler may call Abort, SkipNext, SkipNextN and Next (nested) any     *)
(* number of times, up to MaxHandlerOps per dispatch, before it returns.   *)
(* Each Next invocation on the Go call stack is a frame of `stack`.        *)
(* Handler i of a chain is Go index i; only the indices are modelled.      *)
(***************************************************************************)
EXTENDS Integers, Sequences

CONSTANTS
    ChainLens,      \* lengths of the route chains packets are dispatched to
    SkipArgs,       \* the ints handlers pass to SkipNextN
    MaxHandlerOps,  \* bound on context calls by handlers per dispatch
    MaxDispatches,  \* bound on packets dispatched with the pooled context
    Keys            \* the Keys handlers Set

(* const abortIndex int8 = math.MaxInt8 / 2; Group/Handle keep chains below *)
abortIndex == 127 \div 2

ASSUME ChainLens \subseteq 0..(abortIndex - 1)

(* Go's two's-complement int8: conversion int8(x) and wrapping arithmetic. *)
Int8(x) == (((x % 256) + 128) % 256) - 128

VARIABLES
    index,       \* c.index
    n,           \* len(c.handlers) of the dispatched chain
    stack,       \* frames of the Next calls in progress, innermost last
    runs,        \* history: the handler indices called in this dispatch
    aborted,     \* history: Abort was called in this dispatch
    hops,        \* context calls made by handlers in this dispatch
    dispatches,  \* packets dispatched so far
    panicked,    \* handlers[c.index] was evaluated with a negative index
    values       \* c.values: key -> the dispatch whose handler Set it,
                 \*   NoValue where absent (a nil map has every key absent)

vars == <<index, n, stack, runs, aborted, hops, dispatches, panicked, values>>

NoValue == 0

(* A frame: where its Next is (enter, test, body = handler running, inc)   *)
(* its loop bound, the n := int8(len(c.handlers)) of the for clause, and  *)
(* cur, the index of the handler its loop body called last.               *)
Frame == [pc : {"enter", "test", "body", "inc"}, bound : Int, cur : Int]

NewFrame == [pc |-> "enter", bound |-> 0, cur |-> -1]

Top == stack[Len(stack)]
SetTopPc(pc) == [stack EXCEPT ![Len(stack)].pc = pc]
Running == stack /= <<>> /\ Top.pc = "body"

(* NewContext and the pool's New: index -1, no handlers, nothing running. *)
Init ==
    /\ index = -1
    /\ n = 0
    /\ stack = <<>>
    /\ runs = <<>>
    /\ aborted = FALSE
    /\ hops = 0
    /\ dispatches = 0
    /\ panicked = FALSE
    /\ values = [k \in Keys |-> NoValue]

(* A Reset that leaves c.values as the previous request left it. *)
HandlePacketKeepValues ==
    /\ stack = <<>>
    /\ ~panicked
    /\ dispatches < MaxDispatches
    /\ \E len \in ChainLens : n' = len
    /\ index' = -1
    /\ stack' = <<NewFrame>>
    /\ runs' = <<>>
    /\ aborted' = FALSE
    /\ hops' = 0
    /\ dispatches' = dispatches + 1
    /\ UNCHANGED <<panicked, values>>

(* HandlePacket for a packet whose route is found: GetContext, Reset with *)
(* the route's chain (index = -1, values = nil), then ctx.Next().          *)
HandlePacket ==
    /\ stack = <<>>
    /\ ~panicked
    /\ dispatches < MaxDispatches
    /\ \E len \in ChainLens : n' = len
    /\ index' = -1
    /\ stack' = <<NewFrame>>
    /\ runs' = <<>>
    /\ aborted' = FALSE
    /\ hops' = 0
    /\ dispatches' = dispatches + 1
    /\ values' = [k \in Keys |-> NoValue]
    /\ UNCHANGED panicked

(* Next: c.index++ and n := int8(len(c.handlers)). *)
NextEnter ==
    /\ stack /= <<>> /\ Top.pc = "enter"
    /\ index' = Int8(index + 1)
    /\ stack' = [stack EXCEPT ![Len(stack)].pc = "test",
                              ![Len(stack)].bound = Int8(n)]
    /\ UNCHANGED <<n, runs, aborted, hops, dispatches, panicked, values>>

(* A loop condition c.index <= n. *)
NextTestLe ==
    /\ stack /= <<>> /\ Top.pc = "test"
    /\ \/ /\ index <= Top.bound
          /\ index >= 0
          /\ stack' = [stack EXCEPT ![Len(stack)].pc = "body",
                                    ![Len(stack)].cur = index]
          /\ runs' = Append(runs, index)
          /\ UNCHANGED panicked
       \/ /\ index < 0
          /\ panicked' = TRUE
          /\ stack' = <<>>
          /\ UNCHANGED runs
       \/ /\ index > Top.bound
          /\ stack' = SubSeq(stack, 1, Len(stack) - 1)
          /\ UNCHANGED <<runs, panicked>>
    /\ UNCHANGED <<index, n, aborted, hops, dispatches, values>>

(* A Next that restores the caller's index on return, so the enclosing   *)
(* loop resumes after the handler that called it.                          *)
NextTestRestore ==
    /\ stack /= <<>> /\ Top.pc = "test"
    /\ \/ /\ index < Top.bound
          /\ index >= 0
          /\ stack' = [stack EXCEPT ![Len(stack)].pc = "body",
                                    ![Len(stack)].cur = index]
          /\ runs' = Append(runs, index)
          /\ UNCHANGED <<index, panicked>>
       \/ /\ index < 0
          /\ panicked' = TRUE
          /\ stack' = <<>>
          /\ UNCHANGED <<index, runs>>
       \/ /\ index >= Top.bound
          /\ stack' = SubSeq(stack, 1, Len(stack) - 1)
          /\ index' = IF Len(stack) > 1 THEN stack[Len(stack) - 1].cur ELSE index
          /\ UNCHANGED <<runs, panicked>>
    /\ UNCHANGED <<n, aborted, hops, dispatches, values>>

(* The loop condition c.index < n: call handlers[c.index], which panics   *)
(* for a negative index, or return from this Next.                         *)
NextTest ==
    /\ stack /= <<>> /\ Top.pc = "test"
    /\ \/ /\ index < Top.bound
          /\ index >= 0
          /\ stack' = [stack EXCEPT ![Len(stack)].pc = "body",
                                    ![Len(stack)].cur = index]
          /\ runs' = Append(runs, index)
          /\ UNCHANGED panicked
       \/ /\ index < 0
          /\ panicked' = TRUE
          /\ stack' = <<>>
          /\ UNCHANGED runs
       \/ /\ index >= Top.bound
          /\ stack' = SubSeq(stack, 1, Len(stack) - 1)
          /\ UNCHANGED <<runs, panicked>>
    /\ UNCHANGED <<index, n, aborted, hops, dispatches, values>>

(* A loop that advances its own counter, i := i + 1; c.index = i. *)
NextIncLocal ==
    /\ stack /= <<>> /\ Top.pc = "inc"
    /\ index' = Int8(Top.cur + 1)
    /\ stack' = SetTopPc("test")
    /\ UNCHANGED <<n, runs, aborted, hops, dispatches, panicked, values>>

(* The loop's post statement c.index++ after the handler returned. *)
NextInc ==
    /\ stack /= <<>> /\ Top.pc = "inc"
    /\ index' = Int8(index + 1)
    /\ stack' = SetTopPc("test")
    /\ UNCHANGED <<n, runs, aborted, hops, dispatches, panicked, values>>

HandlerCall ==
    /\ Running
    /\ hops < MaxHandlerOps
    /\ hops' = hops + 1

(* c.Abort() *)
Abort ==
    /\ HandlerCall
    /\ index' = abortIndex
    /\ aborted' = TRUE
    /\ UNCHANGED <<n, stack, runs, dispatches, panicked, values>>

(* c.SkipNext() *)
SkipNext ==
    /\ HandlerCall
    /\ index' = Int8(index + 1)
    /\ UNCHANGED <<n, stack, runs, aborted, dispatches, panicked, values>>

(* c.SkipNextN(k): c.index += int8(k) *)
SkipNextN(k) ==
    /\ HandlerCall
    /\ index' = Int8(index + Int8(k))
    /\ UNCHANGED <<n, stack, runs, aborted, dispatches, panicked, values>>

(* c.Set(key, v): make the map if it is nil, then store v under key. *)
Set(k) ==
    /\ HandlerCall
    /\ values' = [values EXCEPT ![k] = dispatches]
    /\ UNCHANGED <<index, n, stack, runs, aborted, dispatches, panicked>>

(* c.Next() from inside a handler: a new frame on top of the handler's. *)
CallNext ==
    /\ HandlerCall
    /\ stack' = Append(stack, NewFrame)
    /\ UNCHANGED <<index, n, runs, aborted, dispatches, panicked, values>>

(* The handler returns to the loop of the Next that called it. *)
HandlerReturn ==
    /\ Running
    /\ stack' = SetTopPc("inc")
    /\ UNCHANGED <<index, n, runs, aborted, hops, dispatches, panicked, values>>

(* All packets dispatched, or the process died of the panic. *)
Done ==
    /\ stack = <<>>
    /\ dispatches = MaxDispatches \/ panicked
    /\ UNCHANGED vars

Dispatch ==
    \/ NextEnter \/ NextTest \/ NextInc
    \/ Abort \/ SkipNext \/ \E k \in SkipArgs : SkipNextN(k)
    \/ \E k \in Keys : Set(k)
    \/ CallNext \/ HandlerReturn

Next == HandlePacket \/ Dispatch \/ Done

(* Dispatch runs on one goroutine and handlers return: once a packet is   *)
(* dispatched its steps keep being taken.  Nothing forces a next packet.   *)
Spec == Init /\ [][Next]_vars /\ WF_vars(Dispatch)

-----------------------------------------------------------------------------
TypeOK ==
    /\ index \in -128..127
    /\ n \in ChainLens \cup {0}
    /\ stack \in Seq(Frame)
    /\ runs \in Seq(0..(n - 1))
    /\ aborted \in BOOLEAN
    /\ hops \in 0..MaxHandlerOps
    /\ dispatches \in 0..MaxDispatches
    /\ panicked \in BOOLEAN
    /\ values \in [Keys -> 0..MaxDispatches]

(***************************************************************************)
(* Spec 9 (dispatch): within one dispatch each handler of the chain runs  *)
(* at most once, however handlers nest Next and skip: the loop in         *)
(* Context.Next and the c.index++ of every enclosing Next must never lead *)
(* back to a handler index already called.                                 *)
(***************************************************************************)
AtMostOnce ==
    \A i, j \in DOMAIN runs : i /= j => runs[i] /= runs[j]

(***************************************************************************)
(* Spec 9: no handler runs after abort() is called, neither in the Next   *)
(* the aborting handler runs in nor in any enclosing Next, whose loops    *)
(* resume with the shared c.index.                                         *)
(***************************************************************************)
NoRunAfterAbort ==
    [][aborted /\ aborted' => runs' = runs]_vars

(***************************************************************************)
(* Context.values is "exclusively for the context of each request", but   *)
(* the Context is pooled (GetContext / PutContext) and serves packet after *)
(* packet: every value in it, and so every value a handler's Get or        *)
(* MustGet returns, was Set by a handler of the packet being dispatched,   *)
(* never by one of an earlier packet.  Reset must drop the map.            *)
(***************************************************************************)
ValuesOfThisRequest == \A k \in Keys : values[k] \in {NoValue, dispatches}

=============================================================================

--------------------------- MODULE ClientConnPool ---------------------------
(***************************************************************************)
(* The client's connection pool (client_conn_pool.go): GetConn returns the *)
(* stored connection or dials one, with concurrent dials deduplicated by a *)
(* dialCall published with CompareAndSwapPointer; Close closes the stored  *)
(* connection.  Client.Send (client.go) is GetConn followed by Send on the *)
(* connection it returned; Client.Close is the pool's Close.  Every atomic load, CAS or store of doDial is its own step, *)
(* so goroutines of Procs interleave between them.  A dialCall of         *)
(* goroutine p's k-th GetConn is named <<p, k>>; a connection is named by *)
(* the dialCall that created it.                                           *)
(***************************************************************************)
EXTENDS Naturals, FiniteSets

CONSTANTS
    Procs,      \* goroutines calling Client.Send / Client.Close
    MaxCalls,   \* bound on pool calls per goroutine
    Nil         \* the nil pointer (no connection, no dialCall)

CallIds == Procs \X (1..MaxCalls)

ASSUME Nil \notin CallIds

VARIABLES
    conn,        \* *p.connAddr: the stored connection or Nil
    dialCall,    \* *p.dialCallAddr: the in-flight dialCall or Nil
    calls,       \* dialCall records: done closed, resp, err
    pc,          \* where each goroutine is in GetConn / doDial
    dialing,     \* each goroutine's local `dialing` (loaded at line 71)
    ncalls,      \* pool calls each goroutine has started
    created,     \* history: connections returned by connCreator
    closed,      \* connections conn.Close() was called on
    panicked,    \* a nil *dialCall was dereferenced: the program died
    ret,         \* what each goroutine's last GetConn returned: conn, err
    sentOn       \* history: connections Client.Send called Send on

vars == <<conn, dialCall, calls, pc, dialing, ncalls, created, closed, panicked, ret, sentOn>>

Me(p) == <<p, ncalls[p]>>

Init ==
    /\ conn = Nil
    /\ dialCall = Nil
    /\ calls = [c \in CallIds |-> [done |-> FALSE, resp |-> Nil, err |-> FALSE]]
    /\ pc = [p \in Procs |-> "idle"]
    /\ dialing = [p \in Procs |-> Nil]
    /\ ncalls = [p \in Procs |-> 0]
    /\ created = {}
    /\ closed = {}
    /\ panicked = FALSE
    /\ ret = [p \in Procs |-> [conn |-> Nil, err |-> FALSE]]
    /\ sentOn = {}

Go(p, at) == pc' = [pc EXCEPT ![p] = at]

Call(p) ==
    /\ ~panicked
    /\ pc[p] = "idle"
    /\ ncalls[p] < MaxCalls
    /\ ncalls' = [ncalls EXCEPT ![p] = @ + 1]

(* GetConn or doDial returns (c, e) to Client.Send. *)
Return(p, c, e) ==
    /\ ret' = [ret EXCEPT ![p] = [conn |-> c, err |-> e]]
    /\ Go(p, "send")

(* Client.Send calls GetConn: getConn's load, then the stored connection  *)
(* is returned, or doDial runs.                                            *)
GetConn(p) ==
    /\ Call(p)
    /\ IF conn = Nil THEN Go(p, "load") /\ UNCHANGED ret
                     ELSE Return(p, conn, FALSE)
    /\ UNCHANGED <<conn, dialCall, calls, dialing, created, closed, panicked, sentOn>>

(* A Close that closes the stored connection without the nil check. *)
CloseNoNilCheck(p) ==
    /\ Call(p)
    /\ closed' = closed \cup {conn}
    /\ UNCHANGED <<conn, dialCall, calls, pc, dialing, created, panicked, ret, sentOn>>

(* Client.Close: the pool's Close, getConn and then conn.Close() on the   *)
(* stored connection if any.                                               *)
Close(p) ==
    /\ Call(p)
    /\ closed' = IF conn = Nil THEN closed ELSE closed \cup {conn}
    /\ UNCHANGED <<conn, dialCall, calls, pc, dialing, created, panicked, ret, sentOn>>

(* doDial line 71: dialing := atomic.LoadPointer(p.dialCallAddr). *)
Load(p) ==
    /\ ~panicked /\ pc[p] = "load"
    /\ dialing' = [dialing EXCEPT ![p] = dialCall]
    /\ Go(p, "cas")
    /\ UNCHANGED <<conn, dialCall, calls, ncalls, created, closed, panicked, ret, sentOn>>

(* Line 72: CompareAndSwapPointer(p.dialCallAddr, nil, call). *)
Cas(p) ==
    /\ ~panicked /\ pc[p] = "cas"
    /\ IF dialCall = Nil
          THEN dialCall' = Me(p) /\ Go(p, "check")
          ELSE UNCHANGED dialCall /\ Go(p, "wait")
    /\ UNCHANGED <<conn, calls, dialing, ncalls, created, closed, panicked, ret, sentOn>>

(* Lines 75-76: <-dialing.done, then return its resp and err; dialing may *)
(* be nil, and receiving through a nil *dialCall panics.                   *)
Wait(p) ==
    /\ ~panicked /\ pc[p] = "wait"
    /\ IF dialing[p] = Nil
          THEN panicked' = TRUE /\ UNCHANGED <<pc, ret>>
          ELSE /\ calls[dialing[p]].done
               /\ Return(p, calls[dialing[p]].resp, calls[dialing[p]].err)
               /\ UNCHANGED panicked
    /\ UNCHANGED <<conn, dialCall, calls, dialing, ncalls, created, closed, sentOn>>

(* A doDial without the double check: it dials whatever is stored. *)
CheckNoRecheck(p) ==
    /\ ~panicked /\ pc[p] = "check"
    /\ Go(p, "dial")
    /\ UNCHANGED <<conn, dialCall, calls, dialing, ncalls, created, closed, panicked, ret, sentOn>>

(* Lines 79-81: the double check returns a stored connection as it is,   *)
(* leaving the published dialCall in place and its done never closed.     *)
Check(p) ==
    /\ ~panicked /\ pc[p] = "check"
    /\ IF conn = Nil THEN Go(p, "dial") /\ UNCHANGED ret
                     ELSE Return(p, conn, FALSE)
    /\ UNCHANGED <<conn, dialCall, calls, dialing, ncalls, created, closed, panicked, sentOn>>

(* A dial that stores the new connection without setting call.resp. *)
DialNoResp(p) ==
    /\ ~panicked /\ pc[p] = "dial"
    /\ \/ /\ UNCHANGED calls
          /\ conn' = Me(p)
          /\ created' = created \cup {Me(p)}
       \/ /\ calls' = [calls EXCEPT ![Me(p)].err = TRUE]
          /\ UNCHANGED <<conn, created>>
    /\ Go(p, "clear")
    /\ UNCHANGED <<dialCall, dialing, ncalls, closed, panicked, ret, sentOn>>

(* Lines 83-88: Dial fails (call.err), or connCreator wraps the net.Conn  *)
(* (NewEasyConn, then NewQueueConn) and putConn stores it.                *)
Dial(p) ==
    /\ ~panicked /\ pc[p] = "dial"
    /\ \/ /\ calls' = [calls EXCEPT ![Me(p)].resp = Me(p)]
          /\ conn' = Me(p)
          /\ created' = created \cup {Me(p)}
       \/ /\ calls' = [calls EXCEPT ![Me(p)].err = TRUE]
          /\ UNCHANGED <<conn, created>>
    /\ Go(p, "clear")
    /\ UNCHANGED <<dialCall, dialing, ncalls, closed, panicked, ret, sentOn>>

(* Line 91: atomic.StorePointer(p.dialCallAddr, nil). *)
Clear(p) ==
    /\ ~panicked /\ pc[p] = "clear"
    /\ dialCall' = Nil
    /\ Go(p, "close")
    /\ UNCHANGED <<conn, calls, dialing, ncalls, created, closed, panicked, ret, sentOn>>

(* Lines 92-93: close(call.done), return call.resp, call.err. *)
Done(p) ==
    /\ ~panicked /\ pc[p] = "close"
    /\ calls' = [calls EXCEPT ![Me(p)].done = TRUE]
    /\ Return(p, calls[Me(p)].resp, calls[Me(p)].err)
    /\ UNCHANGED <<conn, dialCall, dialing, ncalls, created, closed, panicked, sentOn>>

(* Client.Send after GetConn: return its error, or conn.Send(p). *)
ClientSend(p) ==
    /\ ~panicked /\ pc[p] = "send"
    /\ sentOn' = IF ret[p].err THEN sentOn ELSE sentOn \cup {ret[p].conn}
    /\ Go(p, "idle")
    /\ UNCHANGED <<conn, dialCall, calls, dialing, ncalls, created, closed, panicked, ret>>

(* Every goroutine made its calls, or the program died of the panic. *)
Finished ==
    /\ panicked \/ \A p \in Procs : pc[p] = "idle" /\ ncalls[p] = MaxCalls
    /\ UNCHANGED vars

Step(p) ==
    \/ GetConn(p) \/ Close(p) \/ Load(p) \/ Cas(p) \/ Wait(p)
    \/ Check(p) \/ Dial(p) \/ Clear(p) \/ Done(p) \/ ClientSend(p)

Next == (\E p \in Procs : Step(p)) \/ Finished

(* Goroutines are scheduled: a goroutine whose next statement can run     *)
(* eventually runs it.  Nothing forces a goroutine to call the pool.       *)
Spec == Init /\ [][Next]_vars
        /\ \A p \in Procs : WF_vars(Load(p) \/ Cas(p) \/ Wait(p) \/ Check(p)
                                    \/ Dial(p) \/ Clear(p) \/ Done(p) \/ ClientSend(p))

-----------------------------------------------------------------------------
TypeOK ==
    /\ conn \in CallIds \cup {Nil}
    /\ dialCall \in CallIds \cup {Nil}
    /\ calls \in [CallIds -> [done : BOOLEAN, resp : CallIds \cup {Nil}, err : BOOLEAN]]
    /\ pc \in [Procs -> {"idle", "load", "cas", "wait", "check", "dial", "clear", "close", "send"}]
    /\ dialing \in [Procs -> CallIds \cup {Nil}]
    /\ ncalls \in [Procs -> 0..MaxCalls]
    /\ created \subseteq CallIds /\ closed \subseteq created
    /\ panicked \in BOOLEAN
    /\ ret \in [Procs -> [conn : CallIds \cup {Nil}, err : BOOLEAN]]
    /\ sentOn \subseteq CallIds \cup {Nil}

(***************************************************************************)
(* Dial deduplication (spec 1, "one lazy dial per pool"): every connection *)
(* connCreator made is the one stored in the pool, so none is left open   *)
(* and unreachable by Close.  It rests on the CAS admitting one dialer at  *)
(* a time, putConn before the StorePointer(nil) of line 91, and the double *)
(* check of line 79 for a goroutine that loaded nil before the store.      *)
(***************************************************************************)
NoLeakedConn == \A c \in created : c = conn

(***************************************************************************)
(* doDial never receives from a nil dialing: a goroutine whose CAS fails  *)
(* (line 73) must have loaded the dialCall that made it fail (line 71).    *)
(***************************************************************************)
NoNilDeref == ~panicked

(***************************************************************************)
(* A GetConn waiting for another goroutine's dial (line 75) eventually    *)
(* returns, with that dial's connection or error, unless the program died. *)
(***************************************************************************)
GetConnReturns ==
    \A p \in Procs : pc[p] = "wait" ~> (pc[p] = "send" \/ panicked)

(***************************************************************************)
(* Client.Send calls Send only on a connection connCreator made: a        *)
(* GetConn that returns no error returns a connection, also to a          *)
(* goroutine that waited on another's dial (line 76) and reads its        *)
(* call.resp, which line 86 sets before line 92 closes done.  A (nil, nil) *)
(* return would make Client.Send call Send on a nil Conn.                  *)
(***************************************************************************)
SendOnCreated == sentOn \subseteq created

=============================================================================

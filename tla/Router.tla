------------------------------- MODULE Router -------------------------------
(***************************************************************************)
(* The handler-chain registration of route/router.go, with Go slices as    *)
(* they are: a slice is a header (array, offset, len, cap) into a backing  *)
(* array, heads := h[:n] and tails := h[n:] share h's array, and append   *)
(* writes in place when the capacity allows and copies into a new array   *)
(* (grown as the Go runtime grows it) when it does not.  combineHandlers   *)
(* copies into a fresh array of exactly the final size (make).             *)
(*                                                                         *)
(* Registration runs once, sequentially, at startup; the model enumerates *)
(* every sequence of up to MaxOps registration calls.                      *)
(***************************************************************************)
EXTENDS Naturals, Sequences

CONSTANTS
    Kinds,        \* packet kinds given to Group
    MsgIds,       \* message ids given to Handle
    Handlers,     \* handler functions (model values)
    HandlerArgs,  \* the handler lists a call may pass (sequences)
    NilFunc,      \* the zero HandlerFunc in an unused array cell
    AbortIndex,   \* abortIndex = math.MaxInt8 / 2
    MaxOps        \* bound on registration calls

ASSUME /\ AbortIndex = 127 \div 2
       /\ \A hs \in HandlerArgs : hs \in Seq(Handlers) /\ Len(hs) > 0

VARIABLES
    mem,        \* backing arrays; mem[a] is array a, of length its cap
    rc,         \* slice header of RouterCenter.handlers
    rcHeads,    \* RouterCenter.headsNum
    gEx,        \* rc.routers[k] exists
    g,          \* slice header of rc.routers[k].handlers
    gHeads,     \* rc.routers[k].headsNum
    rEx,        \* rc.routers[k].routes[m] exists
    r,          \* slice header of rc.routers[k].routes[m].handlers
    ops         \* registration calls made so far

vars == <<mem, rc, rcHeads, gEx, g, gHeads, rEx, r, ops>>

-----------------------------------------------------------------------------
(***************************************************************************)
(* Go slices.  Array 0 is the nil array, used only with len = cap = 0.     *)
(***************************************************************************)
NilSlice == [arr |-> 0, off |-> 0, len |-> 0, cap |-> 0]

(* The elements a slice shows. *)
View(m, s) == [i \in 1..s.len |-> m[s.arr][s.off + i]]

(* s[lo:hi] *)
Reslice(s, lo, hi) ==
    [arr |-> s.arr, off |-> s.off + lo, len |-> hi - lo, cap |-> s.cap - lo]

(* Capacity chosen by the Go runtime (growslice, go >= 1.18) for an 8-byte *)
(* element when a slice of capacity old must hold needed elements: double *)
(* it, or take needed if that is larger, then round the byte size up to    *)
(* the allocator's size class (8, 16, 24, 32, 48, 64, 80, ... bytes).      *)
SizeClassCaps == {1, 2, 3, 4, 6} \cup {2 * i : i \in 4..16}

GoGrowCap(old, needed) ==
    LET want == IF needed > 2 * old THEN needed ELSE 2 * old
    IN  CHOOSE c \in SizeClassCaps :
            /\ c >= want
            /\ \A d \in SizeClassCaps : d >= want => c <= d

(* append(s, xs...): the resulting memory and slice header. *)
GoAppend(m, s, xs) ==
    IF Len(xs) = 0 THEN [mem |-> m, s |-> s]
    ELSE IF s.len + Len(xs) <= s.cap
    THEN LET old == m[s.arr]
             base == s.off + s.len
         IN  [mem |-> [m EXCEPT ![s.arr] =
                          [i \in DOMAIN old |->
                              IF base < i /\ i <= base + Len(xs)
                                THEN xs[i - base] ELSE old[i]]],
              s |-> [s EXCEPT !.len = @ + Len(xs)]]
    ELSE LET c == GoGrowCap(s.cap, s.len + Len(xs))
             a == View(m, s) \o xs
                    \o [i \in 1..(c - s.len - Len(xs)) |-> NilFunc]
         IN  [mem |-> Append(m, a),
              s |-> [arr |-> Len(m) + 1, off |-> 0,
                     len |-> s.len + Len(xs), cap |-> c]]

-----------------------------------------------------------------------------
(* NewRouterCenter: nil handlers, empty routers map. *)
Init ==
    /\ mem = <<>>
    /\ rc = NilSlice
    /\ rcHeads = 0
    /\ gEx = [k \in Kinds |-> FALSE]
    /\ g = [k \in Kinds |-> NilSlice]
    /\ gHeads = [k \in Kinds |-> 0]
    /\ rEx = [k \in Kinds |-> [m \in MsgIds |-> FALSE]]
    /\ r = [k \in Kinds |-> [m \in MsgIds |-> NilSlice]]
    /\ ops = 0

Step == ops < MaxOps /\ ops' = ops + 1

(* The body of RouterCenter.Use and RouterGroup.Use on a chain s with n   *)
(* heads: heads := s[:n]; tails := s[n:]; s = append(heads, hs...);       *)
(* s = append(s, tails...).  tails is read after the first append.        *)
UseSlices(m, s, n, hs) ==
    LET heads == Reslice(s, 0, n)
        tails == Reslice(s, n, s.len)
        a1 == GoAppend(m, heads, hs)
    IN  GoAppend(a1.mem, a1.s, View(a1.mem, tails))

(* A combineHandlers written with append instead of make and copy: it    *)
(* writes into src's array whenever src has spare capacity.               *)
combineHandlersAppend(m, src, headsNum, hs) ==
    LET res == UseSlices(m, src, headsNum, hs)
    IN  [ok |-> res.s.len < AbortIndex, mem |-> res.mem, s |-> res.s]

(* combineHandlers(src, headsNum, handlers...): a fresh array of exactly   *)
(* len(src) + len(handlers), filled with src's heads, handlers, src's      *)
(* tails.  The panic on finalSize >= abortIndex leaves no state, so such a *)
(* call is not a step.                                                     *)
combineHandlers(m, src, headsNum, hs) ==
    LET v == View(m, src)
        merged == SubSeq(v, 1, headsNum) \o hs \o SubSeq(v, headsNum + 1, Len(v))
    IN  [ok |-> Len(merged) < AbortIndex,
         mem |-> Append(m, merged),
         s |-> [arr |-> Len(m) + 1, off |-> 0,
                len |-> Len(merged), cap |-> Len(merged)]]

(* RouterCenter.Use *)
CenterUse(hs) ==
    LET res == UseSlices(mem, rc, rcHeads, hs)
    IN  /\ Step
        /\ mem' = res.mem
        /\ rc' = res.s
        /\ rcHeads' = rcHeads + Len(hs)
        /\ UNCHANGED <<gEx, g, gHeads, rEx, r>>

(* RouterCenter.UseAfter: rc.handlers = append(rc.handlers, handlers...) *)
CenterUseAfter(hs) ==
    LET res == GoAppend(mem, rc, hs)
    IN  /\ Step
        /\ mem' = res.mem
        /\ rc' = res.s
        /\ UNCHANGED <<rcHeads, gEx, g, gHeads, rEx, r>>

(* RouterCenter.Group: a new RouterGroup (with no routes) replaces         *)
(* rc.routers[kind]; its chain is combineHandlers of the center chain.     *)
CenterGroup(k, hs) ==
    LET res == combineHandlers(mem, rc, rcHeads, hs)
    IN  /\ Step
        /\ res.ok
        /\ mem' = res.mem
        /\ gEx' = [gEx EXCEPT ![k] = TRUE]
        /\ g' = [g EXCEPT ![k] = res.s]
        /\ gHeads' = [gHeads EXCEPT ![k] = res.s.len]
        /\ rEx' = [rEx EXCEPT ![k] = [m \in MsgIds |-> FALSE]]
        /\ r' = [r EXCEPT ![k] = [m \in MsgIds |-> NilSlice]]
        /\ UNCHANGED <<rc, rcHeads>>

(* RouterGroup.Use *)
GroupUse(k, hs) ==
    LET res == UseSlices(mem, g[k], gHeads[k], hs)
    IN  /\ Step
        /\ gEx[k]
        /\ mem' = res.mem
        /\ g' = [g EXCEPT ![k] = res.s]
        /\ gHeads' = [gHeads EXCEPT ![k] = @ + Len(hs)]
        /\ UNCHANGED <<rc, rcHeads, gEx, rEx, r>>

(* RouterGroup.UseAfter *)
GroupUseAfter(k, hs) ==
    LET res == GoAppend(mem, g[k], hs)
    IN  /\ Step
        /\ gEx[k]
        /\ mem' = res.mem
        /\ g' = [g EXCEPT ![k] = res.s]
        /\ UNCHANGED <<rc, rcHeads, gEx, gHeads, rEx, r>>

(* RouterGroup.Handle: routes[msgId] gets combineHandlers of the group.   *)
GroupHandle(k, m, hs) ==
    LET res == combineHandlers(mem, g[k], gHeads[k], hs)
    IN  /\ Step
        /\ gEx[k]
        /\ res.ok
        /\ mem' = res.mem
        /\ rEx' = [rEx EXCEPT ![k][m] = TRUE]
        /\ r' = [r EXCEPT ![k][m] = res.s]
        /\ UNCHANGED <<rc, rcHeads, gEx, g, gHeads>>

(* A RouterGroup.Group that clears the handlers but not headsNum. *)
GroupResetKeepHeads(k) ==
    /\ Step
    /\ gEx[k]
    /\ g' = [g EXCEPT ![k] = NilSlice]
    /\ UNCHANGED <<mem, rc, rcHeads, gEx, gHeads, rEx, r>>

(* RouterGroup.Group: handlers = nil, headsNum = 0. *)
GroupReset(k) ==
    /\ Step
    /\ gEx[k]
    /\ g' = [g EXCEPT ![k] = NilSlice]
    /\ gHeads' = [gHeads EXCEPT ![k] = 0]
    /\ UNCHANGED <<mem, rc, rcHeads, gEx, rEx, r>>

Done == ops = MaxOps /\ UNCHANGED vars

Next ==
    \/ \E hs \in HandlerArgs :
          \/ CenterUse(hs) \/ CenterUseAfter(hs)
          \/ \E k \in Kinds : \/ CenterGroup(k, hs)
                              \/ GroupUse(k, hs)
                              \/ GroupUseAfter(k, hs)
                              \/ \E m \in MsgIds : GroupHandle(k, m, hs)
    \/ \E k \in Kinds : GroupReset(k)
    \/ Done

Spec == Init /\ [][Next]_vars

-----------------------------------------------------------------------------
Slice == [arr : Nat, off : Nat, len : Nat, cap : Nat]

(* Every slice header lies inside its array. *)
InBounds(s) == s.arr = 0 \/ (s.arr <= Len(mem) /\ s.off + s.cap = Len(mem[s.arr]))

TypeOK ==
    /\ mem \in Seq(Seq(Handlers \cup {NilFunc}))
    /\ rc \in Slice /\ InBounds(rc) /\ rcHeads <= rc.len
    /\ \A k \in Kinds :
          /\ g[k] \in Slice /\ InBounds(g[k]) /\ gHeads[k] <= g[k].len
          /\ \A m \in MsgIds : r[k][m] \in Slice /\ InBounds(r[k][m])
    /\ ops \in 0..MaxOps

(***************************************************************************)
(* Chains of different owners never share a backing array, so no          *)
(* registration call on the center or a group can change a chain already  *)
(* copied into a group or a route (spec 8: a route's chain contains no     *)
(* handler added after its Handle call).                                   *)
(***************************************************************************)
Owners ==
    {<<"center">>} \cup {<<"group", k>> : k \in Kinds}
        \cup {<<"route", k, m>> : k \in Kinds, m \in MsgIds}

SliceOf(o) ==
    CASE o[1] = "center" -> rc
      [] o[1] = "group"  -> g[o[2]]
      [] o[1] = "route"  -> r[o[2]][o[3]]

NoSharedArrays ==
    \A o1, o2 \in Owners :
        (o1 /= o2 /\ SliceOf(o1).arr /= 0) => SliceOf(o1).arr /= SliceOf(o2).arr

(***************************************************************************)
(* Chain composition (spec 4.6 and 8): every registration call changes    *)
(* the chains as RouterAbstract's sequence insertions do: Use inserts     *)
(* after the heads, UseAfter appends, Group and Handle copy the chain with *)
(* the new handlers after its heads.  The group heads are the ones         *)
(* RouterCenter.Group sets (the whole chain, GroupHeadsWhole), not spec    *)
(* 4.6's center heads ++ group heads, so the check asks only whether the  *)
(* slices hold the sequences the calls describe.                           *)
(***************************************************************************)
Abs == INSTANCE RouterAbstract WITH GroupHeadsWhole <- TRUE,
    cH <- View(mem, rc), cHeads <- rcHeads,
    gEx <- gEx,
    gH <- [k \in Kinds |-> View(mem, g[k])],
    gHeads <- gHeads,
    rEx <- rEx,
    rH <- [k \in Kinds |-> [m \in MsgIds |-> View(mem, r[k][m])]],
    ops <- ops

(* Use inserts after the heads and UseAfter appends, given the group heads *)
(* the code chooses.                                                        *)
UseInsertsAfterHeads == Abs!Spec

=============================================================================

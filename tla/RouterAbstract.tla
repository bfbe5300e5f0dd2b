--------------------------- MODULE RouterAbstract ---------------------------
(***************************************************************************)
(* What the router registration API promises (spec 4.6 and 8): a handler  *)
(* chain is a sequence split by headsNum into heads and tails; Use inserts *)
(* after the heads, UseAfter appends, Group snapshots the center chain     *)
(* with the group handlers inserted after its heads, Handle snapshots the  *)
(* group chain with the route handlers inserted after its heads.  Chains   *)
(* are plain sequences here: no storage is shared between them.            *)
(* Spec 4.6 makes a new group's heads the center heads and the group      *)
(* handlers (center tails stay tails); GroupHeadsWhole = TRUE instead     *)
(* makes the whole new chain heads, as RouterCenter.Group does.            *)
(***************************************************************************)
EXTENDS Naturals, Sequences

CONSTANTS Kinds, MsgIds, HandlerArgs, MaxOps,
    GroupHeadsWhole   \* TRUE: a new group's heads are its whole chain

VARIABLES
    cH, cHeads,           \* center chain and its number of heads
    gEx, gH, gHeads,      \* per kind: group present, its chain and heads
    rEx, rH,              \* per kind and message id: route present, chain
    ops                   \* registration calls made so far

absVars == <<cH, cHeads, gEx, gH, gHeads, rEx, rH, ops>>

(* heads ++ hs ++ tails: the chain with hs inserted after its n heads. *)
Insert(chain, n, hs) == SubSeq(chain, 1, n) \o hs \o SubSeq(chain, n + 1, Len(chain))

Init ==
    /\ cH = <<>> /\ cHeads = 0
    /\ gEx = [k \in Kinds |-> FALSE]
    /\ gH = [k \in Kinds |-> <<>>]
    /\ gHeads = [k \in Kinds |-> 0]
    /\ rEx = [k \in Kinds |-> [m \in MsgIds |-> FALSE]]
    /\ rH = [k \in Kinds |-> [m \in MsgIds |-> <<>>]]
    /\ ops = 0

Step == ops < MaxOps /\ ops' = ops + 1

Use(hs) ==
    /\ Step
    /\ cH' = Insert(cH, cHeads, hs)
    /\ cHeads' = cHeads + Len(hs)
    /\ UNCHANGED <<gEx, gH, gHeads, rEx, rH>>

UseAfter(hs) ==
    /\ Step
    /\ cH' = cH \o hs
    /\ UNCHANGED <<cHeads, gEx, gH, gHeads, rEx, rH>>

Group(k, hs) ==
    /\ Step
    /\ gEx' = [gEx EXCEPT ![k] = TRUE]
    /\ gH' = [gH EXCEPT ![k] = Insert(cH, cHeads, hs)]
    /\ gHeads' = [gHeads EXCEPT ![k] = IF GroupHeadsWhole THEN Len(cH) + Len(hs)
                                                          ELSE cHeads + Len(hs)]
    /\ rEx' = [rEx EXCEPT ![k] = [m \in MsgIds |-> FALSE]]
    /\ rH' = [rH EXCEPT ![k] = [m \in MsgIds |-> <<>>]]
    /\ UNCHANGED <<cH, cHeads>>

GroupUse(k, hs) ==
    /\ Step /\ gEx[k]
    /\ gH' = [gH EXCEPT ![k] = Insert(@, gHeads[k], hs)]
    /\ gHeads' = [gHeads EXCEPT ![k] = @ + Len(hs)]
    /\ UNCHANGED <<cH, cHeads, gEx, rEx, rH>>

GroupUseAfter(k, hs) ==
    /\ Step /\ gEx[k]
    /\ gH' = [gH EXCEPT ![k] = @ \o hs]
    /\ UNCHANGED <<cH, cHeads, gEx, gHeads, rEx, rH>>

Handle(k, m, hs) ==
    /\ Step /\ gEx[k]
    /\ rEx' = [rEx EXCEPT ![k][m] = TRUE]
    /\ rH' = [rH EXCEPT ![k][m] = Insert(gH[k], gHeads[k], hs)]
    /\ UNCHANGED <<cH, cHeads, gEx, gH, gHeads>>

GroupReset(k) ==
    /\ Step /\ gEx[k]
    /\ gH' = [gH EXCEPT ![k] = <<>>]
    /\ gHeads' = [gHeads EXCEPT ![k] = 0]
    /\ UNCHANGED <<cH, cHeads, gEx, rEx, rH>>

Next ==
    \/ \E hs \in HandlerArgs :
          \/ Use(hs) \/ UseAfter(hs)
          \/ \E k \in Kinds : Group(k, hs) \/ GroupUse(k, hs)
                              \/ GroupUseAfter(k, hs)
                              \/ \E m \in MsgIds : Handle(k, m, hs)
    \/ \E k \in Kinds : GroupReset(k)

Spec == Init /\ [][Next]_absVars

=============================================================================

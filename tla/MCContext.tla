----------------------------- MODULE MCContext -----------------------------
(* Context instantiated for TLC: chains of two and three handlers, two     *)
(* packets through the same pooled context.                                *)
EXTENDS Context

(* SkipNextN arguments a handler might pass: one and two. *)
MCSkipArgsSmall == {1, 2}
=============================================================================

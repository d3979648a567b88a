---------------------------- MODULE MCScheduleTick ----------------------------
(* ScheduleTick with one recurring and one one-shot job, on a calendar with   *)
(* days of two minutes, months of three days and weeks of two.  The recurring *)
(* job is the second minute of the first day of a month and of every second   *)
(* day of a week: minutes 1, 3, 7, ...                                        *)
EXTENDS ScheduleTick, TLC

CONSTANTS every, once

MCSpan == [minute |-> 0..1, hour |-> {0}, dom |-> 1..3, month |-> 1..2, dow |-> 0..1]

MCClock ==
    [t \in 0..13 |->
        LET day == t \div 2
        IN [minute |-> t % 2, hour |-> 0, dom |-> 1 + (day % 3),
            month |-> 1 + ((day \div 3) % 2), dow |-> day % 2]]

Star(f) == {[lo |-> Min(MCSpan[f]), hi |-> Max(MCSpan[f]), step |-> 1]}

MCExpr ==
    every :> [f \in Fields |->
        CASE f = "dom"    -> {[lo |-> 1, hi |-> 1, step |-> 1]}
          [] f = "dow"    -> {[lo |-> 1, hi |-> 1, step |-> 1]}
          [] f = "minute" -> {[lo |-> 1, hi |-> 1, step |-> 2]}
          [] OTHER        -> Star(f)]

MCFireAt == once :> 2
=============================================================================

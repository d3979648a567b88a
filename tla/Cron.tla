-------------------------------- MODULE Cron --------------------------------
(***************************************************************************)
(* Five-field cron expressions (crates/neenee-contracts/src/cron.rs).  A   *)
(* field is a set of items lo-hi/step: `*` is the whole span, a single     *)
(* value a range of one.  The calendar is a parameter: Clock[t] gives the  *)
(* five fields of minute t.                                                *)
(***************************************************************************)
EXTENDS Naturals, FiniteSets

CONSTANTS
    Span,   \* Span[f]: the values field f can take
    Clock,  \* Clock[t][f]: the value of field f in minute t
    Year    \* how far next_fire looks: 366 days, in minutes

Fields == {"minute", "hour", "dom", "month", "dow"}

ASSUME CalendarAssumption ==
    /\ Year \in Nat /\ DOMAIN Clock \subseteq Nat /\ DOMAIN Span = Fields
    /\ \A t \in DOMAIN Clock : \A f \in DOMAIN Span : Clock[t][f] \in Span[f]

(* One past the last day of the week is Sunday again. *)
Sunday == Cardinality(Span["dow"])

Bounds(f) == IF f = "dow" THEN Span[f] \cup {Sunday} ELSE Span[f]

(* parse_field's early returns. *)
ItemOk(f, item) ==
    /\ {item.lo, item.hi} \subseteq Bounds(f)
    /\ item.lo <= item.hi /\ item.step > 0

Parses(expr) == \A f \in Fields : expr[f] # {} /\ \A item \in expr[f] : ItemOk(f, item)

Values(item) == {v \in item.lo..item.hi : (v - item.lo) % item.step = 0}

Mask(expr, f) ==
    LET mask == UNION {Values(item) : item \in expr[f]}
    IN IF f = "dow" /\ Sunday \in mask THEN (mask \ {Sunday}) \cup {0} ELSE mask

(* Mutant: both day fields must match even if both are restricted. *)
BothDays(expr, t) == \A f \in {"dom", "dow"} : Clock[t][f] \in Mask(expr, f)

(* The day rule: with both day fields restricted, one of them is enough. *)
DayMatches(expr, t) ==
    LET hit(f) == Clock[t][f] \in Mask(expr, f)
    IN IF \A f \in {"dom", "dow"} : Mask(expr, f) # Span[f]
       THEN hit("dom") \/ hit("dow")
       ELSE hit("dom") /\ hit("dow")

Matches(expr, t) ==
    /\ \A f \in {"minute", "hour", "month"} : Clock[t][f] \in Mask(expr, f)
    /\ DayMatches(expr, t)

(* The minutes next_fire considers after minute t, those that match. *)
Candidates(expr, t) == {m \in DOMAIN Clock : m > t /\ m <= t + Year /\ Matches(expr, m)}
=============================================================================

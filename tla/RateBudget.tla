------------------------------ MODULE RateBudget ------------------------------
(***************************************************************************)
(* The budget of requests of one guardian: RateBudget and handle_bytes in  *)
(* src/src/secure/guardian.rs.  It is asked before a request is parsed, so *)
(* a refused request has no other effect.  It lives as long as the process *)
(* does, and the clock it reads never goes back.                           *)
(***************************************************************************)
EXTENDS Naturals, Sequences, FiniteSets

CONSTANTS
    Minute,     \* 60 seconds, in instants
    Caps,       \* what the operator may configure
    Horizon     \* bound: instants

ASSUME BudgetAssumption ==
    Minute \in Nat \ {0} /\ Caps \subseteq Nat \ {0} /\ Horizon \in Nat

VARIABLES
    now,
    cap,
    window,             \* instants of the requests admitted, oldest first
    last_limited_log,   \* the instant of the last RateLimited record, if any
    \* history
    admitted,           \* instants of all requests admitted, in order
    refused,            \* instants at which one was refused
    logged              \* instants of all RateLimited records

rate == <<now, cap, window, last_limited_log, admitted, refused, logged>>

\* set_rate_per_minute is called, if at all, before the guardian serves.
RateInit ==
    /\ now = 0 /\ cap \in Caps
    /\ window = <<>> /\ last_limited_log = {}
    /\ admitted = <<>> /\ refused = {} /\ logged = <<>>

\* mutant: a window that starts anew once its first request is a minute old.
LiveTumbling ==
    IF window # <<>> /\ now >= Head(window) + Minute THEN <<>> ELSE window

Young == {i \in DOMAIN window : now < window[i] + Minute}

\* The window once requests have left its front for as long as those are a minute
\* old: it starts with the first that is not.
Live ==
    IF Young = {} THEN <<>>
    ELSE SubSeq(window, CHOOSE i \in Young : \A j \in Young : i <= j, Len(window))

Permit ==
    /\ Len(Live) < cap
    /\ window' = Append(Live, now)
    /\ admitted' = Append(admitted, now)
    /\ UNCHANGED <<now, cap, last_limited_log, refused, logged>>

\* should_log_rate_limit
Quiet == \A last \in last_limited_log : now >= last + Minute

RateLimited ==
    /\ Len(Live) >= cap
    /\ window' = Live
    /\ refused' = refused \cup {now}
    /\ last_limited_log' = IF Quiet THEN {now} ELSE last_limited_log
    /\ logged' = IF Quiet THEN Append(logged, now) ELSE logged
    /\ UNCHANGED <<now, cap, admitted>>

Tick == now < Horizon /\ now' = now + 1
        /\ UNCHANGED <<cap, window, last_limited_log, admitted, refused, logged>>

RateNext == Permit \/ RateLimited \/ Tick

RateSpec == RateInit /\ [][RateNext]_rate

--------------------------------------------------------------------------------
\* How many of a series fall into the minute that ends at t.
WithinMinute(series, t) ==
    Cardinality({i \in DOMAIN series : series[i] <= t /\ t < series[i] + Minute})

\* In no minute are more requests admitted than the cap, wherever the minute
\* begins; one is refused only when that many were; and a refusal is on record
\* within its minute, once (guardian.rs:52, 70).
BudgetIsExact ==
    /\ \A t \in 0 .. Horizon : /\ WithinMinute(admitted, t) <= cap
                               /\ WithinMinute(logged, t) <= 1
    /\ \A t \in refused : WithinMinute(admitted, t) = cap /\ WithinMinute(logged, t) = 1
================================================================================

---------------------------- MODULE VirtualClock ----------------------------
(***************************************************************************)
(* The simulator's VirtualClock (sim/clock.rs): the time and a heap of     *)
(* scheduled events.  A clock is a record [now, events, next_id]; an event *)
(* is a record [at, id, kind, arg], where arg is the injection's index or  *)
(* the time an observation was asked for.                                  *)
(***************************************************************************)
LOCAL INSTANCE Integers

NewClock == [now |-> 0, events |-> {}, next_id |-> 0]

\* Ord for ScheduledEvent: by time, then in the order of scheduling.
Before(e, f) == e.at < f.at \/ (e.at = f.at /\ e.id < f.id)

Earliest(events) == CHOOSE e \in events : \A f \in events \ {e} : Before(e, f)

schedule(c, kind, arg, at) ==
    [c EXCEPT !.events  = @ \cup {[at |-> at, id |-> c.next_id, kind |-> kind, arg |-> arg]},
              !.next_id = @ + 1]

\* At first, first + period, ... up to and including until.
schedule_periodic(c, kind, first, period, until) ==
    LET n == IF first > until THEN 0 ELSE (until - first) \div period + 1
    IN  [c EXCEPT !.events  = @ \cup {[at |-> first + i * period, id |-> c.next_id + i,
                                       kind |-> kind, arg |-> 0] : i \in 0..(n - 1)},
                  !.next_id = @ + n]

\* A faulty variant of schedule_periodic_from.
Mut_poll_at_once(c, kind, now, period, until) ==
    IF period = 0 THEN c
    ELSE schedule_periodic(c, kind, (now \div period) * period, period, until)

\* From the first multiple of the period after now; a period of 0 schedules nothing.
schedule_periodic_from(c, kind, now, period, until) ==
    IF period = 0 THEN c
    ELSE schedule_periodic(c, kind, (now \div period + 1) * period, period, until)

\* A faulty variant of drain_until.
Mut_drain_before(c, target) == {e \in c.events : e.at < target}

drain_until(c, target) == {e \in c.events : e.at <= target}

advance(c, dt) == [c EXCEPT !.now = @ + dt]

=============================================================================

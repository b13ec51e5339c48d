------------------------------- MODULE MCCriticalPath -------------------------------
(***************************************************************************)
(* Days of four hours: "day" works the two in the middle, twice a week of  *)
(* three days, "late" the second and the last of every day, one date is    *)
(* off.  Ann works full time, Bob half of it.                              *)
(***************************************************************************)
EXTENDS ResourceLeveling, TLC

CONSTANTS a, b, c, ann, bob

MCWeekly == [k \in Calendars |-> IF k = "day" THEN [w \in 0..2 |-> IF w = 2 THEN {} ELSE {1, 2}]
                                 ELSE [w \in 0..1 |-> {1, 3}]]
MCExceptions == [k \in Calendars |-> IF k = "day" THEN (1 :> FALSE) @@ (5 :> TRUE)
                                     ELSE [d \in {} |-> TRUE]]

New(k, h) == [external |-> FALSE, calendar |-> k, hours |-> h, progress |-> 0,
              start |-> NoDate, finish |-> NoDate]
Running(h, s) == [New("day", h) EXCEPT !.start = s, !.progress = 50]
Done(s, f) == [New("day", 1) EXCEPT !.start = s, !.finish = f, !.progress = 100]
External(s, f) == [New("day", 2) EXCEPT !.external = TRUE, !.start = s, !.finish = f]

Link(f, t, types, lags) == [from: {f}, to: {t}, type: types, lag: lags]
\* At most one link for each of the given pairs.
Webs(pairs, types, lags) ==
    LET webs[S \in SUBSET pairs] ==
          IF S = {} THEN {{}}
          ELSE LET p == CHOOSE p \in S : TRUE
                   rest == webs[S \ {p}]
               IN rest \cup {w \cup {l} : w \in rest, l \in Link(p[1], p[2], types, lags)}
    IN webs[pairs]

Unstaffed == [t \in Tasks |-> <<>>]
Revisions(rows, webs) == [start: {1}, now: {0}, task: rows, links: webs, assigned: {Unstaffed}]

\* Planning: links of every type and lag, one calendar, milestones included.
Planned == Revisions([Tasks -> {New("day", h) : h \in {0, 1, 3}}],
                     Webs({<<a, b>>, <<b, c>>}, LinkTypes, {-1, 0, 1})
                     \cup Webs({<<a, b>>, <<b, c>>, <<a, c>>}, {"FS", "SS", "FF"}, {0}))
\* Execution, seen at the end of the second working day.
Executed == [start: {1}, now: {11},
             task: [Tasks -> {New("day", 3), New("late", 2), Running(4, 1), Done(1, 7),
                              Done(NoDate, NoDate), External(9, 15)}],
             links: Webs({<<a, b>>, <<b, c>>}, LinkTypes, {0, 1}), assigned: {Unstaffed}]
Looped == Revisions({[t \in Tasks |-> New("day", 1)]},
                    Webs({<<a, b>>, <<b, c>>, <<c, a>>, <<c, b>>, <<c, c>>}, {"FS"}, {0}))

\* Leveling: two people, alone or together, with all or half of their time.
Teams == [Tasks -> {<<>>, ann :> 100, (ann :> 50) @@ (bob :> 25), bob :> 100}]
Staffed == [start: {1}, now: {5}, task: [Tasks -> {New("day", h) : h \in {1, 3}}],
            links: Webs({<<a, b>>, <<a, c>>}, {"FS", "FF"}, {1}) \cup Webs({<<a, b>>}, {"SS", "SF"}, {1}),
            assigned: Teams]
MCResourceCalendar == (ann :> "day") @@ (bob :> "day")
MCMaxUnits == (ann :> 100) @@ (bob :> 50)

MCNetworks == Planned \cup Executed \cup Looped \cup Staffed
====================================================================================

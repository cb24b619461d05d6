------------------------------- MODULE Motion -------------------------------
(***************************************************************************)
(* LVGL's animations as the pages use them: one per value, on its way or at  *)
(* rest.  Starting one takes the place of the one that ran on the same value, *)
(* whose completion is then never called; deleting one leaves the value       *)
(* where it was.  How long an animation takes, and its curve, are left out.   *)
(***************************************************************************)
EXTENDS Naturals

Still(n) == [at |-> n, to |-> n, then |-> "still"]

\* lv_anim_start; then names what its completion does, or is "rest".
Tween(m, to, then) == [m EXCEPT !.to = to, !.then = then]

\* lv_anim_delete, of one value or of a page's.
Stopped(m) == [m EXCEPT !.to = m.at, !.then = "still"]
AllStopped(ms) == [x \in DOMAIN ms |-> Stopped(ms[x])]

Runs(m) == m.then # "still"
Stepped(m) == IF m.at < m.to THEN m.at + 1 ELSE IF m.at > m.to THEN m.at - 1 ELSE m.at
Lands(m) == Runs(m) /\ Stepped(m) = m.to

\* What is left of it after a timer pass, before a completion is called.
Moved(m) == IF Lands(m) THEN Still(m.to) ELSE [m EXCEPT !.at = Stepped(m)]
=============================================================================

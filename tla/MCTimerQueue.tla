----------------------------- MODULE MCTimerQueue -----------------------------
(***************************************************************************)
(* Two timers of any kind over four ticks: a one-shot that is due at once, *)
(* a one-shot and a repeating timer; the longest timeout is two ticks,     *)
(* shorter than the longest delay.  Two are enough for a callback to cancel *)
(* a timer of its own batch and for one timer to hide behind another.      *)
(***************************************************************************)
EXTENDS TimerQueue

MCRequests == {<<0, 0>>, <<3, 0>>, <<1, 1>>}
==============================================================================

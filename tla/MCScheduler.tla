----------------------------- MODULE MCScheduler -----------------------------
(* One automation with two cron times, and three troubles. *)
EXTENDS Scheduler

CronTimes == {1, 2}
=============================================================================

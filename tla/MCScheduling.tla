---------------------------- MODULE MCScheduling ----------------------------
(* Schedules for TLC. *)
EXTENDS Scheduling

CONSTANTS s1, s2, c1

Make(type, policy, maxRuns, expiresAt, after) ==
  [type |-> type, policy |-> policy, maxRuns |-> maxRuns, expiresAt |-> expiresAt,
   after |-> after]

MCTemplates ==
  {Make("cron", "catchup", 0, 3, None),
   Make("cron", "fail", 1, 0, s1),
   Make("one_time", "skip", 0, 0, s1)}
=============================================================================

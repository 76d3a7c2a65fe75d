-------------------------- MODULE MCManageSchedule --------------------------
(* Instances of ManageSchedule for TLC. *)
EXTENDS ManageSchedule

ThreeCreates ==
    {[name |-> Unnamed, cron |-> "x", enabled |-> TRUE, category |-> "a",
      tags |-> {"t"}, params |-> "7days"],
     [name |-> "n", cron |-> "bad", enabled |-> TRUE, category |-> "a",
      tags |-> {}, params |-> "7days"],
     [name |-> "n", cron |-> "x", enabled |-> FALSE, category |-> "b",
      tags |-> {"t", "u"}, params |-> "7days"]}

ThreeUpdates ==
    {[name |-> "m", enabled |-> FALSE], [cron |-> "bad"],
     [cron |-> "y", params |-> "30days", tags |-> {"u"}]}

=============================================================================

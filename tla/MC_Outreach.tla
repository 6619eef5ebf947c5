------------------------------ MODULE MC_Outreach ------------------------------
(* Registration and campaigns for TLC.  Guests' requests meet each other; two   *)
(* sends meet; a campaign is sent again while its audience changes; and a       *)
(* registration and a campaign meet on the tables they share.                   *)
EXTENDS Outreach

Some(set) == CHOOSE x \in set : TRUE

Together ==
  LET e == {Some(Emails)}
      s == {Some(Sends)}
  IN  {[reqs |-> Reqs, sends |-> {}, emails |-> e, clients |-> {}, ops |-> 0,
        drafts |-> {}],
       [reqs |-> {}, sends |-> Sends, emails |-> Emails, clients |-> Emails, ops |-> 0,
        drafts |-> {<<"alert", "all_clients">>}],
       [reqs |-> {}, sends |-> s, emails |-> Emails, clients |-> e, ops |-> 3,
        drafts |-> Types \X {"all_clients", "active_subscribers"}],
       [reqs |-> {Some(Reqs)}, sends |-> s, emails |-> e, clients |-> e, ops |-> 1,
        drafts |-> {<<"newsletter", "marketing_opt_in">>}]}
=============================================================================

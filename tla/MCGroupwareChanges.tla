------------------------- MODULE MCGroupwareChanges -------------------------
EXTENDS GroupwareChanges
CONSTANTS i1, i2

About(organizer, invites, accepted, type) ==
  [organizer |-> organizer, invites |-> invites, accepted |-> accepted, type |-> type]
Meeting    == About("me", TRUE, FALSE, "event")
Own        == About("none", FALSE, FALSE, "todo")
Invitation == About("other", TRUE, TRUE, "event")
Journal    == About("none", FALSE, FALSE, "journal")
MCIncidences == {Meeting, Own, Invitation, Journal}

Setting(policy, calls, failures, limit) ==
  [policy |-> policy, sign |-> FALSE, destination |-> "Default", usable |-> TRUE, calls |-> calls,
   batch |-> FALSE, failures |-> failures, limit |-> limit]
Scenario(x, first, second) ==
  [setting |-> x, incidence |-> i1 :> first @@ i2 :> second,
   live |-> IF x.calls = {"create"} THEN {} ELSE {i1, i2}]

\* Three modifications of the same incidence, one of a meeting and one of an invitation.
Queueing == {Scenario(Setting(p, {"modify"}, p = "DontSend", 3), Meeting, Invitation) : p \in {"Ask", "DontSend"}}
Sending  == {Scenario(Setting("Send", {"modify"}, FALSE, 2), Meeting, Own)}
Deleting == {Scenario(Setting("DontSend", {"delete"}, TRUE, 2), Own, Invitation),
             Scenario(Setting("Send", {"delete"}, TRUE, 2), Meeting, Own)}
TwoMeetings == {Scenario(Setting("Ask", {"delete"}, FALSE, 1), Meeting, Meeting)}
Mixed    == {Scenario(Setting(p, {"modify", "delete"}, FALSE, 2), Meeting, Journal) : p \in {"Ask", "DontSend"}}
Creating == {Scenario([Setting("DontSend", {"create"}, TRUE, 2) EXCEPT !.usable = FALSE, !.destination = x],
                      Meeting, Invitation) : x \in {"Default", "Ask", "NeverAsk"}}
Batches  == {Scenario([Setting("Ask", {"create"}, FALSE, 2) EXCEPT !.sign = TRUE, !.batch = b], Meeting, Own) :
               b \in BOOLEAN}
            \cup {Scenario([Setting("Ask", {"modify"}, FALSE, 2) EXCEPT !.batch = TRUE], Meeting, Invitation)}

MCScenarios == Queueing \cup Sending \cup Deleting \cup TwoMeetings \cup Mixed \cup Creating \cup Batches
=============================================================================

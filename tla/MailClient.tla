----------------------------- MODULE MailClient -----------------------------
(***************************************************************************)
(* Akonadi::MailClient (src/src/mailclient_p.cpp): a message is composed   *)
(* once per crypto format, each composed message is queued by a job of its *)
(* own, and finished() is emitted for every job.  Whether a message is     *)
(* signed and encrypted depends on what its sender asked for, on the keys  *)
(* and preferences found, and on the buttons the user presses.             *)
(***************************************************************************)
EXTENDS Integers, FiniteSets

CONSTANTS
  MaxFormats,  \* bound on the crypto formats one message is composed in
  MaxResults   \* bound on the messages one composer makes

ASSUME MaxFormatsAssumption == MaxFormats \in Nat
ASSUME MaxResultsAssumption == MaxResults \in Nat

VARIABLE mails       \* the messages being composed and queued

\* What KeyResolver finds for the recipients, and what the user answers.
Preferences == {"DoIt", "DontDoIt", "Ask", "Conflict", "Impossible"}
Buttons     == {"Primary", "Secondary", "Cancel"}

Pressed(button) ==
  CASE button = "Primary"   -> "protect"
    [] button = "Secondary" -> "plain"
    [] button = "Cancel"    -> "abort"

\* Mutant of Decision: without a warning the preference alone decides.
DecisionByPreference(asked, preference, warns, button) ==
  CASE preference \in {"Ask", "Conflict"} -> Pressed(button)
    [] preference = "Impossible"          -> IF button = "Cancel" THEN "abort" ELSE "plain"
    [] OTHER -> IF preference = "DoIt" THEN "protect"
                ELSE IF warns THEN Pressed(button) ELSE "plain"

\* determineWhetherToSign() and determineWhetherToEncrypt(), whose branches are the
\* same: is the message protected?  "Send As-Is" after the warning leaves it protected
\* if that was asked for.
Decision(asked, preference, warns, button) ==
  CASE preference = "DoIt" /\ ~asked      -> "protect"
    [] preference \in {"Ask", "Conflict"} -> Pressed(button)
    [] preference = "Impossible"          -> IF button = "Cancel" THEN "abort" ELSE "plain"
    [] OTHER -> IF preference = "DontDoIt" /\ warns /\ button # "Secondary"
                THEN Pressed(button)
                ELSE IF asked THEN "protect" ELSE "plain"

\* The user was asked and declined the protection.
Declined(preference, button) ==
  preference = "Impossible" \/ (preference \in {"Ask", "Conflict"} /\ button = "Secondary")

Verdicts(asked) ==
  {[decision |-> Decision(asked, p, w, b), declined |-> Declined(p, b)] :
     p \in Preferences, w \in BOOLEAN, b \in Buttons}

\* buildComposers(): how many composer jobs are started, 0 if something is cancelled
\* or fails on the way; `bare` that something asked for is missing, without the user
\* having declined it.
Composed(asked) ==
  LET bare(sign, encrypt) ==
        \/ asked.sign /\ sign.decision = "plain" /\ ~sign.declined
        \/ asked.encrypt /\ encrypt.decision = "plain" /\ ~encrypt.declined
      count(sign, encrypt) ==
        IF "abort" \in {sign.decision, encrypt.decision} THEN {0}
        ELSE IF "protect" \in {sign.decision, encrypt.decision} THEN 0 .. MaxFormats
        ELSE {1}
  IN  UNION {{[composers |-> n, bare |-> bare(sign, encrypt)] : n \in count(sign, encrypt)} :
               sign \in Verdicts(asked.sign), encrypt \in Verdicts(asked.encrypt)}

\* send(): a message of `owner`, one of the three users of the class, on behalf of
\* `call`.  It is refused at once if nobody is to be told or no transport exists.
Mail(owner, call, composed) ==
  [id |-> CHOOSE n \in 1 .. Cardinality(mails) + 1 : \A m \in mails : m.id # n, owner |-> owner, call |-> call,
   composers |-> composed.composers, queued |-> 0, bare |-> composed.bare]

Ended(m) == m.composers = 0 /\ m.queued = 0

Sent(m) == mails' = mails \cup ({m} \ {x \in {m} : Ended(x)})

Become(m, n) == mails' = (mails \ {m}) \cup ({n} \ {x \in {n} : Ended(x)})

\* A composer job ends, with its messages or without any.
Compose(m) ==
  /\ m.composers > 0
  /\ \E made \in 0 .. MaxResults :
       Become(m, [m EXCEPT !.composers = @ - 1, !.queued = @ + made])

\* handleQueueJobFinished(); what finished() leads to is the action of its receiver.
Queued(m) ==
  /\ m.queued > 0
  /\ Become(m, [m EXCEPT !.queued = @ - 1])

\* A message goes out as its sender asked, or as the user decided.
PrivacyKept == \A m \in mails : ~m.bare
=============================================================================

----------------------------- MODULE MailDelivery -----------------------------
(***************************************************************************)
(* One mail of the email_deliveries outbox and the QStash message that     *)
(* asks for it.  A request is one delivery of the message to the job       *)
(* route: it looks for the replay marker, takes the in-progress lock,      *)
(* sends the mail and sets the marker.  QStash delivers until it is        *)
(* answered with success, perhaps twice at once, and may do so once more.  *)
(***************************************************************************)
EXTENDS RedisLock

CONSTANT MaxRetries   \* max_retries of the row

ASSUME RetriesAssumption == MaxRetries \in Nat

VARIABLES
  mail,      \* the row: status, retry_count, whether it has a provider_message_id
  marker,    \* the replay key in Redis
  stage,     \* where each request is in the route and its handler
  found,     \* the retry_count its handler has read
  answered,  \* QStash has been answered with success
  sends,     \* how often the provider has accepted the mail, counted up to two
  disturbed  \* what has gone wrong

mailVars == <<mail, marker, stage, found, answered, sends, disturbed>>

Stages == {"away", "checked", "claiming", "sending", "sent", "failing", "served",
           "marked", "refused"}

Statuses == {"uncommitted", "absent", "pending", "processing", "delivered", "opened",
             "failed"}

MailTypeOK ==
  /\ mail \in [status : Statuses, retries : 0..MaxRetries, traced : BOOLEAN]
  /\ marker \in BOOLEAN
  /\ stage \in [Requests -> Stages]
  /\ found \in [Requests -> 0..MaxRetries]
  /\ answered \in BOOLEAN
  /\ sends \in 0..2
  /\ disturbed \subseteq {"early", "late", "unrecorded", "reported"}

\* enqueue publishes the message right after it has inserted the row, which a campaign
\* does in a transaction that is still open.
MailInit ==
  /\ Init
  /\ mail \in [status : {"pending", "uncommitted"}, retries : {0}, traced : {FALSE}]
  /\ marker = FALSE
  /\ stage = [r \in Requests |-> "away"]
  /\ found = [r \in Requests |-> 0]
  /\ answered = FALSE
  /\ sends = 0
  /\ disturbed = {}

StepTo(r, s) == stage' = [stage EXCEPT ![r] = s]

Disturb(kinds) == disturbed' = disturbed \cup kinds

-----------------------------------------------------------------------------
\* The route: marker, lock, handler, marker, unlock, answer.

\* Mutant: the marker is written up front.
ArriveMarks(r) ==
  /\ pc[r] = "idle" /\ stage[r] = "away"
  /\ \/ marker /\ answered' = TRUE /\ UNCHANGED <<stage, marker>>
     \/ StepTo(r, "checked") /\ marker' = TRUE /\ UNCHANGED answered
  /\ UNCHANGED <<vars, mail, found, sends, disturbed>>

\* A look that Redis does not answer counts as no marker.
Arrive(r) ==
  /\ pc[r] = "idle" /\ stage[r] = "away"
  /\ \/ marker /\ answered' = TRUE /\ UNCHANGED stage
     \/ StepTo(r, "checked") /\ UNCHANGED answered
  /\ UNCHANGED <<vars, mail, marker, found, sends, disturbed>>

AskLock(r) ==
  /\ stage[r] = "checked"
  /\ Lock(r)
  /\ UNCHANGED mailVars

\* Refused, or given up by lock: answered with 409, and QStash tries again.
LockRefused(r) ==
  /\ SetRefused(r) \/ SetLost(r)
  /\ StepTo(r, IF pc'[r] = "idle" THEN "away" ELSE stage[r])
  /\ UNCHANGED <<mail, marker, found, answered, sends, disturbed>>

LockGranted(r) ==
  /\ SetStores(r) \/ GrantArrives(r)
  /\ UNCHANGED mailVars

\* Writing the marker may fail without anyone noticing.
Mark(r) ==
  /\ stage[r] = "served"
  /\ marker' \in {marker, TRUE}
  /\ StepTo(r, "marked")
  /\ UNCHANGED <<vars, mail, found, answered, sends, disturbed>>

Release(r) ==
  /\ \/ stage[r] \in {"marked", "refused"} /\ Unlock(r)
     \/ CompareAndDelete(r)
     \/ Forget(r)
  /\ UNCHANGED mailVars

Respond(r) ==
  /\ pc[r] = "idle" /\ stage[r] \in {"marked", "refused"}
  /\ answered' = (answered \/ stage[r] = "marked")
  /\ StepTo(r, "away")
  /\ UNCHANGED <<vars, mail, marker, found, sends, disturbed>>

-----------------------------------------------------------------------------
\* The handler, processEmailDelivery.

\* Mutant: a mail that has been delivered is sent again.
ReadRowUnchecked(r) ==
  /\ pc[r] = "working" /\ stage[r] = "checked"
  /\ \/ /\ mail.status \in {"uncommitted", "absent"}
        /\ StepTo(r, "served") /\ Disturb({"early"}) /\ UNCHANGED found
     \/ /\ mail.status \notin {"uncommitted", "absent"}
        /\ found' = [found EXCEPT ![r] = mail.retries]
        /\ StepTo(r, "claiming") /\ UNCHANGED disturbed
  /\ UNCHANGED <<vars, mail, marker, answered, sends>>

\* A row that is not there, and a mail that is delivered, need nothing more.
ReadRow(r) ==
  /\ pc[r] = "working" /\ stage[r] = "checked"
  /\ \/ /\ mail.status \in {"uncommitted", "absent"}
        /\ StepTo(r, "served") /\ Disturb({"early"}) /\ UNCHANGED found
     \/ /\ mail.status = "delivered"
        /\ StepTo(r, "served") /\ UNCHANGED <<found, disturbed>>
     \/ /\ mail.status \in {"pending", "processing", "opened", "failed"}
        /\ found' = [found EXCEPT ![r] = mail.retries]
        /\ StepTo(r, "claiming") /\ UNCHANGED disturbed
  /\ UNCHANGED <<vars, mail, marker, answered, sends>>

SetProcessing(r) ==
  /\ stage[r] = "claiming"
  /\ mail' = [mail EXCEPT !.status = "processing"]
  /\ StepTo(r, "sending")
  /\ UNCHANGED <<vars, marker, found, answered, sends, disturbed>>

AcceptMail == sends' = IF sends = 2 THEN 2 ELSE sends + 1

\* The provider accepts the mail; or the client gives up, although it may have accepted it.
Send(r) ==
  /\ stage[r] = "sending"
  /\ \/ AcceptMail /\ StepTo(r, "sent") /\ UNCHANGED disturbed
     \/ AcceptMail /\ StepTo(r, "failing") /\ Disturb({"unrecorded"})
     \/ StepTo(r, "failing") /\ UNCHANGED <<sends, disturbed>>
  /\ UNCHANGED <<vars, mail, marker, found, answered>>

\* The answer of an accepted mail is lost or late, and the client is about to try again.
AnswerLost(r) ==
  /\ stage[r] = "sending"
  /\ AcceptMail /\ Disturb({"unrecorded"})
  /\ UNCHANGED <<vars, mail, marker, stage, found, answered>>

Record(r) ==
  /\ stage[r] = "sent"
  /\ mail' = [mail EXCEPT !.status = "delivered", !.traced = TRUE]
  /\ StepTo(r, "served")
  /\ UNCHANGED <<vars, marker, found, answered, sends, disturbed>>

\* Mutant: one retry too many.
FailOnceMore(r) ==
  /\ stage[r] = "failing"
  /\ IF found[r] <= MaxRetries
     THEN /\ mail' = [mail EXCEPT !.status = "pending", !.retries = found[r] + 1]
          /\ StepTo(r, "refused")
     ELSE /\ mail' = [mail EXCEPT !.status = "failed"]
          /\ StepTo(r, "served")
  /\ UNCHANGED <<vars, marker, found, answered, sends, disturbed>>

\* A failure puts the mail back and throws while it has retries left.
Fail(r) ==
  /\ stage[r] = "failing"
  /\ IF found[r] < MaxRetries
     THEN /\ mail' = [mail EXCEPT !.status = "pending", !.retries = found[r] + 1]
          /\ StepTo(r, "refused")
     ELSE /\ mail' = [mail EXCEPT !.status = "failed"]
          /\ StepTo(r, "served")
  /\ UNCHANGED <<vars, marker, found, answered, sends, disturbed>>

\* A statement fails: inside the try the catch takes over, elsewhere the route answers 500.
DatabaseFails(r) ==
  /\ pc[r] = "working"
  /\ \/ stage[r] \in {"claiming", "sent"} /\ StepTo(r, "failing")
     \/ stage[r] \in {"checked", "failing"} /\ StepTo(r, "refused")
  /\ Disturb(IF stage[r] = "sent" THEN {"unrecorded"} ELSE {})
  /\ UNCHANGED <<vars, mail, marker, found, answered, sends>>

-----------------------------------------------------------------------------
\* What goes on meanwhile.

\* The campaign's transaction commits or rolls back.
EndTransaction ==
  /\ mail.status = "uncommitted"
  /\ mail' \in {[mail EXCEPT !.status = s] : s \in {"pending", "absent"}}
  /\ UNCHANGED <<vars, marker, stage, found, answered, sends, disturbed>>

\* The provider reports on the mail: that it is delivered, or something else (opened,
\* clicked or bounced, here always "opened").
Report(s) ==
  /\ mail.traced
  /\ mail' = [mail EXCEPT !.status = s]
  /\ Disturb(IF s = "delivered" THEN {} ELSE {"reported"})
  /\ UNCHANGED <<vars, marker, stage, found, answered, sends>>

\* The lock's ten minutes end, perhaps before its holder does.
LockLapses ==
  /\ Expire
  /\ Disturb(IF \E r \in Requests : pc[r] \in {"granted", "working"} /\ token[r] = stored
             THEN {"late"} ELSE {})
  /\ UNCHANGED <<mail, marker, stage, found, answered, sends>>

ProcessDies(p) ==
  /\ Crash(p)
  /\ stage' = [r \in Requests |-> IF ProcessOf[r] = p THEN "away" ELSE stage[r]]
  /\ Disturb(IF \E r \in Requests : ProcessOf[r] = p /\ stage[r] = "sent"
             THEN {"unrecorded"} ELSE {})
  /\ UNCHANGED <<mail, marker, found, answered, sends>>

MailNext ==
  \/ \E r \in Requests :
       \/ Arrive(r)
       \/ AskLock(r)
       \/ LockRefused(r)
       \/ LockGranted(r)
       \/ ReadRow(r)
       \/ SetProcessing(r)
       \/ Send(r)
       \/ AnswerLost(r)
       \/ Record(r)
       \/ Fail(r)
       \/ DatabaseFails(r)
       \/ Mark(r)
       \/ Release(r)
       \/ Respond(r)
  \/ EndTransaction
  \/ \E s \in {"delivered", "opened"} : Report(s)
  \/ LockLapses
  \/ \E p \in Processes : ProcessDies(p)

MailSpec == MailInit /\ [][MailNext]_<<vars, mailVars>>

-----------------------------------------------------------------------------
\* Properties.

\* Deliveries at once, repeated deliveries, a marker that is looked for before the lock
\* is taken or never written, and crashes do not send a mail twice.  Only these do: a lock
\* that lapses under its holder, a sent mail whose record is lost, and a report that takes
\* a delivered row to a status processEmailDelivery does not know as done.
SentOnce ==
  disturbed \cap {"late", "unrecorded", "reported"} = {} => sends <= 1

Settled == sends > 0 \/ mail.retries = MaxRetries

\* The route "never drops a job": once QStash has been told of success, and will not
\* deliver again, the mail has been sent or has used up its retries; unless the message
\* came before the row was committed, or a lock lapsed under its holder.
AnsweredIsSettled ==
  answered /\ disturbed \cap {"early", "late"} = {} => Settled
=============================================================================

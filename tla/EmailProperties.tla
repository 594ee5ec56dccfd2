--------------------------- MODULE EmailProperties ---------------------------
(***************************************************************************)
(* What EmailQueue promises about mails and their rows.                    *)
(***************************************************************************)
EXTENDS EmailQueue

Callers == [at : {"send", "load", "mark"}, mail : Mails, copy : Rows \cup {None}]

\* Type correctness, with the copies of rows that sessions work on.
EmailTypeOK ==
    /\ row \in [Mails -> Rows \cup {None}]
    /\ load \in [Processors -> [Mails -> Rows \cup {None}]]
    /\ said \in [Processors -> [Mails -> Answers \cup {None}]]
    /\ call \in [Requests -> Callers \cup {Idle}]
    /\ faults \in Nat
    /\ taken \in [Mails -> 0..2]
    /\ counted \in [Mails -> 0..MAX_RETRIES]
    /\ disturbed \subseteq Mails

\* A mail whose row says "sent" has left, whoever wrote it last and from however
\* old a copy.
SentHasLeft == \A m \in Mails : row[m] # None /\ row[m].status = "sent" => taken[m] > 0

\* The provider takes a mail once, and its row says so as soon as nobody has it
\* in hand, unless two sessions had it at a time, an answer was lost, or a
\* session failed between sending and storing: no lock and no record of a send
\* that is under way guard against these.
MailedOnce ==
    \A m \in Mails \ disturbed :
        /\ taken[m] <= 1
        /\ row[m] # None /\ ~InHand(m) => (taken[m] = 1 <=> row[m].status = "sent")

\* A mail is given up only after as many sends as there may be, although the
\* sessions that count them overwrite each other's counts.
NotGivenUpEarly ==
    \A m \in Mails :
        row[m] # None /\ row[m].attempts >= MAX_RETRIES => counted[m] = MAX_RETRIES

\* The outcomes of an undisturbed mail add up, whichever sessions store them: one
\* send counts once, none comes before its turn or after the last, and "sent" is
\* the last; nothing but the clock writes the row otherwise (_deliver_one and
\* _mark_sent, which both write back a copy).
OutcomesAddUp ==
    [][\A m \in Mails \ disturbed :
          row[m] # None /\ row'[m] # row[m] =>
             \/ row[m].retry = "later" /\ row'[m] = [row[m] EXCEPT !.retry = "over"]
             \/ /\ row[m].retry # "later" /\ row[m].status # "sent"
                /\ row[m].attempts < MAX_RETRIES
                /\ row'[m].attempts = row[m].attempts + 1]_vars

\* The queue comes to rest: each mail in it is in the end sent or given up, for
\* good, whatever overwrites whatever on the way.
Settled(m) == row[m].status = "sent" \/ row[m].attempts >= MAX_RETRIES

QueueComesToRest == <>[](\A m \in Mails : row[m] # None => Settled(m))

-----------------------------------------------------------------------------
(* The inductive invariant behind the safety properties.                   *)

\* No row, and no copy of it, counts more sends than were stored.
Counts(r, m) == r.attempts <= counted[m] \/ counted[m] = MAX_RETRIES

RowsKept == \A m \in Mails : IF row[m] = None THEN taken[m] = 0 ELSE Counts(row[m], m)

\* A processor holds copies of rows that were due, and answers for them only.
CopiesKept ==
    \A p \in Processors, m \in Mails :
        /\ m \in Batch(p) => /\ row[m] # None /\ load[p][m].attempts < MAX_RETRIES
                             /\ load[p][m].status # "sent" /\ load[p][m].retry # "later"
                             /\ Counts(load[p][m], m)
        /\ said[p][m] # None => m \in Batch(p)
        /\ said[p][m] = "sent" => taken[m] > 0

\* A request has stored the mail it sends, and marks one that has left.
CallsKept ==
    \A q \in Requests : call[q] # Idle =>
        /\ row[call[q].mail] # None
        /\ ~At(q, "send") => taken[call[q].mail] > 0
        /\ At(q, "mark") => call[q].copy # None /\ Counts(call[q].copy, call[q].mail)

\* An undisturbed mail is in the hands of one session at most ...
Alone(m) ==
    /\ \A p, r \in Processors : m \in Batch(p) /\ m \in Batch(r) => p = r
    /\ \A q, s \in Requests : call[q].mail = m /\ call[s].mail = m => q = s
    /\ \A p \in Processors, q \in Requests : m \in Batch(p) => call[q].mail # m

\* ... which knows its row, and whether it has left.
Undisturbed ==
    \A m \in Mails \ disturbed :
        /\ Alone(m)
        /\ \A p \in Processors : m \in Batch(p) =>
              load[p][m] = row[m] /\ taken[m] = IF said[p][m] = "sent" THEN 1 ELSE 0
        /\ \A q \in Requests : call[q].mail = m =>
              /\ row[m] = Fresh
              /\ taken[m] = IF At(q, "send") THEN 0 ELSE 1
              /\ At(q, "mark") => call[q].copy = row[m]

EmailInv ==
    /\ EmailTypeOK /\ SentHasLeft /\ MailedOnce
    /\ RowsKept /\ CopiesKept /\ CallsKept /\ Undisturbed
=============================================================================

----------------------------- MODULE EmailProofs -----------------------------
(***************************************************************************)
(* Proofs about EmailQueue: EmailInv is an invariant, and with it the      *)
(* safety properties, for any mails, sessions, retries and batches.        *)
(***************************************************************************)
EXTENDS EmailProperties, TLAPS

-----------------------------------------------------------------------------
(* Facts about rows, answers and histories.                                *)

LEMMA NoneIsApart == None \notin Mails /\ None \notin Rows /\ None \notin Answers
  BY EmailAssumption, NoneIsNoRow

LEMMA FreshIsARow == Fresh \in Rows
  BY DEF Fresh, Rows

LEMMA OutcomeType ==
  ASSUME NEW r \in Rows, NEW answer \in Answers
  PROVE  /\ Outcome(r, answer) \in Rows
         /\ Outcome(r, answer).attempts = r.attempts + 1
         /\ Outcome(r, answer).status = IF answer = "sent" THEN "sent" ELSE "failed"
  BY DEF Outcome, Rows, Answers

LEMMA MarkedType ==
  ASSUME NEW r \in Rows
  PROVE  /\ Marked(r) \in Rows
         /\ Marked(r).attempts = r.attempts + 1
         /\ Marked(r).status = "sent"
         /\ Marked(r).retry = r.retry
  BY DEF Marked, Rows

\* What a session writes that assigned a new count.
LEMMA WrittenType ==
  ASSUME NEW now \in Rows, NEW old \in Rows, NEW new \in Rows, new.attempts = old.attempts + 1
  PROVE  /\ Written(now, old, new) \in Rows
         /\ Written(now, old, new).attempts = old.attempts + 1
         /\ Written(now, old, new).status = "sent" => "sent" \in {now.status, new.status}
         /\ now = old => Written(now, old, new).status = new.status
  BY DEF Written, Column, Rows

LEMMA CountStored ==
  ASSUME EmailTypeOK, NEW M, Count(M)
  PROVE  /\ counted' \in [Mails -> 0..MAX_RETRIES]
         /\ \A m \in Mails : counted'[m] >= counted[m]
         /\ \A m \in Mails \cap M : counted'[m] = MAX_RETRIES \/ counted'[m] = counted[m] + 1
  BY EmailAssumption DEF EmailTypeOK, Count, UpTo

\* Counts only grow, and so rows that counted no more than was stored still do.
LEMMA CountsStay ==
  ASSUME EmailTypeOK, NEW M, Count(M), NEW m \in Mails, NEW r \in Rows, Counts(r, m)
  PROVE  /\ Counts(r, m)'
         /\ \A w \in Rows : m \in M /\ w.attempts = r.attempts + 1 => Counts(w, m)'
  <1>1. /\ counted[m] \in 0..MAX_RETRIES /\ counted'[m] \in 0..MAX_RETRIES
        /\ counted'[m] >= counted[m]
        /\ m \in M => counted'[m] = MAX_RETRIES \/ counted'[m] = counted[m] + 1
    BY CountStored DEF EmailTypeOK
  <1>2. r.attempts \in Nat /\ MAX_RETRIES \in Nat
    BY EmailAssumption DEF Rows
  <1> QED
    BY <1>1, <1>2 DEF Counts, Rows

\* Sending a mail leaves the other mails alone.
LEMMA SentMail ==
  ASSUME EmailTypeOK, NEW m \in Mails, NEW answer \in Answers, Sent(m, answer)
  PROVE  /\ taken' \in [Mails -> 0..2]
         /\ disturbed' \subseteq Mails /\ disturbed \subseteq disturbed'
         /\ \A n \in Mails : taken'[n] >= taken[n]
         /\ \A n \in Mails : n # m => taken'[n] = taken[n] /\ (n \in disturbed' <=> n \in disturbed)
         /\ answer = "sent" => taken'[m] > 0
         /\ m \notin disturbed' /\ taken[m] = 0
               => taken'[m] = IF answer = "sent" THEN 1 ELSE 0
  <1>1. PICK took \in 0..2 :
          /\ answer = "sent" => took > 0
          /\ taken' = [taken EXCEPT ![m] = UpTo(taken[m] + took, 2)]
          /\ disturbed' = IF took > (IF answer = "sent" THEN 1 ELSE 0)
                          THEN disturbed \cup {m} ELSE disturbed
    BY DEF Sent
  <1>2. UpTo(taken[m] + took, 2) \in 0..2 /\ UpTo(taken[m] + took, 2) >= taken[m]
        /\ (took > 0 => UpTo(taken[m] + took, 2) > 0)
        /\ (taken[m] = 0 => UpTo(taken[m] + took, 2) = took)
    BY DEF UpTo, EmailTypeOK
  <1>3. taken \in [Mails -> 0..2] /\ disturbed \subseteq Mails
    BY DEF EmailTypeOK
  <1> QED
    BY <1>1, <1>2, <1>3

-----------------------------------------------------------------------------
LEMMA InitEmailInv == Init => EmailInv
  <1> SUFFICES ASSUME Init PROVE EmailInv
    OBVIOUS
  <1>1. EmailTypeOK
    BY EmailAssumption DEF Init, EmailTypeOK
  <1>2. SentHasLeft /\ MailedOnce /\ RowsKept
    BY DEF Init, SentHasLeft, MailedOnce, RowsKept
  <1>3. CopiesKept
    BY NoneIsApart DEF Init, CopiesKept, Batch, Answers
  <1>4. CallsKept
    BY DEF Init, CallsKept, Idle
  <1>5. Undisturbed
    BY NoneIsApart DEF Init, Undisturbed, Alone, Batch, Idle
  <1> QED
    BY <1>1, <1>2, <1>3, <1>4, <1>5 DEF EmailInv

\* A request that has a mail is not idle, and one that is idle has none.
LEMMA HasMail ==
  ASSUME EmailTypeOK, NEW q \in Requests
  PROVE  /\ call[q] # Idle <=> call[q] \in Callers
         /\ call[q] # Idle <=> call[q].mail \in Mails
         /\ At(q, "send") \/ At(q, "load") \/ At(q, "mark") <=> call[q] # Idle
  BY NoneIsApart DEF EmailTypeOK, Callers, Idle, At

LEMMA SelectKeeps ==
  ASSUME EmailInv, NEW p \in Processors, Select(p)
  PROVE  EmailInv'
  <1> USE DEF EmailInv
  <1>1. Oldest \subseteq Mails /\ \A m \in Oldest : Due(m)
    BY DEF Oldest
  <1>2. /\ load' = [load EXCEPT ![p] = [m \in Mails |-> IF m \in Oldest THEN row[m] ELSE None]]
        /\ disturbed' = disturbed \cup {m \in Oldest : InHand(m)}
        /\ Batch(p) = {}
        /\ UNCHANGED <<row, said, call, faults, taken, counted>>
    BY DEF Select
  <1>3. EmailTypeOK'
    BY <1>1, <1>2 DEF EmailTypeOK
  <1>4. /\ \A m \in Mails : load'[p][m] = IF m \in Oldest THEN row[m] ELSE None
        /\ \A r \in Processors : r # p => load'[r] = load[r]
    BY <1>2 DEF EmailTypeOK
  <1>5. \A m \in Oldest : /\ row[m] # None /\ row[m] \in Rows /\ row[m].status # "sent"
                          /\ row[m].retry # "later" /\ row[m].attempts < MAX_RETRIES
    BY <1>1 DEF Due, EmailTypeOK
  <1>6. /\ Batch(p)' = Oldest
        /\ \A r \in Processors : r # p => Batch(r)' = Batch(r)
    BY <1>1, <1>4, <1>5 DEF Batch
  <1>7. SentHasLeft' /\ RowsKept'
    BY <1>2 DEF SentHasLeft, RowsKept, Counts
  <1>8. CallsKept'
    BY <1>2 DEF CallsKept, Counts, At
  <1>9. CopiesKept'
    <2> SUFFICES ASSUME NEW r \in Processors, NEW m \in Mails
                 PROVE  /\ m \in Batch(r)' => /\ row[m] # None
                                              /\ load'[r][m].attempts < MAX_RETRIES
                                              /\ load'[r][m].status # "sent"
                                              /\ load'[r][m].retry # "later"
                                              /\ Counts(load'[r][m], m)
                        /\ said[r][m] # None => m \in Batch(r)'
                        /\ said[r][m] = "sent" => taken[m] > 0
      BY <1>2 DEF CopiesKept, Counts
    <2>1. CASE r = p
      BY <2>1, <1>2, <1>4, <1>5, <1>6 DEF CopiesKept, RowsKept
    <2>2. CASE r # p
      BY <2>2, <1>4, <1>6 DEF CopiesKept
    <2> QED
      BY <2>1, <2>2
  <1>10. \A m \in Mails : InHand(m) => InHand(m)'
    BY <1>2, <1>6 DEF InHand
  <1>11. MailedOnce'
    BY <1>2, <1>10 DEF MailedOnce
  <1>12. Undisturbed'
    <2> SUFFICES ASSUME NEW m \in Mails, m \notin disturbed'
                 PROVE  /\ Alone(m)'
                        /\ \A r \in Processors : m \in Batch(r)' =>
                              load'[r][m] = row[m] /\ taken[m] = IF said[r][m] = "sent" THEN 1 ELSE 0
                        /\ \A q \in Requests : call[q].mail = m =>
                              /\ row[m] = Fresh
                              /\ taken[m] = IF At(q, "send") THEN 0 ELSE 1
                              /\ At(q, "mark") => call[q].copy = row[m]
      BY <1>2 DEF Undisturbed, At
    <2>1. m \notin disturbed /\ (m \in Oldest => ~InHand(m))
      BY <1>2
    <2>2. Alone(m)'
      BY <2>1, <1>2, <1>6 DEF Undisturbed, Alone, InHand
    <2>3. ASSUME NEW r \in Processors, m \in Batch(r)'
          PROVE  load'[r][m] = row[m] /\ taken[m] = IF said[r][m] = "sent" THEN 1 ELSE 0
      <3>1. CASE r # p
        BY <2>1, <2>3, <3>1, <1>4, <1>6 DEF Undisturbed
      <3>2. CASE r = p
        <4>1. m \in Oldest /\ load'[r][m] = row[m] /\ said[r][m] = None
          BY <2>3, <3>2, <1>2, <1>4, <1>6 DEF CopiesKept
        <4>2. taken[m] = 0
          BY <4>1, <2>1, <1>5 DEF MailedOnce, EmailTypeOK
        <4> QED
          BY <4>1, <4>2, NoneIsApart DEF Answers
      <3> QED
        BY <3>1, <3>2
    <2>4. \A q \in Requests : call[q].mail = m =>
             /\ row[m] = Fresh
             /\ taken[m] = IF At(q, "send") THEN 0 ELSE 1
             /\ At(q, "mark") => call[q].copy = row[m]
      BY <2>1 DEF Undisturbed
    <2> QED
      BY <2>2, <2>3, <2>4
  <1> QED
    BY <1>3, <1>7, <1>8, <1>9, <1>11, <1>12

LEMMA DeliverKeeps ==
  ASSUME EmailInv, NEW p \in Processors, NEW m \in Mails, Deliver(p, m)
  PROVE  EmailInv'
  <1> USE DEF EmailInv
  <1>1. PICK answer \in Answers :
          said' = [said EXCEPT ![p][m] = answer] /\ Sent(m, answer)
    BY DEF Deliver
  <1>2. m \in Batch(p) /\ said[p][m] = None /\ UNCHANGED <<row, load, call, faults, counted>>
    BY DEF Deliver
  <1>3. /\ taken' \in [Mails -> 0..2]
        /\ disturbed' \subseteq Mails /\ disturbed \subseteq disturbed'
        /\ \A n \in Mails : taken'[n] >= taken[n]
        /\ \A n \in Mails : n # m => taken'[n] = taken[n] /\ (n \in disturbed' <=> n \in disturbed)
        /\ answer = "sent" => taken'[m] > 0
        /\ m \notin disturbed' /\ taken[m] = 0
              => taken'[m] = IF answer = "sent" THEN 1 ELSE 0
    BY <1>1, SentMail
  <1>4. /\ said'[p][m] = answer
        /\ \A r \in Processors, n \in Mails : r # p \/ n # m => said'[r][n] = said[r][n]
    BY <1>1 DEF EmailTypeOK
  <1>5. EmailTypeOK'
    BY <1>1, <1>2, <1>3 DEF EmailTypeOK
  <1>6. /\ taken \in [Mails -> 0..2]
        /\ \A r \in Processors : Batch(r)' = Batch(r)
        /\ \A n \in Mails : InHand(n)' <=> InHand(n)
    BY <1>2 DEF Batch, InHand, EmailTypeOK
  <1>7. m \notin disturbed' => taken[m] = 0 /\ taken'[m] = IF answer = "sent" THEN 1 ELSE 0
    BY <1>2, <1>3, NoneIsApart DEF Undisturbed, Answers
  <1>8. SentHasLeft'
    BY <1>2, <1>3, <1>6 DEF SentHasLeft
  <1>9. MailedOnce'
    <2> SUFFICES ASSUME NEW n \in Mails, n \notin disturbed'
                 PROVE  /\ taken'[n] <= 1
                        /\ row[n] # None /\ ~InHand(n)
                              => (taken'[n] = 1 <=> row[n].status = "sent")
      BY <1>2, <1>6 DEF MailedOnce
    <2>1. CASE n = m
      BY <2>1, <1>2, <1>7 DEF InHand
    <2>2. CASE n # m
      BY <2>2, <1>3 DEF MailedOnce
    <2> QED
      BY <2>1, <2>2
  <1>10. RowsKept'
    BY <1>2, <1>3 DEF RowsKept, Counts, CopiesKept
  <1>11. CopiesKept'
    <2> SUFFICES ASSUME NEW r \in Processors, NEW n \in Mails
                 PROVE  /\ n \in Batch(r) => /\ row[n] # None
                                             /\ load[r][n].status # "sent"
                                             /\ load[r][n].retry # "later"
                                             /\ Counts(load[r][n], n)
                        /\ said'[r][n] # None => n \in Batch(r)
                        /\ said'[r][n] = "sent" => taken'[n] > 0
      BY <1>2, <1>6 DEF CopiesKept, Counts
    <2>1. CASE r = p /\ n = m
      BY <2>1, <1>2, <1>3, <1>4 DEF CopiesKept
    <2>2. CASE r # p \/ n # m
      BY <2>2, <1>3, <1>4, <1>6 DEF CopiesKept
    <2> QED
      BY <2>1, <2>2
  <1>12. CallsKept'
    <2> SUFFICES ASSUME NEW q \in Requests, call[q] # Idle
                 PROVE  /\ row[call[q].mail] # None
                        /\ ~At(q, "send") => taken'[call[q].mail] > 0
                        /\ At(q, "mark") => call[q].copy # None /\ Counts(call[q].copy, call[q].mail)
      BY <1>2 DEF CallsKept, Counts, At
    <2> QED
      BY HasMail, <1>3, <1>6 DEF CallsKept
  <1>13. Undisturbed'
    <2> SUFFICES ASSUME NEW n \in Mails, n \notin disturbed'
                 PROVE  /\ Alone(n)
                        /\ \A r \in Processors : n \in Batch(r) =>
                              /\ load[r][n] = row[n]
                              /\ taken'[n] = IF said'[r][n] = "sent" THEN 1 ELSE 0
                        /\ \A q \in Requests : call[q].mail = n =>
                              /\ row[n] = Fresh
                              /\ taken'[n] = IF At(q, "send") THEN 0 ELSE 1
                              /\ At(q, "mark") => call[q].copy = row[n]
      BY <1>2, <1>6 DEF Undisturbed, Alone, At
    <2>1. n \in Mails \ disturbed
      BY <1>3
    <2>2. CASE n = m
      BY <2>1, <2>2, <1>2, <1>4, <1>7 DEF Undisturbed, Alone
    <2>3. CASE n # m
      BY <2>1, <2>3, <1>3, <1>4 DEF Undisturbed
    <2> QED
      BY <2>2, <2>3
  <1> QED
    BY <1>5, <1>8, <1>9, <1>10, <1>11, <1>12, <1>13

LEMMA CommitKeeps ==
  ASSUME EmailInv, NEW p \in Processors, Commit(p)
  PROVE  EmailInv'
  <1> USE DEF EmailInv
  <1>1. /\ \A m \in Batch(p) : said[p][m] # None
        /\ row' = [m \in Mails |-> IF m \in Batch(p)
                                   THEN Written(row[m], load[p][m], Outcome(load[p][m], said[p][m]))
                                   ELSE row[m]]
        /\ Count(Batch(p))
        /\ load' = [load EXCEPT ![p] = [m \in Mails |-> None]]
        /\ said' = [said EXCEPT ![p] = [m \in Mails |-> None]]
        /\ UNCHANGED <<call, faults, taken, disturbed>>
    BY DEF Commit
  <1>2. /\ Batch(p)' = {}
        /\ \A m \in Mails : load'[p][m] = None /\ said'[p][m] = None
        /\ \A r \in Processors : r # p => /\ load'[r] = load[r] /\ said'[r] = said[r]
                                          /\ Batch(r)' = Batch(r)
    BY <1>1 DEF EmailTypeOK, Batch
  <1>3. ASSUME NEW m \in Batch(p)
        PROVE  /\ m \in Mails
               /\ row[m] \in Rows /\ load[p][m] \in Rows /\ said[p][m] \in Answers
               /\ Outcome(load[p][m], said[p][m]) \in Rows
    BY <1>1, OutcomeType DEF Batch, CopiesKept, EmailTypeOK
  <1>4. ASSUME NEW m \in Batch(p)
        PROVE  /\ row'[m] \in Rows
               /\ row'[m].attempts = load[p][m].attempts + 1
               /\ row'[m].status = "sent" => row[m].status = "sent" \/ said[p][m] = "sent"
               /\ row[m] = load[p][m] =>
                     (row'[m].status = "sent" <=> said[p][m] = "sent")
    <2> DEFINE new == Outcome(load[p][m], said[p][m])
    <2>1. new.attempts = load[p][m].attempts + 1
          /\ new.status = IF said[p][m] = "sent" THEN "sent" ELSE "failed"
      BY <1>3, OutcomeType
    <2>2. /\ Written(row[m], load[p][m], new) \in Rows
          /\ Written(row[m], load[p][m], new).attempts = load[p][m].attempts + 1
          /\ Written(row[m], load[p][m], new).status = "sent"
                => "sent" \in {row[m].status, new.status}
          /\ row[m] = load[p][m] => Written(row[m], load[p][m], new).status = new.status
      BY <1>3, <2>1, WrittenType
    <2>3. row'[m] = Written(row[m], load[p][m], new)
      BY <1>1, <1>3
    <2> QED
      BY <2>1, <2>2, <2>3
  <1>5. \A m \in Mails : m \notin Batch(p) => row'[m] = row[m]
    BY <1>1
  <1>6. EmailTypeOK'
    <2>1. row' \in [Mails -> Rows \cup {None}]
      BY <1>1, <1>4, <1>5 DEF EmailTypeOK
    <2>2. counted' \in [Mails -> 0..MAX_RETRIES]
      BY <1>1, CountStored
    <2> QED
      BY <1>1, <2>1, <2>2 DEF EmailTypeOK
  <1>7. \A m \in Mails : (row'[m] = None <=> row[m] = None)
    BY <1>3, <1>4, <1>5, NoneIsApart
  <1>8. \A m \in Mails, r \in Rows : Counts(r, m) => Counts(r, m)'
    BY <1>1, CountsStay
  <1>9. SentHasLeft'
    BY <1>1, <1>3, <1>4, <1>5, <1>7 DEF SentHasLeft, CopiesKept
  <1>10. RowsKept'
    <2> SUFFICES ASSUME NEW m \in Mails
                 PROVE  IF row'[m] = None THEN taken[m] = 0 ELSE Counts(row[m], m)'
      BY <1>1 DEF RowsKept
    <2>1. CASE m \in Batch(p)
      <3>1. Counts(load[p][m], m)
        BY <2>1 DEF CopiesKept
      <3>2. Counts(row[m], m)'
        BY <3>1, <2>1, <1>1, <1>3, <1>4, CountsStay DEF Counts
      <3> QED
        BY <3>2, <2>1, <1>4, NoneIsApart
    <2>2. CASE m \notin Batch(p)
      BY <2>2, <1>5, <1>8 DEF RowsKept, EmailTypeOK, Counts
    <2> QED
      BY <2>1, <2>2
  <1>11. CopiesKept'
    <2> SUFFICES ASSUME NEW r \in Processors, NEW m \in Mails
                 PROVE  /\ m \in Batch(r)' => /\ row'[m] # None
                                              /\ load'[r][m].attempts < MAX_RETRIES
                                              /\ load'[r][m].status # "sent"
                                              /\ load'[r][m].retry # "later"
                                              /\ Counts(load[r][m], m)'
                        /\ said'[r][m] # None => m \in Batch(r)'
                        /\ said'[r][m] = "sent" => taken[m] > 0
      BY <1>1 DEF CopiesKept
    <2>1. CASE r = p
      BY <2>1, <1>2, NoneIsApart DEF Answers
    <2>2. CASE r # p
      <3>1. m \in Batch(r) => load[r][m] \in Rows
        BY DEF Batch, EmailTypeOK
      <3>2. m \in Batch(r) => Counts(load[r][m], m)'
        BY <3>1, <2>2, <1>2, <1>8 DEF CopiesKept, Counts
      <3> QED
        BY <3>2, <2>2, <1>2, <1>7 DEF CopiesKept
    <2> QED
      BY <2>1, <2>2
  <1>12. CallsKept'
    <2> SUFFICES ASSUME NEW q \in Requests, call[q] # Idle
                 PROVE  /\ row'[call[q].mail] # None
                        /\ ~At(q, "send") => taken[call[q].mail] > 0
                        /\ At(q, "mark") => call[q].copy # None /\ Counts(call[q].copy, call[q].mail)'
      BY <1>1 DEF CallsKept, At, Counts
    <2>1. call[q].mail \in Mails /\ call[q].copy \in Rows \cup {None}
      BY HasMail DEF Callers
    <2>2. call[q].copy # None /\ Counts(call[q].copy, call[q].mail)
             => Counts(call[q].copy, call[q].mail)'
      BY <2>1, <1>1, <1>8 DEF Counts
    <2> QED
      BY <2>1, <2>2, <1>7 DEF CallsKept
  <1>13. \A m \in Mails : m \notin Batch(p) => (InHand(m)' <=> InHand(m))
    BY <1>1, <1>2 DEF InHand
  <1>14. MailedOnce'
    <2> SUFFICES ASSUME NEW m \in Mails, m \notin disturbed
                 PROVE  /\ taken[m] <= 1
                        /\ row'[m] # None /\ ~InHand(m)'
                              => (taken[m] = 1 <=> row'[m].status = "sent")
      BY <1>1 DEF MailedOnce
    <2>1. CASE m \in Batch(p)
      BY <2>1, <1>4 DEF Undisturbed
    <2>2. CASE m \notin Batch(p)
      BY <2>2, <1>5, <1>13 DEF MailedOnce
    <2> QED
      BY <2>1, <2>2
  <1>15. Undisturbed'
    <2> SUFFICES ASSUME NEW m \in Mails, m \notin disturbed
                 PROVE  /\ Alone(m)'
                        /\ \A r \in Processors : m \in Batch(r)' =>
                              /\ load'[r][m] = row'[m]
                              /\ taken[m] = IF said'[r][m] = "sent" THEN 1 ELSE 0
                        /\ \A q \in Requests : call[q].mail = m =>
                              /\ row'[m] = Fresh
                              /\ taken[m] = IF At(q, "send") THEN 0 ELSE 1
                              /\ At(q, "mark") => call[q].copy = row'[m]
      BY <1>1 DEF Undisturbed, At
    <2>1. Alone(m)'
      BY <1>1, <1>2 DEF Undisturbed, Alone
    <2>2. CASE m \in Batch(p)
      <3>1. \A r \in Processors : m \notin Batch(r)'
        BY <2>2, <1>2 DEF Undisturbed, Alone
      <3>2. \A q \in Requests : call[q].mail # m
        BY <2>2 DEF Undisturbed, Alone
      <3> QED
        BY <2>1, <3>1, <3>2
    <2>3. CASE m \notin Batch(p)
      BY <2>1, <2>3, <1>2, <1>5 DEF Undisturbed
    <2> QED
      BY <2>2, <2>3
  <1> QED
    BY <1>6, <1>9, <1>10, <1>11, <1>12, <1>14, <1>15

LEMMA BatchFailsKeeps ==
  ASSUME EmailInv, NEW p \in Processors, BatchFails(p)
  PROVE  EmailInv'
  <1> USE DEF EmailInv
  <1>1. /\ faults' = faults + 1
        /\ load' = [load EXCEPT ![p] = [m \in Mails |-> None]]
        /\ said' = [said EXCEPT ![p] = [m \in Mails |-> None]]
        /\ disturbed' = disturbed \cup {m \in Batch(p) : said[p][m] = "sent"}
        /\ UNCHANGED <<row, call, taken, counted>>
    BY DEF BatchFails
  <1>2. /\ Batch(p)' = {}
        /\ \A m \in Mails : load'[p][m] = None /\ said'[p][m] = None
        /\ \A r \in Processors : r # p => /\ load'[r] = load[r] /\ said'[r] = said[r]
                                          /\ Batch(r)' = Batch(r)
    BY <1>1 DEF EmailTypeOK, Batch
  <1>3. EmailTypeOK'
    BY <1>1 DEF EmailTypeOK, Batch
  <1>4. SentHasLeft' /\ RowsKept' /\ CallsKept'
    BY <1>1 DEF SentHasLeft, RowsKept, CallsKept, Counts, At
  <1>5. CopiesKept'
    <2> SUFFICES ASSUME NEW r \in Processors, NEW m \in Mails
                 PROVE  /\ m \in Batch(r)' => /\ row[m] # None
                                              /\ load'[r][m].attempts < MAX_RETRIES
                                              /\ load'[r][m].status # "sent"
                                              /\ load'[r][m].retry # "later"
                                              /\ Counts(load'[r][m], m)
                        /\ said'[r][m] # None => m \in Batch(r)'
                        /\ said'[r][m] = "sent" => taken[m] > 0
      BY <1>1 DEF CopiesKept, Counts
    <2>1. CASE r = p
      BY <2>1, <1>2, NoneIsApart DEF Answers
    <2>2. CASE r # p
      BY <2>2, <1>2 DEF CopiesKept
    <2> QED
      BY <2>1, <2>2
  <1>6. \A m \in Mails : m \notin Batch(p) => (InHand(m)' <=> InHand(m))
    BY <1>1, <1>2 DEF InHand
  <1>7. MailedOnce'
    <2> SUFFICES ASSUME NEW m \in Mails, m \notin disturbed'
                 PROVE  /\ taken[m] <= 1
                        /\ row[m] # None /\ ~InHand(m)'
                              => (taken[m] = 1 <=> row[m].status = "sent")
      BY <1>1 DEF MailedOnce
    <2>1. CASE m \in Batch(p)
      BY <2>1, <1>1 DEF Undisturbed, CopiesKept
    <2>2. CASE m \notin Batch(p)
      BY <2>2, <1>1, <1>6 DEF MailedOnce
    <2> QED
      BY <2>1, <2>2
  <1>8. Undisturbed'
    <2> SUFFICES ASSUME NEW m \in Mails, m \notin disturbed
                 PROVE  /\ Alone(m)'
                        /\ \A r \in Processors : m \in Batch(r)' =>
                              /\ load'[r][m] = row[m]
                              /\ taken[m] = IF said'[r][m] = "sent" THEN 1 ELSE 0
                        /\ \A q \in Requests : call[q].mail = m =>
                              /\ row[m] = Fresh
                              /\ taken[m] = IF At(q, "send") THEN 0 ELSE 1
                              /\ At(q, "mark") => call[q].copy = row[m]
      BY <1>1 DEF Undisturbed, At
    <2>1. Alone(m)'
      BY <1>1, <1>2 DEF Undisturbed, Alone
    <2> QED
      BY <2>1, <1>2 DEF Undisturbed
  <1> QED
    BY <1>3, <1>4, <1>5, <1>7, <1>8

\* What a request does next, and how that leaves the other requests.
LEMMA RequestMoves ==
  ASSUME EmailTypeOK, NEW q \in Requests, NEW to, call' = [call EXCEPT ![q] = to]
  PROVE  call'[q] = to /\ \A s \in Requests : s # q => call'[s] = call[s]
  BY DEF EmailTypeOK

LEMMA PersistKeeps ==
  ASSUME EmailInv, NEW q \in Requests, NEW m \in Mails, Persist(q, m)
  PROVE  EmailInv'
  <1> USE DEF EmailInv
  <1> DEFINE to == [at |-> "send", mail |-> m, copy |-> None]
  <1>1. /\ call[q] = Idle /\ row[m] = None
        /\ row' = [row EXCEPT ![m] = Fresh]
        /\ call' = [call EXCEPT ![q] = to]
        /\ UNCHANGED <<load, said, faults, taken, counted, disturbed>>
    BY DEF Persist, Continue, processing, history
  <1>2. call'[q] = to /\ \A s \in Requests : s # q => call'[s] = call[s]
    BY <1>1, RequestMoves
  <1>3. row'[m] = Fresh /\ \A n \in Mails : n # m => row'[n] = row[n]
    BY <1>1 DEF EmailTypeOK
  <1>4. /\ Fresh \in Rows /\ Fresh # None /\ Fresh.attempts = 0 /\ Fresh.status # "sent"
        /\ to \in Callers
    BY FreshIsARow, NoneIsApart DEF Fresh, Callers
  <1>5. EmailTypeOK'
    BY <1>1, <1>4 DEF EmailTypeOK
  <1>6. taken[m] = 0
    BY <1>1 DEF RowsKept
  \* Nobody can have had a row that was not there.
  <1>7. /\ \A r \in Processors : m \notin Batch(r) /\ Batch(r)' = Batch(r)
        /\ \A s \in Requests : call[s].mail # m
    <2>1. \A r \in Processors : m \notin Batch(r) /\ Batch(r)' = Batch(r)
      BY <1>1 DEF CopiesKept, Batch
    <2>2. \A s \in Requests : call[s].mail # m
      BY <1>1, HasMail DEF CallsKept
    <2> QED
      BY <2>1, <2>2
  <1>8. SentHasLeft'
    BY <1>1, <1>3, <1>4 DEF SentHasLeft
  <1>9. RowsKept'
    BY <1>1, <1>3, <1>4, EmailAssumption DEF RowsKept, Counts, EmailTypeOK
  <1>10. CopiesKept'
    BY <1>1, <1>3, <1>4, <1>7 DEF CopiesKept, Counts
  <1>11. CallsKept'
    <2> SUFFICES ASSUME NEW s \in Requests, call'[s] # Idle
                 PROVE  /\ row'[call'[s].mail] # None
                        /\ ~At(s, "send")' => taken[call'[s].mail] > 0
                        /\ At(s, "mark")' => /\ call'[s].copy # None
                                             /\ Counts(call'[s].copy, call'[s].mail)
      BY <1>1 DEF CallsKept, Counts
    <2>1. CASE s = q
      BY <2>1, <1>2, <1>3, <1>4 DEF At
    <2>2. CASE s # q
      BY <2>2, <1>2, <1>3, <1>7, HasMail DEF CallsKept, At
    <2> QED
      BY <2>1, <2>2
  <1>12. \A n \in Mails : (n = m => InHand(n)') /\ (n # m => (InHand(n)' <=> InHand(n)))
    <2>1. \A n \in Mails : n # m => ((\E s \in Requests : call'[s].mail = n)
                                        <=> (\E s \in Requests : call[s].mail = n))
      BY <1>1, <1>2, NoneIsApart DEF Idle
    <2> QED
      BY <2>1, <1>2, <1>7 DEF InHand
  <1>13. MailedOnce'
    BY <1>1, <1>3, <1>6, <1>12 DEF MailedOnce
  <1>14. Undisturbed'
    <2> SUFFICES ASSUME NEW n \in Mails, n \notin disturbed
                 PROVE  /\ Alone(n)'
                        /\ \A r \in Processors : n \in Batch(r) =>
                              /\ load[r][n] = row'[n]
                              /\ taken[n] = IF said[r][n] = "sent" THEN 1 ELSE 0
                        /\ \A s \in Requests : call'[s].mail = n =>
                              /\ row'[n] = Fresh
                              /\ taken[n] = IF At(s, "send")' THEN 0 ELSE 1
                              /\ At(s, "mark")' => call'[s].copy = row'[n]
      BY <1>1, <1>7 DEF Undisturbed
    <2>1. CASE n = m
      <3>1. \A s \in Requests : call'[s].mail = n => s = q
        BY <2>1, <1>2, <1>7
      <3> QED
        BY <2>1, <3>1, <1>2, <1>3, <1>6, <1>7 DEF Alone, At
    <2>2. CASE n # m
      <3>1. \A s \in Requests : call'[s].mail = n => s # q /\ call'[s] = call[s]
        BY <2>2, <1>2
      <3>2. Alone(n)'
        BY <3>1, <1>7 DEF Undisturbed, Alone
      <3> QED
        BY <2>2, <3>1, <3>2, <1>3 DEF Undisturbed, At
    <2> QED
      BY <2>1, <2>2
  <1> QED
    BY <1>5, <1>8, <1>9, <1>10, <1>11, <1>13, <1>14

LEMMA SendNowKeeps ==
  ASSUME EmailInv, NEW q \in Requests, SendNow(q)
  PROVE  EmailInv'
  <1> USE DEF EmailInv
  <1> DEFINE m == call[q].mail
  <1>1. PICK answer \in Answers :
          /\ Sent(m, answer)
          /\ call' = [call EXCEPT ![q] = IF answer = "sent"
                                         THEN [at |-> "load", mail |-> m, copy |-> None]
                                         ELSE Idle]
    BY DEF SendNow, Continue
  <1> DEFINE to == IF answer = "sent" THEN [at |-> "load", mail |-> m, copy |-> None] ELSE Idle
  <1>2. At(q, "send") /\ UNCHANGED <<row, load, said, faults, counted>>
    BY DEF SendNow, processing
  <1>3. m \in Mails /\ call[q] # Idle /\ row[m] # None
    BY <1>2, HasMail DEF CallsKept
  <1>4. /\ taken' \in [Mails -> 0..2]
        /\ disturbed' \subseteq Mails /\ disturbed \subseteq disturbed'
        /\ \A n \in Mails : taken'[n] >= taken[n]
        /\ \A n \in Mails : n # m => taken'[n] = taken[n] /\ (n \in disturbed' <=> n \in disturbed)
        /\ answer = "sent" => taken'[m] > 0
        /\ m \notin disturbed' /\ taken[m] = 0
              => taken'[m] = IF answer = "sent" THEN 1 ELSE 0
    BY <1>1, <1>3, SentMail
  <1>5. call'[q] = to /\ \A s \in Requests : s # q => call'[s] = call[s]
    BY <1>1, RequestMoves
  <1>6. to \in Callers \cup {Idle} /\ (answer = "sent" => to.mail = m /\ to.at = "load")
        /\ (answer # "sent" => to = Idle)
    BY <1>3, NoneIsApart DEF Callers
  <1>7. EmailTypeOK'
    BY <1>1, <1>2, <1>4, <1>6 DEF EmailTypeOK
  <1>8. /\ taken \in [Mails -> 0..2]
        /\ \A r \in Processors : Batch(r)' = Batch(r)
        /\ \A n \in Mails : n # Idle.mail
    BY <1>2, NoneIsApart DEF Batch, EmailTypeOK, Idle
  <1>9. m \notin disturbed' => /\ taken'[m] = IF answer = "sent" THEN 1 ELSE 0
                               /\ row[m] = Fresh /\ Fresh.status = "pending"
                               /\ \A r \in Processors : m \notin Batch(r)
                               /\ \A s \in Requests : call[s].mail = m => s = q
    BY <1>2, <1>3, <1>4 DEF Undisturbed, Alone, Fresh
  <1>10. \A n \in Mails : n # m => (InHand(n)' <=> InHand(n))
    BY <1>5, <1>6, <1>8 DEF InHand
  <1>11. SentHasLeft' /\ RowsKept'
    BY <1>2, <1>3, <1>4, <1>8 DEF SentHasLeft, RowsKept, Counts
  <1>12. CopiesKept'
    BY <1>2, <1>4, <1>8 DEF CopiesKept, Counts
  <1>13. CallsKept'
    <2> SUFFICES ASSUME NEW s \in Requests, call'[s] # Idle
                 PROVE  /\ row[call'[s].mail] # None
                        /\ ~At(s, "send")' => taken'[call'[s].mail] > 0
                        /\ At(s, "mark")' => /\ call'[s].copy # None
                                             /\ Counts(call'[s].copy, call'[s].mail)
      BY <1>2 DEF CallsKept, Counts
    <2>1. CASE s = q
      BY <2>1, <1>3, <1>4, <1>5, <1>6 DEF At
    <2>2. CASE s # q
      BY <2>2, <1>4, <1>5, <1>8, HasMail DEF CallsKept, At
    <2> QED
      BY <2>1, <2>2
  <1>14. MailedOnce'
    <2> SUFFICES ASSUME NEW n \in Mails, n \notin disturbed'
                 PROVE  /\ taken'[n] <= 1
                        /\ row[n] # None /\ ~InHand(n)'
                              => (taken'[n] = 1 <=> row[n].status = "sent")
      BY <1>2 DEF MailedOnce
    <2>1. CASE n = m
      <3>1. CASE answer = "sent"
        BY <2>1, <3>1, <1>5, <1>6, <1>9 DEF InHand
      <3>2. CASE answer # "sent"
        BY <2>1, <3>2, <1>9
      <3> QED
        BY <3>1, <3>2
    <2>2. CASE n # m
      BY <2>2, <1>4, <1>10 DEF MailedOnce
    <2> QED
      BY <2>1, <2>2
  <1>15. Undisturbed'
    <2> SUFFICES ASSUME NEW n \in Mails, n \notin disturbed'
                 PROVE  /\ Alone(n)'
                        /\ \A r \in Processors : n \in Batch(r) =>
                              /\ load[r][n] = row[n]
                              /\ taken'[n] = IF said[r][n] = "sent" THEN 1 ELSE 0
                        /\ \A s \in Requests : call'[s].mail = n =>
                              /\ row[n] = Fresh
                              /\ taken'[n] = IF At(s, "send")' THEN 0 ELSE 1
                              /\ At(s, "mark")' => call'[s].copy = row[n]
      BY <1>2, <1>8 DEF Undisturbed
    <2>1. CASE n = m
      <3>1. \A s \in Requests : call'[s].mail = n => s = q /\ answer = "sent"
        BY <2>1, <1>5, <1>6, <1>8, <1>9
      <3>2. Alone(n)'
        BY <2>1, <3>1, <1>8, <1>9 DEF Alone
      <3> QED
        BY <2>1, <3>1, <3>2, <1>5, <1>6, <1>9 DEF At
    <2>2. CASE n # m
      <3>1. n \notin disturbed
        BY <1>4
      <3>2. \A s \in Requests : call'[s].mail = n => s # q /\ call'[s] = call[s]
        BY <2>2, <1>5, <1>6, <1>8
      <3>3. Alone(n)'
        BY <3>1, <3>2, <1>8 DEF Undisturbed, Alone
      <3> QED
        BY <2>2, <3>1, <3>2, <3>3, <1>4 DEF Undisturbed, At
    <2> QED
      BY <2>1, <2>2
  <1> QED
    BY <1>7, <1>11, <1>12, <1>13, <1>14, <1>15

LEMMA MarkLoadKeeps ==
  ASSUME EmailInv, NEW q \in Requests, MarkLoad(q)
  PROVE  EmailInv'
  <1> USE DEF EmailInv
  <1> DEFINE m == call[q].mail
             to == [at |-> "mark", mail |-> m, copy |-> row[m]]
  <1>1. /\ At(q, "load") /\ call' = [call EXCEPT ![q] = to]
        /\ UNCHANGED <<row, load, said, faults, taken, counted, disturbed>>
    BY DEF MarkLoad, Continue, processing, history
  <1>2. call'[q] = to /\ \A s \in Requests : s # q => call'[s] = call[s]
    BY <1>1, RequestMoves
  <1>3. /\ m \in Mails /\ call[q] # Idle /\ row[m] # None /\ row[m] \in Rows
        /\ ~At(q, "send") /\ taken[m] > 0
    BY <1>1, HasMail DEF CallsKept, EmailTypeOK, At
  <1>4. to \in Callers
    BY <1>3 DEF Callers
  <1>5. EmailTypeOK'
    BY <1>1, <1>4 DEF EmailTypeOK
  <1>6. \A s \in Requests : call'[s].mail = call[s].mail
    BY <1>2
  <1>7. SentHasLeft' /\ RowsKept' /\ CopiesKept'
    BY <1>1 DEF SentHasLeft, RowsKept, CopiesKept, Counts, Batch
  <1>8. CallsKept'
    BY <1>1, <1>2, <1>3 DEF CallsKept, RowsKept, Counts, At
  <1>9. MailedOnce'
    BY <1>1, <1>6 DEF MailedOnce, InHand, Batch
  <1>10. Undisturbed'
    BY <1>1, <1>2, <1>3, <1>6 DEF Undisturbed, Alone, Batch, At
  <1> QED
    BY <1>5, <1>7, <1>8, <1>9, <1>10

LEMMA MarkCommitKeeps ==
  ASSUME EmailInv, NEW q \in Requests, MarkCommit(q)
  PROVE  EmailInv'
  <1> USE DEF EmailInv
  <1> DEFINE m == call[q].mail
             copy == call[q].copy
  <1>1. /\ At(q, "mark")
        /\ row' = [row EXCEPT ![m] = Written(row[m], copy, Marked(copy))]
        /\ Count({m})
        /\ call' = [call EXCEPT ![q] = Idle]
        /\ UNCHANGED <<load, said, faults, taken, disturbed>>
    BY DEF MarkCommit, processing
  <1>2. call'[q] = Idle /\ \A s \in Requests : s # q => call'[s] = call[s]
    BY <1>1, RequestMoves
  <1>3. /\ m \in Mails /\ call[q] # Idle /\ row[m] # None /\ row[m] \in Rows
        /\ taken[m] > 0 /\ copy \in Rows /\ Counts(copy, m) /\ ~At(q, "send")
    BY <1>1, HasMail DEF CallsKept, EmailTypeOK, At, Callers
  <1>4. /\ row'[m] \in Rows /\ row'[m].attempts = copy.attempts + 1
        /\ row[m] = copy => row'[m].status = "sent"
    <2>1. row'[m] = Written(row[m], copy, Marked(copy))
      BY <1>1, <1>3 DEF EmailTypeOK
    <2> HIDE DEF m, copy
    <2> QED
      BY <2>1, <1>3, MarkedType, WrittenType
  <1>5. \A n \in Mails : n # m => row'[n] = row[n]
    BY <1>1 DEF EmailTypeOK
  <1>6. EmailTypeOK'
    <2>1. counted' \in [Mails -> 0..MAX_RETRIES]
      BY <1>1, CountStored
    <2> QED
      BY <2>1, <1>1, <1>3, <1>4, <1>5 DEF EmailTypeOK
  <1>7. \A n \in Mails, r \in Rows : Counts(r, n) => Counts(r, n)'
    BY <1>1, CountsStay
  <1>8. /\ \A n \in Mails : row'[n] = None <=> row[n] = None
        /\ \A r \in Processors : Batch(r)' = Batch(r)
        /\ \A n \in Mails : n # Idle.mail
    BY <1>1, <1>3, <1>4, <1>5, NoneIsApart DEF Batch, Idle
  <1>9. SentHasLeft'
    BY <1>1, <1>3, <1>5, <1>8 DEF SentHasLeft
  <1>10. RowsKept'
    <2> SUFFICES ASSUME NEW n \in Mails
                 PROVE  IF row'[n] = None THEN taken[n] = 0 ELSE Counts(row[n], n)'
      BY <1>1 DEF RowsKept
    <2>1. CASE n = m
      <3>1. Counts(copy, n) /\ n \in {m}
        BY <2>1, <1>3
      <3>2. Counts(row[n], n)'
        BY <2>1, <3>1, <1>1, <1>3, <1>4, CountsStay DEF Counts
      <3> QED
        BY <2>1, <3>2, <1>3, <1>8
    <2>2. CASE n # m
      <3>1. row[n] # None => row[n] \in Rows
        BY DEF EmailTypeOK
      <3> QED
        BY <2>2, <3>1, <1>5, <1>7 DEF RowsKept, Counts
    <2> QED
      BY <2>1, <2>2
  <1>11. CopiesKept'
    <2>1. \A r \in Processors, n \in Mails :
            n \in Batch(r) => load[r][n] \in Rows /\ Counts(load[r][n], n)'
      BY <1>1, <1>7 DEF Batch, EmailTypeOK, CopiesKept, Counts
    <2> QED
      BY <2>1, <1>1, <1>8 DEF CopiesKept
  <1>12. CallsKept'
    <2> SUFFICES ASSUME NEW s \in Requests, call'[s] # Idle
                 PROVE  /\ row'[call'[s].mail] # None
                        /\ ~At(s, "send")' => taken[call'[s].mail] > 0
                        /\ At(s, "mark")' => call'[s].copy # None
                                             /\ Counts(call[s].copy, call[s].mail)'
      BY <1>1 DEF CallsKept
    <2>1. s # q /\ call'[s] = call[s] /\ call[s].mail \in Mails
          /\ call[s].copy \in Rows \cup {None}
      BY <1>2, HasMail DEF Callers
    <2>2. call[s].copy # None /\ Counts(call[s].copy, call[s].mail)
             => Counts(call[s].copy, call[s].mail)'
      BY <2>1, <1>7 DEF Counts
    <2> QED
      BY <2>1, <2>2, <1>8 DEF CallsKept, At
  <1>13. \A n \in Mails : n # m => (InHand(n)' <=> InHand(n))
    BY <1>2, <1>8 DEF InHand
  <1>14. MailedOnce'
    <2> SUFFICES ASSUME NEW n \in Mails, n \notin disturbed
                 PROVE  /\ taken[n] <= 1
                        /\ row'[n] # None /\ ~InHand(n)'
                              => (taken[n] = 1 <=> row'[n].status = "sent")
      BY <1>1 DEF MailedOnce
    <2>1. CASE n = m
      BY <2>1, <1>1, <1>3, <1>4 DEF Undisturbed
    <2>2. CASE n # m
      BY <2>2, <1>5, <1>8, <1>13 DEF MailedOnce
    <2> QED
      BY <2>1, <2>2
  <1>15. Undisturbed'
    <2> SUFFICES ASSUME NEW n \in Mails, n \notin disturbed
                 PROVE  /\ Alone(n)'
                        /\ \A r \in Processors : n \in Batch(r) =>
                              /\ load[r][n] = row'[n]
                              /\ taken[n] = IF said[r][n] = "sent" THEN 1 ELSE 0
                        /\ \A s \in Requests : call'[s].mail = n =>
                              /\ row'[n] = Fresh
                              /\ taken[n] = IF At(s, "send")' THEN 0 ELSE 1
                              /\ At(s, "mark")' => call'[s].copy = row'[n]
      BY <1>1, <1>8 DEF Undisturbed
    <2>1. \A s \in Requests : call'[s].mail = n => s # q /\ call'[s] = call[s]
      BY <1>2, <1>8
    <2>2. Alone(n)'
      BY <2>1, <1>8 DEF Undisturbed, Alone
    <2>3. CASE n = m
      BY <2>1, <2>2, <2>3, <1>3 DEF Undisturbed, Alone
    <2>4. CASE n # m
      BY <2>1, <2>2, <2>4, <1>5 DEF Undisturbed, At
    <2> QED
      BY <2>3, <2>4
  <1> QED
    BY <1>6, <1>9, <1>10, <1>11, <1>12, <1>14, <1>15

LEMMA RequestFailsKeeps ==
  ASSUME EmailInv, NEW q \in Requests, RequestFails(q)
  PROVE  EmailInv'
  <1> USE DEF EmailInv
  <1> DEFINE m == call[q].mail
  <1>1. /\ call[q] # Idle /\ faults' = faults + 1
        /\ call' = [call EXCEPT ![q] = Idle]
        /\ disturbed' = IF At(q, "send") THEN disturbed ELSE disturbed \cup {m}
        /\ UNCHANGED <<row, load, said, taken, counted>>
    BY DEF RequestFails, processing
  <1>2. call'[q] = Idle /\ \A s \in Requests : s # q => call'[s] = call[s]
    BY <1>1, RequestMoves
  <1>3. /\ m \in Mails /\ disturbed \subseteq disturbed'
        /\ \A r \in Processors : Batch(r)' = Batch(r)
        /\ \A n \in Mails : n # Idle.mail
    BY <1>1, HasMail, NoneIsApart DEF Batch, Idle
  <1>4. EmailTypeOK'
    BY <1>1, <1>3 DEF EmailTypeOK
  <1>5. SentHasLeft' /\ RowsKept' /\ CopiesKept'
    BY <1>1, <1>3 DEF SentHasLeft, RowsKept, CopiesKept, Counts
  <1>6. CallsKept'
    BY <1>1, <1>2 DEF CallsKept, Counts, At
  <1>7. \A n \in Mails : n # m => (InHand(n)' <=> InHand(n))
    BY <1>2, <1>3 DEF InHand
  <1>8. MailedOnce'
    <2> SUFFICES ASSUME NEW n \in Mails, n \notin disturbed'
                 PROVE  /\ taken[n] <= 1
                        /\ row[n] # None /\ ~InHand(n)'
                              => (taken[n] = 1 <=> row[n].status = "sent")
      BY <1>1 DEF MailedOnce
    <2>1. CASE n = m
      <3>1. n \notin disturbed /\ At(q, "send")
        BY <2>1, <1>1
      <3>2. taken[n] = 0 /\ row[n] = Fresh
        BY <2>1, <3>1, <1>3 DEF Undisturbed
      <3> QED
        BY <3>2 DEF Fresh
    <2>2. CASE n # m
      BY <2>2, <1>3, <1>7 DEF MailedOnce
    <2> QED
      BY <2>1, <2>2
  <1>9. Undisturbed'
    <2> SUFFICES ASSUME NEW n \in Mails, n \notin disturbed
                 PROVE  /\ Alone(n)'
                        /\ \A r \in Processors : n \in Batch(r) =>
                              /\ load[r][n] = row[n]
                              /\ taken[n] = IF said[r][n] = "sent" THEN 1 ELSE 0
                        /\ \A s \in Requests : call'[s].mail = n =>
                              /\ row[n] = Fresh
                              /\ taken[n] = IF At(s, "send")' THEN 0 ELSE 1
                              /\ At(s, "mark")' => call'[s].copy = row[n]
      BY <1>1, <1>3 DEF Undisturbed
    <2>1. \A s \in Requests : call'[s].mail = n => s # q /\ call'[s] = call[s]
      BY <1>2, <1>3
    <2>2. Alone(n)'
      BY <2>1, <1>3 DEF Undisturbed, Alone
    <2> QED
      BY <2>1, <2>2 DEF Undisturbed, At
  <1> QED
    BY <1>4, <1>5, <1>6, <1>8, <1>9

LEMMA RetryDueKeeps ==
  ASSUME EmailInv, NEW m \in Mails, RetryDue(m)
  PROVE  EmailInv'
  <1> USE DEF EmailInv
  <1>1. /\ row[m] # None /\ row[m].retry = "later"
        /\ row' = [row EXCEPT ![m].retry = "over"]
        /\ UNCHANGED <<load, said, call, faults, taken, counted, disturbed>>
    BY DEF RetryDue, processing, history
  <1>2. row[m] \in Rows
    BY <1>1 DEF EmailTypeOK
  <1>3. /\ row'[m] \in Rows /\ row'[m] # None
        /\ row'[m].status = row[m].status /\ row'[m].attempts = row[m].attempts
        /\ \A n \in Mails : n # m => row'[n] = row[n]
    BY <1>1, <1>2, NoneIsApart DEF EmailTypeOK, Rows
  <1>4. EmailTypeOK'
    BY <1>1, <1>3 DEF EmailTypeOK
  <1>5. SentHasLeft' /\ RowsKept'
    BY <1>1, <1>3 DEF SentHasLeft, RowsKept, Counts
  <1>6. CopiesKept'
    BY <1>1, <1>3 DEF CopiesKept, Counts, Batch
  <1>7. CallsKept'
    BY <1>1, <1>3, HasMail DEF CallsKept, Counts, At
  <1>8. MailedOnce'
    BY <1>1, <1>3 DEF MailedOnce, InHand, Batch
  \* Who has a mail in hand undisturbed took a row whose time had come.
  <1>9. m \notin disturbed => ~InHand(m)
    BY <1>1 DEF Undisturbed, CopiesKept, InHand, Fresh
  <1>10. Undisturbed'
    <2> SUFFICES ASSUME NEW n \in Mails, n \notin disturbed
                 PROVE  /\ Alone(n)
                        /\ \A r \in Processors : n \in Batch(r) =>
                              /\ load[r][n] = row'[n]
                              /\ taken[n] = IF said[r][n] = "sent" THEN 1 ELSE 0
                        /\ \A s \in Requests : call[s].mail = n =>
                              /\ row'[n] = Fresh
                              /\ taken[n] = IF At(s, "send") THEN 0 ELSE 1
                              /\ At(s, "mark") => call[s].copy = row'[n]
      BY <1>1 DEF Undisturbed, Alone, Batch, At
    <2>1. CASE n = m
      BY <2>1, <1>9 DEF Undisturbed, InHand
    <2>2. CASE n # m
      BY <2>2, <1>3 DEF Undisturbed
    <2> QED
      BY <2>1, <2>2
  <1> QED
    BY <1>4, <1>5, <1>6, <1>7, <1>8, <1>10

-----------------------------------------------------------------------------
(* The theorems.                                                           *)

LEMMA NextKeeps == EmailInv /\ [Next]_vars => EmailInv'
  <1> SUFFICES ASSUME EmailInv, [Next]_vars PROVE EmailInv'
    OBVIOUS
  <1>1. ASSUME NEW p \in Processors, Process(p) PROVE EmailInv'
    BY <1>1, SelectKeeps, DeliverKeeps, CommitKeeps DEF Process
  <1>2. ASSUME NEW p \in Processors, BatchFails(p) PROVE EmailInv'
    BY <1>2, BatchFailsKeeps
  <1>3. ASSUME NEW q \in Requests, Send(q) PROVE EmailInv'
    BY <1>3, PersistKeeps, SendNowKeeps, MarkLoadKeeps, MarkCommitKeeps DEF Send
  <1>4. ASSUME NEW q \in Requests, RequestFails(q) PROVE EmailInv'
    BY <1>4, RequestFailsKeeps
  <1>5. ASSUME NEW m \in Mails, RetryDue(m) PROVE EmailInv'
    BY <1>5, RetryDueKeeps
  <1>6. CASE UNCHANGED vars
    BY <1>6 DEF vars, processing, history, EmailInv, EmailTypeOK, SentHasLeft, MailedOnce,
                RowsKept, CopiesKept, CallsKept, Undisturbed, Alone, InHand, Batch, Counts, At
  <1> QED
    BY <1>1, <1>2, <1>3, <1>4, <1>5, <1>6 DEF Next

\* The inductive invariant of the queue, for any number of mails, requests,
\* processors, retries and faults, and batches of any size.
THEOREM EmailInvariance == Spec => []EmailInv
  <1> QED
    BY InitEmailInv, NextKeeps, PTL DEF Spec

\* The rows, the copies of them and the histories have their types.
THEOREM EmailTypes == Spec => []EmailTypeOK
  <1>1. EmailInv => EmailTypeOK
    BY DEF EmailInv
  <1> QED
    BY <1>1, EmailInvariance, PTL

\* A mail marked as sent was taken by a provider: no stale copy written back by
\* _process_batch or _mark_sent, and no failed commit, makes a row say it falsely.
THEOREM SentMailsHaveLeft == Spec => []SentHasLeft
  <1>1. EmailInv => SentHasLeft
    BY DEF EmailInv
  <1> QED
    BY <1>1, EmailInvariance, PTL

\* Where no two sessions meet at a mail and no answer or commit is lost, it is
\* sent once, and its row says whether it was.
THEOREM MailsAreSentOnce == Spec => []MailedOnce
  <1>1. EmailInv => MailedOnce
    BY DEF EmailInv
  <1> QED
    BY <1>1, EmailInvariance, PTL

\* However the sessions overwrite each other's counts, no mail is given up
\* before MAX_RETRIES of its sends were accounted for.
THEOREM MailsAreTriedLongEnough == Spec => []NotGivenUpEarly
  <1>1. EmailInv => NotGivenUpEarly
    <2> SUFFICES ASSUME EmailInv, NEW m \in Mails, row[m] # None,
                        row[m].attempts >= MAX_RETRIES
                 PROVE  counted[m] = MAX_RETRIES
      BY DEF NotGivenUpEarly
    <2>1. row[m].attempts \in Nat /\ counted[m] \in 0..MAX_RETRIES /\ MAX_RETRIES \in Nat
      BY EmailAssumption DEF EmailInv, EmailTypeOK, Rows
    <2>2. Counts(row[m], m)
      BY DEF EmailInv, RowsKept
    <2> QED
      BY <2>1, <2>2 DEF Counts
  <1> QED
    BY <1>1, EmailInvariance, PTL
\* A step that stores an outcome of an undisturbed mail stores the next one.
LEMMA OutcomeAdds ==
  ASSUME EmailInv, [Next]_vars, NEW m \in Mails \ disturbed, row[m] # None, row'[m] # row[m]
  PROVE  \/ row[m].retry = "later" /\ row'[m] = [row[m] EXCEPT !.retry = "over"]
         \/ /\ row[m].retry # "later" /\ row[m].status # "sent"
            /\ row[m].attempts < MAX_RETRIES
            /\ row'[m].attempts = row[m].attempts + 1
  <1> DEFINE NextOutcome == /\ row[m].retry # "later" /\ row[m].status # "sent"
                            /\ row[m].attempts < MAX_RETRIES
                            /\ row'[m].attempts = row[m].attempts + 1
  <1>1. EmailTypeOK /\ CopiesKept /\ CallsKept /\ Undisturbed /\ row[m] \in Rows
    BY DEF EmailInv, EmailTypeOK
  <1>2. ASSUME NEW p \in Processors, Commit(p) PROVE NextOutcome
    <2>1. m \in Batch(p)
      BY <1>1, <1>2 DEF Commit
    <2>2. load[p][m] = row[m] /\ said[p][m] \in Answers
      BY <1>1, <1>2, <2>1 DEF Commit, Undisturbed, EmailTypeOK
    <2>3. row[m].retry # "later" /\ row[m].status # "sent" /\ row[m].attempts < MAX_RETRIES
      BY <1>1, <2>1, <2>2 DEF CopiesKept
    <2>4. row'[m] = Written(row[m], row[m], Outcome(row[m], said[p][m]))
      BY <1>1, <1>2, <2>1, <2>2 DEF Commit, EmailTypeOK
    <2>5. row'[m].attempts = row[m].attempts + 1
      BY <1>1, <2>2, <2>4, OutcomeType, WrittenType
    <2> QED
      BY <2>3, <2>5
  <1>3. ASSUME NEW q \in Requests, MarkCommit(q) PROVE NextOutcome
    <2>1. row' = [row EXCEPT ![call[q].mail] =
                     Written(row[call[q].mail], call[q].copy, Marked(call[q].copy))]
      BY <1>3 DEF MarkCommit
    <2>2. call[q].mail = m
      BY <1>1, <2>1 DEF EmailTypeOK
    <2>3. row[m] = Fresh /\ call[q].copy = row[m]
      BY <1>1, <1>3, <2>2 DEF Undisturbed, MarkCommit
    <2>4. row'[m] = Written(row[m], row[m], Marked(row[m]))
      BY <1>1, <2>1, <2>2, <2>3 DEF EmailTypeOK
    <2>5. row'[m].attempts = row[m].attempts + 1
      BY <1>1, <2>4, MarkedType, WrittenType
    <2> QED
      BY <2>3, <2>5, EmailAssumption DEF Fresh
  <1>4. ASSUME NEW q \in Requests, NEW n \in Mails, Persist(q, n) PROVE FALSE
    BY <1>1, <1>4 DEF Persist, EmailTypeOK
  <1>5. ASSUME NEW n \in Mails, RetryDue(n)
        PROVE  row[m].retry = "later" /\ row'[m] = [row[m] EXCEPT !.retry = "over"]
    BY <1>1, <1>5 DEF RetryDue, EmailTypeOK
  <1>6. ASSUME NEW q \in Requests, SendNow(q) \/ MarkLoad(q) \/ RequestFails(q) PROVE FALSE
    BY <1>6 DEF SendNow, MarkLoad, RequestFails
  <1>7. ASSUME NEW p \in Processors, Select(p) \/ (\E n \in Mails : Deliver(p, n)) \/ BatchFails(p)
        PROVE  FALSE
    BY <1>7 DEF Select, Deliver, BatchFails
  <1>8. ~UNCHANGED vars
    BY DEF vars
  <1> QED
    BY <1>2, <1>3, <1>4, <1>5, <1>6, <1>7, <1>8 DEF Next, Process, Send

\* The outcomes of an undisturbed mail add up, whichever sessions store them.
THEOREM OutcomesAreAddedUp == Spec => OutcomesAddUp
  <1>1. EmailInv /\ [Next]_vars =>
          [\A m \in Mails \ disturbed :
             row[m] # None /\ row'[m] # row[m] =>
                \/ row[m].retry = "later" /\ row'[m] = [row[m] EXCEPT !.retry = "over"]
                \/ /\ row[m].retry # "later" /\ row[m].status # "sent"
                   /\ row[m].attempts < MAX_RETRIES
                   /\ row'[m].attempts = row[m].attempts + 1]_vars
    BY OutcomeAdds
  <1> QED
    BY <1>1, EmailInvariance, PTL DEF Spec, OutcomesAddUp
=============================================================================

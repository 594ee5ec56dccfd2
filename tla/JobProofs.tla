----------------------------- MODULE JobProofs -----------------------------
(***************************************************************************)
(* Proofs about BackgroundJobs for any jobs, threads and callers.          *)
(***************************************************************************)
EXTENDS JobProperties, TLAPS

-----------------------------------------------------------------------------
(* The queue as a set.                                                     *)

LEMMA QueueSet ==
    ASSUME NEW q \in Seq(Jobs)
    PROVE  ToSet(q) \subseteq Jobs
  BY DEF ToSet

LEMMA AppendSet ==
    ASSUME NEW q \in Seq(Jobs), NEW j \in Jobs
    PROVE  /\ Append(q, j) \in Seq(Jobs)
           /\ ToSet(Append(q, j)) = ToSet(q) \cup {j}
  <1>1. DOMAIN Append(q, j) = 1..(Len(q) + 1) /\ DOMAIN q = 1..Len(q)
    OBVIOUS
  <1>2. \A i \in 1..Len(q) : Append(q, j)[i] = q[i]
    OBVIOUS
  <1>3. Append(q, j)[Len(q) + 1] = j
    OBVIOUS
  <1>4. ToSet(Append(q, j)) = ToSet(q) \cup {j}
    BY <1>1, <1>2, <1>3 DEF ToSet
  <1> QED BY <1>4

LEMMA AppendOnce ==
    ASSUME NEW q \in Seq(Jobs), NEW j \in Jobs \ ToSet(q),
           \A i, k \in DOMAIN q : q[i] = q[k] => i = k
    PROVE  \A i, k \in DOMAIN Append(q, j) :
              Append(q, j)[i] = Append(q, j)[k] => i = k
  BY DEF ToSet

LEMMA TailSet ==
    ASSUME NEW q \in Seq(Jobs), q # <<>>,
           \A i, k \in DOMAIN q : q[i] = q[k] => i = k
    PROVE  /\ Head(q) \in ToSet(q)
           /\ Tail(q) \in Seq(Jobs)
           /\ ToSet(Tail(q)) = ToSet(q) \ {Head(q)}
           /\ \A i, k \in DOMAIN Tail(q) : Tail(q)[i] = Tail(q)[k] => i = k
  <1>1. Tail(q) \in Seq(Jobs) /\ Len(Tail(q)) = Len(q) - 1 /\ Len(q) > 0
    OBVIOUS
  <1>2. \A i \in 1..Len(Tail(q)) : Tail(q)[i] = q[i + 1]
    OBVIOUS
  <1>3. Head(q) = q[1]
    OBVIOUS
  <1>4. DOMAIN Tail(q) = 1..(Len(q) - 1) /\ DOMAIN q = 1..Len(q)
    BY <1>1
  <1>5. \A i, k \in DOMAIN Tail(q) : Tail(q)[i] = Tail(q)[k] => i = k
    BY <1>1, <1>2, <1>4
  <1>6. ToSet(Tail(q)) \subseteq ToSet(q) \ {Head(q)}
    BY <1>1, <1>2, <1>3, <1>4 DEF ToSet
  <1>7. ASSUME NEW i \in DOMAIN q, q[i] # Head(q) PROVE q[i] \in ToSet(Tail(q))
    <2>1. i - 1 \in DOMAIN Tail(q) /\ Tail(q)[i - 1] = q[i]
      BY <1>1, <1>2, <1>3, <1>4, <1>7
    <2> QED BY <2>1 DEF ToSet
  <1>8. ToSet(q) \ {Head(q)} \subseteq ToSet(Tail(q))
    BY <1>7 DEF ToSet
  <1>9. Head(q) \in ToSet(q)
    BY <1>1, <1>3, <1>4 DEF ToSet
  <1> QED BY <1>1, <1>5, <1>6, <1>8, <1>9

-----------------------------------------------------------------------------
(* Records.                                                                *)

LEMMA RecordType == Absent \in JobRecord /\ Queued \in JobRecord /\ Unfinished(Queued)
  BY DEF Absent, Queued, JobRecord, Active, Unfinished

LEMMA AssignedType ==
    \A s \in DOMAIN Assigned :
       /\ Assigned[s] \in Active \cup Terminal
       /\ Assigned[s] \in {"succeeded", "failed"} => s \in {"succeed", "fail"}
       /\ s # "idle" /\ s # "start"
  BY DEF Assigned, Active, Terminal

LEMMA OnPassType ==
    \A s \in DOMAIN OnPass :
       /\ OnPass[s] \in {"begin", "report", "succeed", "fail"}
       /\ s \in {"first", "progress", "last", "raised"}
       /\ OnPass[s] \in {"succeed", "fail"} => s # "first"
  BY DEF OnPass

\* What the second step of an update leaves of a record.
LEMMA RestType ==
    ASSUME NEW rec \in JobRecord, NEW s \in DOMAIN Assigned
    PROVE  /\ Rest(rec, s) \in JobRecord
           /\ Rest(rec, s).status = rec.status
           /\ s \notin {"succeed", "fail"} =>
                 /\ Rest(rec, s).result = rec.result
                 /\ rec.cancel => Rest(rec, s).cancel
           /\ s \in {"cancelNow", "cancelSoon"} => Rest(rec, s).cancel
           /\ s = "fail" => Rest(rec, s).result = rec.result
  BY DEF Rest, Assigned, JobRecord

\* The updates of a job: who makes them, and what they write.
LEMMA WriteStatusWrites ==
    ASSUME JobInv, NEW a \in Actors, WriteStatus(a)
    PROVE  /\ on[a] \in Jobs /\ pc[a] \in DOMAIN Assigned
           /\ job' \in [Jobs -> JobRecord]
           /\ \A j \in Jobs : /\ job'[j].cancel = job[j].cancel
                              /\ job'[j].result = job[j].result
                              /\ j # on[a] => job'[j].status = job[j].status
           /\ job'[on[a]].status = Assigned[pc[a]]
  BY AssignedType
  DEF JobInv, JobTypeOK, JobRecord, Busy, WriteStatus, Actors

LEMMA WritesRestWrites ==
    ASSUME JobInv, NEW a \in Actors, WritesRest(a)
    PROVE  /\ on[a] \in Jobs /\ pc[a] \in DOMAIN Assigned
           /\ job' = [job EXCEPT ![on[a]] = Rest(job[on[a]], pc[a])]
           /\ job' \in [Jobs -> JobRecord]
           /\ saved' \in [Jobs -> JobRecord]
           /\ saved' = [saved EXCEPT ![on[a]] = job'[on[a]]]
           /\ \A j \in Jobs : job'[j].status = job[j].status
  BY AssignedType, RestType
  DEF JobInv, JobTypeOK, Busy, WritesRest, Actors

-----------------------------------------------------------------------------
(* Every step keeps the invariant.                                         *)

LEMMA CreateKeeps ==
    ASSUME JobInv, NEW c \in Callers, NEW k \in Jobs, Create(c, k)
    PROVE  JobInv'
  <1> USE JobsAssumption DEF Create, Goes, promises, Actors
  <1>1. /\ k \notin ToSet(queue)
        /\ \A a \in Actors : on[a] # k
        /\ job'[k] = Queued /\ saved'[k] = Queued
        /\ \A j \in Jobs \ {k} : job'[j] = job[j] /\ saved'[j] = saved[j]
    BY DEF JobInv, JobTypeOK, Present
  <1>2. /\ pc'[c] = "start" /\ on'[c] = k /\ c \notin Threads
        /\ \A a \in Actors \ {c} : pc'[a] = pc[a] /\ on'[a] = on[a]
    BY DEF JobInv, JobTypeOK
  <1>3. k \notin kept
    BY DEF JobInv, Flagged, CancelSet
  <1>4. JobTypeOK'
    BY RecordType DEF JobInv, JobTypeOK, CallerSteps
  <1>5. Busy'
    BY <1>2, AssignedType DEF JobInv, Busy, CallerSteps
  <1>6. OnePlace'
    BY <1>1, <1>2 DEF JobInv, OnePlace
  <1>7. Present'
    BY <1>1, <1>2, QueueSet DEF JobInv, JobTypeOK, Present, Queued
  <1>8. NotYet'
    BY <1>1, <1>2, RecordType, QueueSet DEF JobInv, JobTypeOK, NotYet, Busy
  <1>9. Flagged'
    BY <1>1, <1>2, <1>3 DEF JobInv, JobTypeOK, Flagged
  <1> QED BY <1>4, <1>5, <1>6, <1>7, <1>8, <1>9 DEF JobInv

LEMMA SubmitKeeps ==
    ASSUME JobInv, NEW c \in Callers, Submit(c) \/ SubmitFails(c)
    PROVE  JobInv'
  <1> USE JobsAssumption DEF Goes, promises, Actors
  <1>1. /\ pc[c] = "start" /\ on[c] \in Jobs \ ToSet(queue) /\ c \notin half
        /\ pc'[c] = "idle" /\ on'[c] = None /\ c \notin Threads
        /\ \A a \in Actors \ {c} : pc'[a] = pc[a] /\ on'[a] = on[a]
        /\ UNCHANGED <<job, saved, half, answered, kept, barred>>
    BY AssignedType DEF JobInv, JobTypeOK, Busy, OnePlace, Submit, SubmitFails
  <1>2. \/ queue' = queue
        \/ /\ queue' = Append(queue, on[c])
           /\ queue' \in Seq(Jobs)
           /\ ToSet(queue') = ToSet(queue) \cup {on[c]}
           /\ \A i, k \in DOMAIN queue' : queue'[i] = queue'[k] => i = k
    <2>1. queue \in Seq(Jobs) /\ on[c] \in Jobs \ ToSet(queue)
      BY <1>1 DEF JobInv, JobTypeOK
    <2>2. \A i, k \in DOMAIN queue : queue[i] = queue[k] => i = k
      BY DEF JobInv, OnePlace
    <2>3. \A i, k \in DOMAIN Append(queue, on[c]) :
             Append(queue, on[c])[i] = Append(queue, on[c])[k] => i = k
      BY <2>1, <2>2, AppendOnce
    <2>4. queue' = queue \/ queue' = Append(queue, on[c])
      BY DEF Submit, SubmitFails
    <2> QED BY <2>1, <2>3, <2>4, AppendSet
  <1>3. queue' \in Seq(Jobs) /\ ToSet(queue') \subseteq ToSet(queue) \cup {on[c]}
    BY <1>2 DEF JobInv, JobTypeOK
  <1>4. JobTypeOK'
    BY <1>1, <1>3 DEF JobInv, JobTypeOK, CallerSteps, Submit, SubmitFails
  <1>5. Busy'
    BY <1>1 DEF JobInv, JobTypeOK, Busy, CallerSteps
  <1>6. OnePlace'
    BY <1>1, <1>2 DEF JobInv, OnePlace
  <1>7. Present'
    BY <1>1, <1>3 DEF JobInv, Present
  <1>8. NotYet'
    BY <1>1, <1>3 DEF JobInv, NotYet
  <1>9. Flagged'
    BY <1>1 DEF JobInv, Flagged
  <1> QED BY <1>4, <1>5, <1>6, <1>7, <1>8, <1>9 DEF JobInv

LEMMA CancelReadKeeps ==
    ASSUME JobInv, NEW c \in Callers, NEW j \in Jobs, CancelRead(c, j)
    PROVE  JobInv'
  <1> USE JobsAssumption DEF Goes, promises, Actors
  <1>1. /\ pc'[c] \in {"cancelNow", "cancelSoon"} /\ on'[c] = j /\ c \notin Threads
        /\ \A a \in Actors \ {c} : pc'[a] = pc[a] /\ on'[a] = on[a]
        /\ job[j].status # "absent" /\ c \notin half
        /\ UNCHANGED <<job, saved, queue, half, answered, kept, barred>>
    BY AssignedType DEF JobInv, JobTypeOK, Busy, CancelRead, Active
  <1>2. JobTypeOK'
    BY <1>1 DEF JobInv, JobTypeOK, CallerSteps, CancelRead
  <1>3. Busy'
    BY <1>1 DEF JobInv, JobTypeOK, Busy, CallerSteps
  <1>4. OnePlace'
    BY <1>1 DEF JobInv, OnePlace
  <1>5. Present'
    BY <1>1 DEF JobInv, Present
  <1>6. NotYet'
    BY <1>1 DEF JobInv, NotYet
  <1>7. Flagged'
    BY <1>1 DEF JobInv, Flagged
  <1> QED BY <1>2, <1>3, <1>4, <1>5, <1>6, <1>7 DEF JobInv

LEMMA TakeKeepsInv ==
    ASSUME JobInv, NEW t \in Threads, Take(t)
    PROVE  JobInv'
  <1> USE JobsAssumption DEF Goes, promises, Actors
  <1>1. /\ queue \in Seq(Jobs) /\ queue # <<>> /\ queue' = Tail(queue)
        /\ Head(queue) \in ToSet(queue) /\ queue' \in Seq(Jobs)
        /\ ToSet(queue') = ToSet(queue) \ {Head(queue)}
        /\ \A i, k \in DOMAIN queue' : queue'[i] = queue'[k] => i = k
    BY TailSet DEF JobInv, JobTypeOK, OnePlace, Take
  <1>2. /\ pc'[t] = "first" /\ on'[t] = Head(queue) /\ Head(queue) \in Jobs
        /\ t \notin Callers /\ t \notin half
        /\ \A a \in Actors \ {t} : pc'[a] = pc[a] /\ on'[a] = on[a]
        /\ UNCHANGED <<job, saved, half, answered, kept, barred>>
    BY <1>1, QueueSet, AssignedType DEF JobInv, JobTypeOK, Busy, Take
  <1>3. JobTypeOK'
    BY <1>1, <1>2 DEF JobInv, JobTypeOK, ThreadSteps, OnPass, Take
  <1>4. Busy'
    BY <1>2 DEF JobInv, JobTypeOK, Busy, ThreadSteps, OnPass
  <1>5. OnePlace'
    BY <1>1, <1>2 DEF JobInv, OnePlace
  <1>6. Present'
    BY <1>1, <1>2 DEF JobInv, Present
  <1>7. NotYet'
    BY <1>1, <1>2 DEF JobInv, NotYet
  <1>8. Flagged'
    BY <1>2 DEF JobInv, Flagged
  <1> QED BY <1>3, <1>4, <1>5, <1>6, <1>7, <1>8 DEF JobInv

\* A thread moves on with its job, by a look at the flag or in its worker function.
LEMMA CheckKeeps ==
    ASSUME JobInv, NEW t \in Threads, Check(t) \/ Work(t)
    PROVE  JobInv'
  <1> USE JobsAssumption DEF Goes, promises, Actors
  <1>1. /\ pc[t] \in {"first", "progress", "last", "raised", "work"}
        /\ on[t] \in Jobs /\ t \notin Callers /\ t \notin half
        /\ \A a \in Actors \ {t} : pc'[a] = pc[a] /\ on'[a] = on[a]
        /\ on'[t] = on[t]
        /\ pc'[t] \in ThreadSteps \ {"idle"}
        /\ UNCHANGED <<job, saved, queue, half, answered, kept, barred>>
    BY OnPassType, AssignedType
    DEF JobInv, JobTypeOK, Busy, Check, Work, ThreadSteps, OnPass, Assigned
  <1>2. on[t] \in kept => pc'[t] \notin {"succeed", "fail"}
    BY <1>1, OnPassType
    DEF JobInv, JobTypeOK, Flagged, CancelSet, Check, Work, Requested
  <1>3. on[t] \in barred => pc'[t] = "stop"
    BY <1>1 DEF JobInv, JobTypeOK, Flagged, CancelSet, Check, Work, Requested
  <1>4. JobTypeOK'
    BY <1>1 DEF JobInv, JobTypeOK, Check, Work
  <1>5. Busy'
    BY <1>1 DEF JobInv, JobTypeOK, Busy
  <1>6. OnePlace'
    BY <1>1 DEF JobInv, OnePlace
  <1>7. Present'
    BY <1>1 DEF JobInv, Present
  <1>8. NotYet'
    BY <1>1 DEF JobInv, NotYet
  <1>9. Flagged'
    BY <1>1, <1>2, <1>3 DEF JobInv, Flagged
  <1> QED BY <1>4, <1>5, <1>6, <1>7, <1>8, <1>9 DEF JobInv

LEMMA WriteStatusKeeps ==
    ASSUME JobInv, NEW a \in Actors, WriteStatus(a)
    PROVE  JobInv'
  <1> USE JobsAssumption DEF promises, Actors
  <1>1. /\ on[a] \in Jobs /\ pc[a] \in DOMAIN Assigned
        /\ job' \in [Jobs -> JobRecord]
        /\ \A j \in Jobs : /\ job'[j].cancel = job[j].cancel
                           /\ job'[j].result = job[j].result
                           /\ j # on[a] => job'[j].status = job[j].status
        /\ job'[on[a]].status = Assigned[pc[a]]
    BY WriteStatusWrites
  <1>2. /\ half' = half \cup {a} /\ a \notin half
        /\ UNCHANGED <<saved, queue, pc, on, answered, kept, barred>>
    BY DEF WriteStatus
  <1>3. \A j \in Jobs : job[j].status = "absent" <=> job'[j].status = "absent"
    BY <1>1, AssignedType DEF Active, Terminal, JobInv, Present
  <1>4. ASSUME NEW j \in Jobs, Unfinished(job[j]),
               j = on[a] => pc[a] \notin {"succeed", "fail"}
        PROVE  Unfinished(job'[j])
    BY <1>1, <1>4, AssignedType DEF Unfinished
  <1>5. JobTypeOK'
    BY <1>1, <1>2 DEF JobInv, JobTypeOK
  <1>6. Busy'
    BY <1>1, <1>2 DEF JobInv, JobTypeOK, Busy
  <1>7. OnePlace'
    BY <1>2 DEF JobInv, OnePlace
  <1>8. Present'
    BY <1>2, <1>3, QueueSet DEF JobInv, JobTypeOK, Present
  <1>9. pc[a] \in {"succeed", "fail"} => a \in Threads
    BY DEF JobInv, Busy, CallerSteps
  <1>10. NotYet'
    <2>1. \A j \in ToSet(queue) : Unfinished(job'[j])
      BY <1>4, <1>9, QueueSet DEF JobInv, JobTypeOK, NotYet, OnePlace
    <2>2. ASSUME NEW c \in Callers, pc[c] = "start" PROVE Unfinished(job'[on[c]])
      <3>1. on[c] \in Jobs /\ Unfinished(job[on[c]])
        BY <2>2 DEF JobInv, Busy, NotYet
      <3>2. on[c] = on[a] => pc[a] \notin {"succeed", "fail"}
        BY <2>2, <1>9 DEF JobInv, OnePlace
      <3> QED BY <3>1, <3>2, <1>4
    <2>3. ASSUME NEW t \in Threads, pc[t] # "idle",
                 pc[t] \in {"succeed", "fail"} => t \notin half'
          PROVE  Unfinished(job'[on[t]])
      <3>1. on[t] \in Jobs /\ Unfinished(job[on[t]])
        BY <2>3, <1>2 DEF JobInv, Busy, NotYet
      <3>2. on[t] = on[a] => pc[a] \notin {"succeed", "fail"}
        BY <2>3, <3>1, <1>2, <1>9 DEF JobInv, OnePlace
      <3> QED BY <3>1, <3>2, <1>4
    <2> QED BY <1>2, <2>1, <2>2, <2>3 DEF NotYet
  <1>11. Flagged'
    <2>1. ASSUME NEW j \in kept PROVE CancelSet(job'[j]) /\ CancelSet(saved[j])
      <3>1. j \in Jobs /\ CancelSet(job[j]) /\ CancelSet(saved[j])
        BY DEF JobInv, JobTypeOK, Flagged
      <3>2. j = on[a] => pc[a] \notin {"succeed", "fail"}
        BY <1>9 DEF JobInv, Flagged
      <3> QED BY <3>1, <3>2, <1>1, <1>3, <1>4 DEF CancelSet
    <2> QED BY <1>2, <2>1 DEF JobInv, Flagged
  <1> QED BY <1>5, <1>6, <1>7, <1>8, <1>10, <1>11 DEF JobInv

LEMMA SettleKeeps ==
    ASSUME JobInv, NEW t \in Threads, Settle(t)
    PROVE  JobInv'
  <1> USE JobsAssumption DEF promises, Actors, Goes
  <1>1. /\ on[t] \in Jobs /\ pc[t] \in DOMAIN Assigned
        /\ job' = [job EXCEPT ![on[t]] = Rest(job[on[t]], pc[t])]
        /\ job' \in [Jobs -> JobRecord]
        /\ saved' \in [Jobs -> JobRecord]
        /\ saved' = [saved EXCEPT ![on[t]] = job'[on[t]]]
        /\ \A j \in Jobs : job'[j].status = job[j].status
    BY WritesRestWrites DEF Settle
  <1>2. /\ half' = half \ {t} /\ t \in half /\ t \notin Callers
        /\ \A a \in Actors \ {t} : pc'[a] = pc[a] /\ on'[a] = on[a]
        /\ \/ pc'[t] = "work" /\ on'[t] = on[t] /\ pc[t] \in {"begin", "report"}
           \/ pc'[t] = "idle" /\ on'[t] = None
        /\ UNCHANGED <<queue, answered, kept, barred>>
    BY DEF JobInv, JobTypeOK, Settle, GoesOn, WritesRest
  <1>3. \A j \in Jobs \ {on[t]} : job'[j] = job[j] /\ saved'[j] = saved[j]
    BY <1>1 DEF JobInv, JobTypeOK
  <1>4. /\ saved'[on[t]] = job'[on[t]]
        /\ pc[t] \notin {"succeed", "fail"} =>
              /\ job'[on[t]].result = job[on[t]].result
              /\ job[on[t]].cancel => job'[on[t]].cancel
    BY <1>1, RestType DEF JobInv, JobTypeOK
  <1>5. JobTypeOK'
    BY <1>1, <1>2 DEF JobInv, JobTypeOK, Settle, GoesOn, ThreadSteps
  <1>6. Busy'
    BY <1>1, <1>2 DEF JobInv, JobTypeOK, Busy, ThreadSteps
  <1>7. OnePlace'
    <2>1. None \notin ToSet(queue)
      BY QueueSet DEF JobInv, JobTypeOK
    <2>2. \A c \in Callers : pc[c] = "start" => on[c] \in Jobs
      BY DEF JobInv, Busy
    <2> QED BY <1>2, <2>1, <2>2 DEF JobInv, OnePlace
  <1>8. Present'
    BY <1>1, <1>2, QueueSet DEF JobInv, JobTypeOK, Present
  <1>9. NotYet'
    <2>1. \A j \in ToSet(queue) : Unfinished(job'[j])
      BY <1>3, QueueSet DEF JobInv, JobTypeOK, NotYet, OnePlace
    <2>2. ASSUME NEW c \in Callers, pc[c] = "start" PROVE Unfinished(job'[on[c]])
      BY <2>2, <1>3 DEF JobInv, Busy, NotYet, OnePlace
    <2>3. ASSUME NEW u \in Threads \ {t}, pc[u] # "idle",
                 pc[u] \in {"succeed", "fail"} => u \notin half
          PROVE  Unfinished(job'[on[u]])
      <3>1. on[u] \in Jobs \ {on[t]} /\ Unfinished(job[on[u]])
        BY <1>1, <2>3 DEF JobInv, Busy, NotYet, OnePlace
      <3> QED BY <3>1, <1>3
    <2>4. pc'[t] # "idle" => Unfinished(job'[on'[t]])
      BY <1>1, <1>2, <1>4 DEF JobInv, NotYet, Unfinished
    <2> QED BY <1>2, <2>1, <2>2, <2>3, <2>4 DEF NotYet
  <1>10. Flagged'
    <2>1. ASSUME NEW j \in kept PROVE CancelSet(job'[j]) /\ CancelSet(saved'[j])
      <3>1. j \in Jobs /\ CancelSet(job[j]) /\ CancelSet(saved[j])
        BY DEF JobInv, JobTypeOK, Flagged
      <3>2. CASE j = on[t]
        <4>1. pc[t] \notin {"succeed", "fail"}
          BY <3>2 DEF JobInv, Flagged
        <4> QED BY <3>1, <3>2, <4>1, <1>1, <1>4 DEF CancelSet, Unfinished
      <3>3. CASE j # on[t]
        BY <3>1, <3>3, <1>3
      <3> QED BY <3>2, <3>3
    <2>2. on[t] \in barred => pc[t] = "stop"
      BY <1>1 DEF JobInv, Flagged, Assigned
    <2>3. None \notin kept /\ None \notin barred
      BY DEF JobInv, JobTypeOK
    <2> QED BY <1>2, <2>1, <2>2, <2>3 DEF JobInv, Flagged
  <1> QED BY <1>5, <1>6, <1>7, <1>8, <1>9, <1>10 DEF JobInv

LEMMA CancelAnswerKeeps ==
    ASSUME JobInv, NEW c \in Callers, CancelAnswer(c)
    PROVE  JobInv'
  <1> USE JobsAssumption DEF promises, Actors, Goes
  <1>1. /\ on[c] \in Jobs /\ pc[c] \in DOMAIN Assigned
        /\ job' = [job EXCEPT ![on[c]] = Rest(job[on[c]], pc[c])]
        /\ job' \in [Jobs -> JobRecord]
        /\ saved' \in [Jobs -> JobRecord]
        /\ saved' = [saved EXCEPT ![on[c]] = job'[on[c]]]
        /\ \A j \in Jobs : job'[j].status = job[j].status
    BY WritesRestWrites DEF CancelAnswer
  <1>2. /\ half' = half \ {c} /\ c \in half /\ c \notin Threads
        /\ \A a \in Actors \ {c} : pc'[a] = pc[a] /\ on'[a] = on[a]
        /\ pc'[c] = "idle" /\ on'[c] = None /\ queue' = queue
        /\ pc[c] \in {"cancelNow", "cancelSoon"}
    BY DEF JobInv, JobTypeOK, CancelAnswer, WritesRest
  <1>3. \A j \in Jobs \ {on[c]} : job'[j] = job[j] /\ saved'[j] = saved[j]
    BY <1>1 DEF JobInv, JobTypeOK
  <1>4. /\ saved'[on[c]] = job'[on[c]]
        /\ job'[on[c]].result = job[on[c]].result
        /\ job'[on[c]].cancel
    <2>1. job[on[c]] \in JobRecord /\ on[c] \in DOMAIN job /\ on[c] \in DOMAIN saved
      BY <1>1 DEF JobInv, JobTypeOK
    <2>2. pc[c] \notin {"succeed", "fail"}
      BY <1>2
    <2>3. /\ Rest(job[on[c]], pc[c]).result = job[on[c]].result
          /\ Rest(job[on[c]], pc[c]).cancel
      BY <1>1, <1>2, <2>1, <2>2, RestType
    <2> QED BY <1>1, <2>1, <2>3
  <1>5. \A j \in Jobs : Unfinished(job[j]) => Unfinished(job'[j])
    BY <1>1, <1>3, <1>4 DEF Unfinished
  <1>6. /\ kept' \subseteq kept \cup {on[c]} /\ kept \subseteq kept'
        /\ barred' \subseteq barred \cup {on[c]}
        /\ on[c] \in kept' \ kept =>
              Waiting(on[c]) \/ RunAt(on[c], ThreadSteps \ {"succeed", "fail"})
        /\ on[c] \in barred' \ barred => Waiting(on[c]) \/ RunAt(on[c], {"first"})
    BY DEF CancelAnswer
  <1>7. Waiting(on[c]) => (\A t \in Threads : on[t] # on[c]) /\ Unfinished(job[on[c]])
    BY DEF JobInv, Waiting, Created, OnePlace, NotYet
  <1>8. \A S : RunAt(on[c], S) => \A t \in Threads : on[t] = on[c] => pc[t] \in S
    BY <1>1 DEF JobInv, RunAt, OnePlace
  <1>9. RunAt(on[c], ThreadSteps \ {"succeed", "fail"}) => Unfinished(job[on[c]])
    BY <1>1 DEF JobInv, RunAt, Busy, NotYet
  <1>10. RunAt(on[c], {"first"}) => RunAt(on[c], ThreadSteps \ {"succeed", "fail"})
    BY DEF RunAt, ThreadSteps, OnPass
  <1>11. JobTypeOK'
    <2>1. barred' \subseteq kept'
      BY <1>6, <1>10 DEF JobInv, JobTypeOK, CancelAnswer
    <2> QED BY <1>1, <1>2, <2>1 DEF JobInv, JobTypeOK, CancelAnswer, CallerSteps
  <1>12. Busy'
    BY <1>1, <1>2 DEF JobInv, JobTypeOK, Busy, CallerSteps
  <1>13. OnePlace'
    BY <1>2 DEF JobInv, OnePlace
  <1>14. Present'
    BY <1>1, <1>2, QueueSet DEF JobInv, JobTypeOK, Present
  <1>15. NotYet'
    BY <1>2, <1>5, QueueSet DEF JobInv, JobTypeOK, NotYet, Busy
  <1>16. Flagged'
    <2>1. ASSUME NEW j \in kept' PROVE CancelSet(job'[j]) /\ CancelSet(saved'[j])
      <3>1. CASE j # on[c]
        BY <3>1, <1>3, <1>6 DEF JobInv, JobTypeOK, Flagged
      <3>2. CASE j = on[c]
        <4>1. Unfinished(job[j])
          BY <3>2, <1>6, <1>7, <1>9 DEF JobInv, Flagged, CancelSet
        <4>2. job[j].status # "absent"
          BY <3>2, <1>1 DEF JobInv, Present
        <4> QED BY <3>2, <4>1, <4>2, <1>1, <1>4, <1>5 DEF CancelSet
      <3> QED BY <3>1, <3>2
    <2>2. ASSUME NEW t \in Threads
          PROVE  /\ on[t] \in kept' => pc[t] \notin {"succeed", "fail"}
                 /\ on[t] \in barred' => pc[t] \in {"first", "stop"}
      BY <1>6, <1>7, <1>8 DEF JobInv, Flagged
    <2> QED BY <1>2, <2>1, <2>2 DEF Flagged
  <1> QED BY <1>11, <1>12, <1>13, <1>14, <1>15, <1>16 DEF JobInv

LEMMA RestartKeeps ==
    ASSUME JobInv, Restart
    PROVE  JobInv'
  <1> USE JobsAssumption DEF promises, Actors
  <1>1. ToSet(queue') = {} /\ queue' \in Seq(Jobs) /\ DOMAIN queue' = {}
    BY DEF Restart, ToSet
  <1>2. JobTypeOK'
    BY <1>1 DEF JobInv, JobTypeOK, Restart, CallerSteps
  <1>3. Busy'
    BY DEF Restart, Busy, CallerSteps, ThreadSteps
  <1>4. OnePlace' /\ Present' /\ NotYet'
    BY <1>1 DEF Restart, OnePlace, Present, NotYet
  <1>5. Flagged'
    BY DEF JobInv, JobTypeOK, Restart, Flagged
  <1> QED BY <1>2, <1>3, <1>4, <1>5 DEF JobInv

LEMMA InitEstablishes == Init => JobInv
  <1> SUFFICES ASSUME Init PROVE JobInv
    OBVIOUS
  <1> USE JobsAssumption DEF Actors
  <1>1. ToSet(queue) = {} /\ queue \in Seq(Jobs) /\ DOMAIN queue = {}
    BY DEF Init, ToSet
  <1>2. JobTypeOK
    BY <1>1, RecordType DEF Init, JobTypeOK, CallerSteps
  <1>3. Busy
    BY DEF Init, Busy, CallerSteps, ThreadSteps
  <1>4. OnePlace /\ Present /\ NotYet /\ Flagged
    BY <1>1 DEF Init, OnePlace, Present, NotYet, Flagged
  <1> QED BY <1>2, <1>3, <1>4 DEF JobInv

LEMMA StepKeeps ==
    ASSUME JobInv, [Next]_vars
    PROVE  JobInv'
  <1>1. ASSUME NEW c \in Callers, Call(c) PROVE JobInv'
    BY <1>1, CreateKeeps, SubmitKeeps, CancelReadKeeps, CancelAnswerKeeps
    DEF Call, Retry
  <1>2. ASSUME NEW t \in Threads, Run(t) PROVE JobInv'
    BY <1>2, TakeKeepsInv, CheckKeeps, SettleKeeps DEF Run
  <1>3. ASSUME NEW a \in Actors, WriteStatus(a) PROVE JobInv'
    BY <1>3, WriteStatusKeeps
  <1>4. CASE Restart
    BY <1>4, RestartKeeps
  <1>5. CASE UNCHANGED vars
    BY <1>5 DEF vars, JobInv, JobTypeOK, Busy, OnePlace, Present, NotYet, Flagged
  <1> QED BY <1>1, <1>2, <1>3, <1>4, <1>5 DEF Next, Steps

-----------------------------------------------------------------------------
(* The properties.                                                         *)

\* The inductive invariant.
THEOREM JobInvariance == Spec => []JobInv
  BY InitEstablishes, StepKeeps, PTL DEF Spec

\* Type correctness of the registry and its pool.
THEOREM JobTypeCorrect == Spec => []JobTypeOK
  <1>1. JobInv => JobTypeOK
    BY DEF JobInv
  <1> QED BY <1>1, JobInvariance, PTL

\* A cancel answered before the last look at the flag is kept.
THEOREM CancelIsKeptHolds == Spec => []CancelIsKept
  <1>1. JobInv => CancelIsKept
    BY DEF JobInv, Flagged, CancelSet, Unfinished, CancelIsKept
  <1> QED BY <1>1, JobInvariance, PTL

\* A job canceled before the first look never gets to its worker function.
THEOREM CanceledNeverStartsHolds == Spec => []CanceledNeverStarts
  <1>1. JobInv => CanceledNeverStarts
    BY DEF JobInv, JobTypeOK, Flagged, RunAt, CanceledNeverStarts
  <1> QED BY <1>1, JobInvariance, PTL

\* The pool never takes a finished job for an active one again.
THEOREM FinishedStaysFinishedHolds == Spec => FinishedStaysFinished
  <1> DEFINE Stays(j) == job'[j].status \in {job[j].status, saved[j].status,
                                             "canceling", "canceled"}
  <1>1. ASSUME JobInv, [Next]_vars, NEW j \in Jobs,
               job[j].status \in {"succeeded", "failed"}
        PROVE  Stays(j)
    <2>1. ASSUME NEW c \in Callers, NEW k \in Jobs, Create(c, k) PROVE Stays(j)
      BY <1>1, <2>1 DEF Create, JobInv, JobTypeOK
    <2>2. ASSUME NEW a \in Actors, WritesRest(a) PROVE Stays(j)
      BY <1>1, <2>2, WritesRestWrites
    <2>3. ASSUME NEW a \in Actors, WriteStatus(a), on[a] = j PROVE Stays(j)
      <3>1. pc[a] \in DOMAIN Assigned /\ a \notin half
        BY <1>1, <2>3, WriteStatusWrites DEF WriteStatus
      <3>2. a \notin Threads
        BY <1>1, <2>3, <3>1, AssignedType DEF JobInv, NotYet, Unfinished
      <3>3. Assigned[pc[a]] \in {"canceling", "canceled"}
        BY <1>1, <3>1, <3>2 DEF JobInv, Busy, CallerSteps, Actors, Assigned
      <3> QED BY <1>1, <2>3, <3>3, WriteStatusWrites
    <2>4. ASSUME NEW a \in Actors, WriteStatus(a), on[a] # j PROVE Stays(j)
      BY <1>1, <2>4, WriteStatusWrites
    <2>5. CASE UNCHANGED job
      BY <2>5
    <2>6. CASE Restart
      BY <2>6 DEF Restart
    <2>7. ASSUME NEW c \in Callers, Call(c) PROVE Stays(j)
      BY <2>1, <2>2, <2>5, <2>7
      DEF Call, Retry, CancelRead, Submit, SubmitFails, CancelAnswer, Actors
    <2>8. ASSUME NEW t \in Threads, Run(t) PROVE Stays(j)
      BY <2>2, <2>5, <2>8 DEF Run, Take, Check, Work, Settle, Actors
    <2> QED BY <1>1, <2>3, <2>4, <2>5, <2>6, <2>7, <2>8 DEF Next, Steps, vars
  <1>2. JobInv /\ [Next]_vars =>
          [\A j \in Jobs : job[j].status \in {"succeeded", "failed"} => Stays(j)]_vars
    BY <1>1
  <1> QED BY <1>2, JobInvariance, PTL DEF Spec, FinishedStaysFinished

-----------------------------------------------------------------------------
(* The pool implements JobRuns.                                            *)

\* The stage of a run, by where its job is.
StageIs(j) ==
    /\ RunOf[j] \in {"none", "created", "waiting", "running", "over"}
    /\ RunOf[j] = "none"    <=> job[j].status = "absent"
    /\ RunOf[j] = "created" <=> Created(j)
    /\ RunOf[j] = "waiting" <=> j \in ToSet(queue)
    /\ RunOf[j] = "running" <=> \E t \in Threads : on[t] = j

LEMMA StageOf == JobInv => \A j \in Jobs : StageIs(j)
  <1> SUFFICES ASSUME JobInv, NEW j \in Jobs PROVE StageIs(j)
    OBVIOUS
  <1>1. /\ Running(j) <=> \E t \in Threads : on[t] = j
        /\ Created(j) => j \notin ToSet(queue) /\ ~Running(j)
        /\ j \in ToSet(queue) => ~Running(j)
        /\ Created(j) \/ j \in ToSet(queue) \/ Running(j) => job[j].status # "absent"
    BY DEF JobInv, Busy, OnePlace, Present, Running, RunAt, Created, Actors
  <1> QED BY <1>1 DEF RunOf, StageIs

\* The same after a step.
LEMMA StageOfNext == JobInv' => \A j \in Jobs : StageIs(j)'
  <1>1. (JobInv => \A j \in Jobs : StageIs(j))'
    BY StageOf, PTL
  <1> QED BY <1>1

LEMMA RunOfFunction == RunOf = [j \in Jobs |-> RunOf[j]] /\ RunOf' = [j \in Jobs |-> RunOf'[j]]
  BY DEF RunOf

\* A step that leaves the place of a job as it is leaves its stage.
LEMMA SameStage ==
    ASSUME JobInv, JobInv', NEW j \in Jobs,
           job'[j].status = "absent" <=> job[j].status = "absent",
           Created(j)' <=> Created(j),
           j \in ToSet(queue') <=> j \in ToSet(queue),
           (\E t \in Threads : on'[t] = j) <=> (\E t \in Threads : on[t] = j)
    PROVE  RunOf'[j] = RunOf[j]
  <1>1. StageIs(j) /\ StageIs(j)'
    BY StageOf, StageOfNext
  <1> QED BY <1>1 DEF StageIs

\* Each run has a thread of its own.
LEMMA RunsFit ==
    ASSUME JobInv'
    PROVE  LET runs == {k \in Jobs : RunOf'[k] = "running"}
           IN  \E f \in [runs -> Threads] : \A k, l \in runs : f[k] = f[l] => k = l
  <1> DEFINE runs == {k \in Jobs : RunOf'[k] = "running"}
             f == [k \in runs |-> CHOOSE t \in Threads : on'[t] = k]
  <1>1. ASSUME NEW k \in runs PROVE f[k] \in Threads /\ on'[f[k]] = k
    <2>1. \E t \in Threads : on'[t] = k
      BY StageOfNext DEF StageIs
    <2> QED BY <2>1
  <1>2. f \in [runs -> Threads]
    BY <1>1
  <1>3. \A k, l \in runs : f[k] = f[l] => k = l
    BY <1>1
  <1> QED BY <1>2, <1>3

\* A step that changes the stage of one job only.
LEMMA MovesOne ==
    ASSUME NEW j \in Jobs, NEW to, RunOf'[j] = to,
           \A k \in Jobs \ {j} : RunOf'[k] = RunOf[k]
    PROVE  RunOf' = [RunOf EXCEPT ![j] = to]
  BY RunOfFunction

\* A step after which every job is where it was.
LEMMA Unmoved ==
    ASSUME JobInv, JobInv', queue' = queue,
           \A j \in Jobs : job'[j].status = job[j].status,
           \A j \in Jobs : Created(j)' <=> Created(j),
           \A t \in Threads : on'[t] = on[t]
    PROVE  RunOf' = RunOf
  <1>1. \A j \in Jobs : RunOf'[j] = RunOf[j]
    BY SameStage
  <1> QED BY <1>1, RunOfFunction

LEMMA CreateRefines ==
    ASSUME JobInv, JobInv', NEW c \in Callers, NEW k \in Jobs, Create(c, k)
    PROVE  Runs!Step(k, "none", "created")
  <1> USE JobsAssumption DEF Create, Goes, promises, Actors
  <1>1. /\ pc'[c] = "start" /\ on'[c] = k /\ pc[c] = "idle"
        /\ \A a \in Actors \ {c} : pc'[a] = pc[a] /\ on'[a] = on[a]
        /\ c \notin Threads /\ queue' = queue
        /\ \A j \in Jobs \ {k} : job'[j] = job[j]
    BY DEF JobInv, JobTypeOK
  <1>2. RunOf[k] = "none"
    BY StageOf DEF StageIs
  <1>3. RunOf'[k] = "created"
    BY <1>1, StageOfNext DEF StageIs, Created
  <1>4. ASSUME NEW j \in Jobs \ {k} PROVE RunOf'[j] = RunOf[j]
    <2>1. Created(j)' <=> Created(j)
      BY <1>1 DEF Created
    <2> QED BY <1>1, <2>1, SameStage
  <1> QED BY <1>2, <1>3, <1>4, MovesOne DEF Runs!Step

LEMMA SubmitRefines ==
    ASSUME JobInv, JobInv', NEW c \in Callers, Submit(c) \/ SubmitFails(c)
    PROVE  \/ Runs!Step(on[c], "created", "waiting")
           \/ Runs!Step(on[c], "created", "over")
  <1> USE JobsAssumption DEF Goes, promises, Actors
  <1>1. /\ pc[c] = "start" /\ on[c] \in Jobs /\ on[c] \notin ToSet(queue)
        /\ pc'[c] = "idle" /\ job' = job /\ c \notin Threads
        /\ \A a \in Actors \ {c} : pc'[a] = pc[a] /\ on'[a] = on[a]
        /\ \A d \in Callers \ {c} : pc[d] = "start" => on[d] # on[c]
        /\ \A t \in Threads : on[t] # on[c]
    BY DEF JobInv, JobTypeOK, Busy, OnePlace, Submit, SubmitFails
  <1>2. \/ queue' = queue
        \/ ToSet(queue') = ToSet(queue) \cup {on[c]}
    BY <1>1, AppendSet DEF JobInv, JobTypeOK, Submit, SubmitFails
  <1>3. RunOf[on[c]] = "created"
    BY <1>1, StageOf DEF StageIs, Created
  <1>4. RunOf'[on[c]] \in {"waiting", "over"}
    <2>2. job[on[c]].status # "absent"
      BY <1>1 DEF JobInv, Present
    <2>3. \A j : j = on[c] =>
             /\ ~Created(j)' /\ job'[j].status # "absent"
             /\ \A t \in Threads : on'[t] # j
      BY <1>1, <2>2 DEF Created
    <2> QED BY <1>1, <2>3, StageOfNext DEF StageIs
  <1>5. ASSUME NEW j \in Jobs \ {on[c]} PROVE RunOf'[j] = RunOf[j]
    <2>1. Created(j)' <=> Created(j)
      BY <1>1 DEF Created
    <2> QED BY <1>1, <1>2, <2>1, SameStage
  <1> QED BY <1>1, <1>3, <1>4, <1>5, MovesOne DEF Runs!Step

LEMMA TakeRefines ==
    ASSUME JobInv, JobInv', NEW t \in Threads, Take(t)
    PROVE  Runs!Start(Head(queue)) /\ Head(queue) \in Jobs
  <1> USE JobsAssumption DEF Take, Goes, promises, Actors
  <1>1. /\ Head(queue) \in ToSet(queue)
        /\ ToSet(queue') = ToSet(queue) \ {Head(queue)}
    BY TailSet DEF JobInv, JobTypeOK, OnePlace
  <1>2. /\ Head(queue) \in Jobs /\ on'[t] = Head(queue) /\ job' = job
        /\ on[t] \notin Jobs /\ t \notin Callers
        /\ \A a \in Actors \ {t} : pc'[a] = pc[a] /\ on'[a] = on[a]
    BY <1>1, QueueSet DEF JobInv, JobTypeOK, Busy
  <1>3. RunOf[Head(queue)] = "waiting" /\ RunOf'[Head(queue)] = "running"
    <2>1. \E u \in Threads : on'[u] = Head(queue)
      BY <1>2
    <2>2. \A j \in Jobs : j = Head(queue) => RunOf[j] = "waiting" /\ RunOf'[j] = "running"
      BY <1>1, <2>1, StageOf, StageOfNext DEF StageIs
    <2> QED BY <1>2, <2>2
  <1>4. ASSUME NEW j \in Jobs \ {Head(queue)} PROVE RunOf'[j] = RunOf[j]
    <2>1. Created(j)' <=> Created(j)
      BY <1>2 DEF Created
    <2> QED BY <1>1, <1>2, <2>1, SameStage
  <1>5. RunOf' = [RunOf EXCEPT ![Head(queue)] = "running"]
    BY <1>2, <1>3, <1>4, MovesOne
  <1> QED BY <1>2, <1>3, <1>5, RunsFit DEF Runs!Start, Runs!Step

LEMMA SettleRefines ==
    ASSUME JobInv, JobInv', NEW t \in Threads, Settle(t)
    PROVE  \/ RunOf' = RunOf
           \/ on[t] \in Jobs /\ Runs!Step(on[t], "running", "over")
  <1> USE JobsAssumption DEF Goes, promises, Actors
  <1>1. /\ on[t] \in Jobs /\ queue' = queue /\ t \notin Callers
        /\ \A j \in Jobs : job'[j].status = job[j].status
    BY WritesRestWrites DEF Settle
  <1>2. /\ \A a \in Actors \ {t} : pc'[a] = pc[a] /\ on'[a] = on[a]
        /\ on'[t] = on[t] \/ on'[t] = None
    BY DEF JobInv, JobTypeOK, Settle, GoesOn
  <1>3. \A j \in Jobs : Created(j)' <=> Created(j)
    BY <1>1, <1>2 DEF Created
  <1>4. CASE on'[t] = on[t]
    <2>1. \A u \in Threads : on'[u] = on[u]
      BY <1>2, <1>4
    <2> QED BY <1>1, <1>3, <2>1, Unmoved
  <1>5. CASE on'[t] = None
    <2>1. /\ \A u \in Threads : on'[u] # on[t]
          /\ on[t] \notin ToSet(queue') /\ job'[on[t]].status # "absent"
          /\ ~Created(on[t])
      BY <1>1, <1>2, <1>5 DEF JobInv, OnePlace, Present, Created
    <2>2. \A j \in Jobs : j = on[t] => RunOf[j] = "running" /\ RunOf'[j] = "over"
      BY <1>3, <2>1, StageOf, StageOfNext DEF StageIs
    <2>3. ASSUME NEW j \in Jobs \ {on[t]} PROVE RunOf'[j] = RunOf[j]
      BY <1>1, <1>2, <1>3, <1>5, SameStage
    <2> QED BY <1>1, <2>2, <2>3, MovesOne DEF Runs!Step
  <1> QED BY <1>2, <1>4, <1>5

LEMMA RestartRefines ==
    ASSUME JobInv, JobInv', Restart
    PROVE  Runs!Crash
  <1>1. /\ ToSet(queue') = {}
        /\ \A j \in Jobs : /\ ~Created(j)'
                           /\ \A t \in Threads : on'[t] # j
                           /\ job'[j].status = "absent" <=> job[j].status = "absent"
    BY JobsAssumption DEF Restart, JobInv, Present, ToSet, Created, Actors
  <1>2. \A j \in Jobs : RunOf'[j] = IF RunOf[j] = "none" THEN "none" ELSE "over"
    BY <1>1, StageOf, StageOfNext DEF StageIs
  <1> QED BY <1>2, RunOfFunction DEF Runs!Crash

\* The steps in which no run moves.
LEMMA OthersStutter ==
    ASSUME JobInv, JobInv',
           \/ \E c \in Callers, j \in Jobs : CancelRead(c, j)
           \/ \E c \in Callers : CancelAnswer(c)
           \/ \E t \in Threads : Check(t) \/ Work(t)
           \/ \E a \in Actors : WriteStatus(a)
    PROVE  RunOf' = RunOf
  <1> USE JobsAssumption DEF Goes, promises, Actors
  <1>1. ASSUME NEW c \in Callers,
               CancelAnswer(c) \/ \E j \in Jobs : CancelRead(c, j)
        PROVE  RunOf' = RunOf
    <2>1. /\ pc[c] # "start" /\ pc'[c] # "start" /\ c \notin Threads
          /\ \A a \in Actors \ {c} : pc'[a] = pc[a] /\ on'[a] = on[a]
          /\ queue' = queue
      BY <1>1 DEF JobInv, JobTypeOK, CancelAnswer, CancelRead
    <2>2. \A j \in Jobs : job'[j].status = job[j].status
      BY <1>1, WritesRestWrites DEF CancelAnswer, CancelRead
    <2>3. \A j \in Jobs : Created(j)' <=> Created(j)
      BY <2>1 DEF Created
    <2> QED BY <2>1, <2>2, <2>3, Unmoved
  <1>2. ASSUME NEW t \in Threads, Check(t) \/ Work(t)
        PROVE  RunOf' = RunOf
    <2>1. /\ t \notin Callers /\ on' = on /\ queue' = queue /\ job' = job
          /\ \A a \in Actors \ {t} : pc'[a] = pc[a]
      BY <1>2 DEF JobInv, JobTypeOK, Check, Work
    <2>2. \A j \in Jobs : Created(j)' <=> Created(j)
      BY <2>1 DEF Created
    <2> QED BY <2>1, <2>2, Unmoved
  <1>3. ASSUME NEW a \in Actors, WriteStatus(a)
        PROVE  RunOf' = RunOf
    <2>1. queue' = queue /\ pc' = pc /\ on' = on
      BY <1>3 DEF WriteStatus
    <2>2. \A j \in Jobs : job'[j].status = "absent" <=> job[j].status = "absent"
      BY <1>3, WriteStatusWrites, AssignedType DEF JobInv, Present, Active, Terminal
    <2>3. \A j \in Jobs : Created(j)' <=> Created(j)
      BY <2>1 DEF Created
    <2>4. \A j \in Jobs : RunOf'[j] = RunOf[j]
      BY <2>1, <2>2, <2>3, SameStage
    <2> QED BY <2>4, RunOfFunction
  <1> QED BY <1>1, <1>2, <1>3

\* Every job runs at most once, on a thread of its own: the registry and the pool
\* implement the abstract runs.
THEOREM JobRefinement == Spec => ImplementsRuns
  <1>1. Init => Runs!RInit
    <2> SUFFICES ASSUME Init PROVE RunOf = [j \in Jobs |-> "none"]
      BY DEF Runs!RInit
    <2>1. \A j \in Jobs : RunOf[j] = "none"
      BY InitEstablishes, StageOf DEF Init, StageIs, Absent
    <2> QED BY <2>1, RunOfFunction
  <1>2. JobInv /\ JobInv' /\ [Next]_vars => [Runs!RNext]_RunOf
    <2> SUFFICES ASSUME JobInv, JobInv', [Next]_vars PROVE [Runs!RNext]_RunOf
      OBVIOUS
    <2>1. ASSUME NEW c \in Callers, Call(c) PROVE Runs!RNext \/ RunOf' = RunOf
      <3>1. ASSUME NEW k \in Jobs, Create(c, k) PROVE Runs!RNext
        BY <3>1, CreateRefines DEF Runs!RNext
      <3>2. CASE Submit(c) \/ SubmitFails(c)
        <4>1. on[c] \in Jobs
          BY <3>2 DEF JobInv, Busy, Submit, SubmitFails, Actors
        <4> QED BY <3>2, <4>1, SubmitRefines DEF Runs!RNext
      <3> QED BY <2>1, <3>1, <3>2, OthersStutter DEF Call, Retry
    <2>2. ASSUME NEW t \in Threads, Run(t) PROVE Runs!RNext \/ RunOf' = RunOf
      BY <2>2, TakeRefines, SettleRefines, OthersStutter DEF Run, Runs!RNext
    <2>3. ASSUME NEW a \in Actors, WriteStatus(a) PROVE RunOf' = RunOf
      BY <2>3, OthersStutter
    <2>4. CASE Restart
      BY <2>4, RestartRefines DEF Runs!RNext
    <2>5. CASE UNCHANGED vars
      <3>1. queue' = queue /\ job' = job /\ pc' = pc /\ on' = on
        BY <2>5 DEF vars
      <3>2. \A j \in Jobs : Created(j)' <=> Created(j)
        BY <3>1 DEF Created
      <3> QED BY <3>1, <3>2, Unmoved
    <2> QED BY <2>1, <2>2, <2>3, <2>4, <2>5 DEF Next, Steps
  <1> QED BY <1>1, <1>2, JobInvariance, PTL DEF Spec, ImplementsRuns, Runs!RSpec
=============================================================================

--------------------------- MODULE ApprovalLedger ---------------------------
(***************************************************************************)
(* What the approval engine promises the rest of the backend, without      *)
(* stages, roles, sessions or rows: every request is opened once, decided  *)
(* once (by a checker, by the bypass or by the clock), a decision is never  *)
(* taken back, effects follow decisions only, and only decided requests    *)
(* are ever forgotten.                                                     *)
(***************************************************************************)
CONSTANT Ids

VARIABLES phase,    \* where each request is
          applied   \* the requests whose effect is durable

lvars == <<phase, applied>>

Phases == {"none", "open", "decided", "forgotten"}

LInit == /\ phase = [i \in Ids |-> "none"]
         /\ applied = {}

Moves(S, from, to) ==
    /\ S # {}
    /\ \A i \in S : phase[i] = from
    /\ phase' = [i \in Ids |-> IF i \in S THEN to ELSE phase[i]]
    /\ UNCHANGED applied

Submit(i) == Moves({i}, "none", "open")

\* A sweep decides several requests in one transaction.
Decide(S) == Moves(S, "open", "decided")

Apply(S) == /\ \A i \in S : phase[i] = "decided"
            /\ applied' = applied \cup S
            /\ UNCHANGED phase

Forget(i) == Moves({i}, "decided", "forgotten")

LNext == \/ \E i \in Ids : Submit(i) \/ Forget(i)
         \/ \E S \in SUBSET Ids : Decide(S) \/ Apply(S)

LSpec == LInit /\ [][LNext]_lvars
=============================================================================

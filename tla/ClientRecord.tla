---------------------------- MODULE ClientRecord ----------------------------
(***************************************************************************)
(* The record libccls keeps for one workstation (CCL_client, client.c) as  *)
(* a value, and the calls of client.c as functions on that value.  A call  *)
(* whose guard fails returns the record it was given, as the early return  *)
(* of the C function leaves it alone.                                      *)
(*                                                                         *)
(* "session" is the one auxiliary field: it names the session that the     *)
(* intervals belong to, so that a session can be followed when it moves    *)
(* from one workstation to another.  0 is no session.                      *)
(***************************************************************************)
EXTENDS Integers, SequencesExt

Status == {"INACTIVE", "ACTIVE", "PAUSED"}

\* time(NULL) is positive, so an etime of 0 is an interval still running.
Running == 0

NewInterval(now) == [stime |-> now, etime |-> Running]

EmptyRecord ==
  [status |-> "INACTIVE", intervals |-> <<>>, timeout |-> 0,
   member |-> 0, session |-> 0]

HasSession(r) == r.intervals # <<>>

\* How long one interval has lasted, a running one being measured up to now.
Length(i, now) == (IF i.etime > 0 THEN i.etime ELSE now) - i.stime

\* CCL_client_time_used
TimeUsed(r, now) ==
  SumFunction([i \in DOMAIN r.intervals |-> Length(r.intervals[i], now)])

\* CCL_client_stime_get and CCL_client_etime_get: 0 when there is no interval
STime(r) == IF HasSession(r) THEN Head(r.intervals).stime ELSE 0
ETime(r) == IF HasSession(r) THEN Last(r.intervals).etime ELSE 0

\* The last interval's end becomes t (0 reopens it).
EndLast(intervals, t) == [intervals EXCEPT ![Len(intervals)].etime = t]

-----------------------------------------------------------------------------
(* CCL_client_reset *)
ResetRecord(r) == EmptyRecord

(* CCL_client_start: a new session from INACTIVE, a new interval of the    *)
(* same session from PAUSED.                                               *)
StartRecord(r, now, newSession) ==
  LET base == IF r.status = "INACTIVE"
              THEN [ResetRecord(r) EXCEPT !.session = newSession]
              ELSE r
  IN  IF r.status \in {"INACTIVE", "PAUSED"}
      THEN [base EXCEPT !.status = "ACTIVE",
                        !.intervals = Append(@, NewInterval(now))]
      ELSE r

(* CCL_client_stop *)
StopRecord(r, now) ==
  IF r.status = "ACTIVE" /\ HasSession(r)
  THEN [r EXCEPT !.status = "INACTIVE", !.intervals = EndLast(@, now)]
  ELSE r

\* Mutant: the timeout is taken as it comes.
TimeoutUnclamped(r, t) == [r EXCEPT !.timeout = t]

(* CCL_client_timeout_set *)
TimeoutRecord(r, t) == [r EXCEPT !.timeout = IF t > 0 THEN t ELSE 0]

\* Mutant: the stopped session is counted from 0 again.
UnstopStartsOver(r, now) ==
  IF r.status = "INACTIVE" /\ HasSession(r)
  THEN [r EXCEPT !.status = "ACTIVE", !.intervals = <<NewInterval(now)>>]
  ELSE r

(* CCL_client_unstop, the part that changes the record.                    *)
UnstopRecord(r, now) ==
  LET kept == IF TimeUsed(r, now) > r.timeout THEN TimeoutRecord(r, 0) ELSE r
  IN  IF r.status = "INACTIVE" /\ HasSession(r)
      THEN [kept EXCEPT !.status = "ACTIVE", !.intervals = EndLast(@, Running)]
      ELSE r

\* Mutant: the pause does not end the interval.
PauseLeavesRunning(r, now) ==
  IF r.status = "ACTIVE" /\ HasSession(r) THEN [r EXCEPT !.status = "PAUSED"] ELSE r

(* CCL_client_pause and CCL_client_unpause *)
PauseRecord(r, now) ==
  IF r.status = "ACTIVE" /\ HasSession(r)
  THEN [r EXCEPT !.status = "PAUSED", !.intervals = EndLast(@, now)]
  ELSE r

UnpauseRecord(r) ==
  IF r.status = "PAUSED" /\ HasSession(r)
  THEN [r EXCEPT !.status = "ACTIVE", !.intervals = EndLast(@, Running)]
  ELSE r

(* CCL_client_member_set *)
MemberRecord(r, m) == [r EXCEPT !.member = m]

-----------------------------------------------------------------------------
(* What a record is, and when it is well formed *)

Interval == [stime : Nat, etime : Nat]

Record(members) ==
  [status : Status, intervals : Seq(Interval), timeout : Nat,
   member : members \cup {0}, session : Nat]

\* A record charges for time if and only if the workstation is in use: it has
\* a running interval exactly when it is ACTIVE, and then only the last one
\* (stop and pause close it, unstop and unpause reopen it).
RunningIffActive(r) ==
  \A i \in 1..Len(r.intervals) :
     r.intervals[i].etime = Running <=> r.status = "ACTIVE" /\ i = Len(r.intervals)

\* A workstation that is in use, or suspended, has at least one interval: the
\* g_return_if_fail(0 <= i) of stop, pause and unpause never leaves a session
\* running that cannot be stopped.
UsedHasIntervals(r) == r.status # "INACTIVE" => HasSession(r)

\* The intervals of a session follow each other in the past, so that no moment
\* is charged twice (CCL_client_time_used adds their lengths).
IntervalsInOrder(r, now) ==
  /\ \A i \in 1..Len(r.intervals) :
       /\ 0 < r.intervals[i].stime /\ r.intervals[i].stime <= now
       /\ r.intervals[i].etime <= now
       /\ r.intervals[i].etime # Running => r.intervals[i].stime <= r.intervals[i].etime
  /\ \A i, j \in 1..Len(r.intervals) :
       i < j => r.intervals[i].etime <= r.intervals[j].stime

WellFormed(r, now) ==
  RunningIffActive(r) /\ UsedHasIntervals(r) /\ IntervalsInOrder(r, now)
=============================================================================

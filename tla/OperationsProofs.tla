-------------------------- MODULE OperationsProofs --------------------------
(***************************************************************************)
(* What MCOperations states of the notices of a run's end, the runs of     *)
(* other services, the probe and the import, and the types of all its      *)
(* variables, for every set of handlers, guests and documents and every    *)
(* limit.  The other parts of the composition are in ContainmentProofs.    *)
(*                                                                         *)
(* The types of all parts are proved together at the end: the invariant of *)
(* each part says nearly all of its types, and what is left are the bounds *)
(* of its counters.                                                        *)
(***************************************************************************)
EXTENDS ContainmentProofs

-----------------------------------------------------------------------------
(*                         Notices of a run's end                          *)

Notices == [kind : N!Words, read : Nat, old : BOOLEAN, id : Nat]

NoticeTypes ==
    /\ N!TypeOK
    /\ runNotices \subseteq Notices
    /\ moving \in [Callers -> N!Ops \cup {"none"}]
    /\ \A r \in Callers : noticeAt[r] \notin {"idle", "judge", "tell"} => moving[r] \in N!Ops
    /\ \A r \in Callers : noticeAt[r] = "tell" => snapshots[r].record \in N!Words

\* Whoever speaks of an end has it from the runtime, by way of what he read.
EndsAreWritten ==
    /\ N!WordIsTrue
    /\ run \in N!Over => run \in ends
    /\ \A r \in Callers : /\ snapshots[r].run \in N!Over => snapshots[r].run \in ends
                          /\ snapshots[r].record \in N!Words => snapshots[r].record \in ends

\* Notices are numbered by the requests that left word.
NoticesAreApart ==
    /\ \A n \in runNotices : n.id \in 1 .. told
    /\ \A n, m \in runNotices : n.id = m.id => n = m

\* Nothing is about to change: the record says where the run is.
AtRest ==
    IF run = N!NoRun THEN record = N!NoRecord /\ ~used /\ told = 0
    ELSE /\ record.status = run /\ record.plan /\ (used <=> run \in N!Over)
         /\ told <= 1 /\ (run = "running" => told = 0)

\* What a request that is alone knows, from place to place.
ByItself(r) ==
    LET place == noticeAt[r]
    IN  /\ told = 0
        /\ place = "put" => AtRest /\ (moving[r] = "start" <=> run = N!NoRun) /\ run \in {N!NoRun, "running"}
        /\ place # "put" => run # N!NoRun
        /\ place \in {"snapshot", "existing", "upsert"} => ~used /\ (moving[r] # "start" => record.plan)
        /\ place \in {"existing", "upsert", "usage"} => snapshots[r].run = run
        /\ place = "upsert" => snapshots[r].plan
        /\ place = "usage" => record.status = run /\ record.plan /\ ~used
        /\ place \in {"judge", "tell"} => AtRest
        /\ place = "tell" => run \in N!Words

OneAtATime ==
    /\ \A q, r \in Callers : noticeAt[q] # "idle" /\ noticeAt[r] # "idle" => q = r
    /\ \A r \in Callers : noticeAt[r] # "idle" => ByItself(r)
    /\ N!Quiet => AtRest

CalmNotices == noticedCalmly => OneAtATime

NoticeInv == NoticeTypes /\ EndsAreWritten /\ NoticesAreApart /\ CalmNotices

-----------------------------------------------------------------------------

\* While it stays calm, whoever moves is alone.
LEMMA MovesAlone ==
    ASSUME NoticeInv, NEW r \in Callers, N!Moved(r), noticedCalmly',
           \A q \in Callers \ {r} : noticeAt'[q] = noticeAt[q]
    PROVE  /\ OneAtATime /\ \A q \in Callers \ {r} : noticeAt[q] = "idle" /\ noticeAt'[q] = "idle"
           /\ noticeAt[r] # "idle" => ByItself(r)
           /\ noticeAt[r] = "idle" => AtRest
<1>1. noticedCalmly /\ \A q \in Callers \ {r} : noticeAt[q] = "idle"
  BY DEF N!Moved
<1>2. OneAtATime
  BY <1>1 DEF NoticeInv, CalmNotices
<1>3. ASSUME noticeAt[r] = "idle"
      PROVE  AtRest
  BY <1>1, <1>2, <1>3 DEF OneAtATime, N!Quiet
<1> QED BY <1>1, <1>2, <1>3 DEF OneAtATime

\* To stay calm it is enough to look at who moved.
LEMMA StaysCalm ==
    ASSUME NEW r \in Callers, noticedCalmly' => \A q \in Callers \ {r} : noticeAt'[q] = "idle",
           noticedCalmly' /\ noticeAt'[r] # "idle" => ByItself(r)',
           noticedCalmly' /\ noticeAt'[r] = "idle" => AtRest'
    PROVE  CalmNotices'
<1> SUFFICES ASSUME noticedCalmly'
             PROVE  OneAtATime'
  BY DEF CalmNotices
<1>1. \A q \in Callers : noticeAt'[q] # "idle" => q = r
  OBVIOUS
<1>2. \A q \in Callers : noticeAt'[q] # "idle" => ByItself(q)'
  BY <1>1
<1>3. N!Quiet' => AtRest'
  BY DEF N!Quiet
<1> QED BY <1>1, <1>2, <1>3 DEF OneAtATime

\* Where the notices, and what has been written and told of, stay.
LEMMA SameNotices ==
    ASSUME NoticesAreApart, UNCHANGED <<runNotices, told>>
    PROVE  NoticesAreApart'
BY DEF NoticesAreApart

\* What the types say of a request, place by place.
LEMMA PlacesAre ==
    ASSUME NoticeTypes, NEW r \in Callers
    PROVE  /\ noticeAt \in [Callers -> {"idle", "put", "snapshot", "existing", "upsert", "usage", "judge", "tell"}]
           /\ snapshots \in [Callers -> [run : N!States, plan : BOOLEAN, record : N!Words \cup {N!NoRun}]]
           /\ record \in [status : N!States, plan : BOOLEAN] /\ told \in Nat /\ moments \in Nat /\ used \in BOOLEAN
           /\ run \in N!States /\ ends \subseteq N!Over
BY DEF NoticeTypes, N!TypeOK

LEMMA BeginKeeps ==
    ASSUME NoticeInv, NEW r \in Callers, NEW op \in N!Ops, N!Begin(r, op)
    PROVE  NoticeInv'
<1>1. /\ noticeAt[r] = "idle" /\ N!Applies(op) /\ noticeAt' = [noticeAt EXCEPT ![r] = "put"]
      /\ moving' = [moving EXCEPT ![r] = op] /\ N!Moved(r)
      /\ UNCHANGED <<run, record, used, runNotices, moments, snapshots, ends, audited, told>>
  BY DEF N!Begin, N!Go, N!inbox, N!history
<1>2. noticeAt'[r] = "put" /\ \A q \in Callers \ {r} : noticeAt'[q] = noticeAt[q]
  BY <1>1, PlacesAre DEF NoticeInv
<1>3. NoticeTypes'
  BY <1>1, <1>2 DEF NoticeInv, NoticeTypes, N!TypeOK
<1>4. EndsAreWritten' /\ NoticesAreApart'
  BY <1>1, SameNotices DEF NoticeInv, EndsAreWritten, N!WordIsTrue
<1>5. ASSUME noticedCalmly'
      PROVE  ByItself(r)' /\ \A q \in Callers \ {r} : noticeAt'[q] = "idle"
  <2>1. AtRest /\ \A q \in Callers \ {r} : noticeAt'[q] = "idle"
    BY <1>1, <1>2, <1>5, MovesAlone
  <2>2. moving'[r] = op /\ (op = "start" => run = N!NoRun) /\ (op # "start" => run = "running")
    BY <1>1 DEF NoticeInv, NoticeTypes, N!Applies
  <2>3. AtRest' /\ told = 0
    BY <1>1, <2>1, <2>2 DEF AtRest, N!NoRun
  <2> QED BY <1>1, <1>2, <2>1, <2>2, <2>3 DEF ByItself, N!NoRun
<1>6. CalmNotices'
  BY <1>2, <1>5, StaysCalm
<1> QED BY <1>3, <1>4, <1>6 DEF NoticeInv

LEMMA PutKeeps ==
    ASSUME NoticeInv, NEW r \in Callers, N!Put(r)
    PROVE  NoticeInv'
<1>1. /\ noticeAt[r] = "put" /\ run' \in N!Outcomes(moving[r]) /\ ends' = ends \cup ({run'} \cap N!Over)
      /\ noticeAt' = [noticeAt EXCEPT ![r] = "snapshot"] /\ N!Moved(r)
      /\ UNCHANGED <<record, used, runNotices, moments, moving, snapshots, audited, told>>
  BY DEF N!Put, N!Go, N!inbox
<1>2. noticeAt'[r] = "snapshot" /\ \A q \in Callers \ {r} : noticeAt'[q] = noticeAt[q]
  BY <1>1, PlacesAre DEF NoticeInv
<1>3. run' \in N!States /\ run' # N!NoRun
  <2>1. moving[r] \in {"start", "cancel", "reject", "approve", "resume"}
    BY <1>1 DEF NoticeInv, NoticeTypes, N!Ops
  <2>2. CASE moving[r] = "start"
    BY <1>1, <2>2 DEF N!Outcomes, N!States, N!Over, N!NoRun
  <2>3. CASE moving[r] = "cancel"
    BY <1>1, <2>3 DEF N!Outcomes, N!States, N!Over, N!NoRun
  <2>4. CASE moving[r] = "reject"
    BY <1>1, <2>4 DEF N!Outcomes, N!States, N!Over, N!NoRun
  <2>5. CASE moving[r] = "approve"
    BY <1>1, <2>5 DEF N!Outcomes, N!States, N!Over, N!NoRun
  <2>6. CASE moving[r] = "resume"
    BY <1>1, <2>6 DEF N!Outcomes, N!States, N!Over, N!NoRun
  <2> QED BY <2>1, <2>2, <2>3, <2>4, <2>5, <2>6
<1>4. NoticeTypes'
  BY <1>1, <1>2, <1>3 DEF NoticeInv, NoticeTypes, N!TypeOK
<1>5. EndsAreWritten' /\ NoticesAreApart'
  BY <1>1, SameNotices DEF NoticeInv, EndsAreWritten, N!WordIsTrue
<1>6. ASSUME noticedCalmly'
      PROVE  ByItself(r)' /\ \A q \in Callers \ {r} : noticeAt'[q] = "idle"
  <2>1. ByItself(r) /\ \A q \in Callers \ {r} : noticeAt'[q] = "idle"
    BY <1>1, <1>2, <1>6, MovesAlone
  <2>2. ~used /\ told = 0 /\ (moving[r] # "start" => record.plan)
    BY <1>1, <2>1 DEF ByItself, AtRest, N!NoRun, N!Over
  <2> QED BY <1>1, <1>2, <1>3, <2>1, <2>2 DEF ByItself
<1>7. CalmNotices'
  BY <1>2, <1>6, StaysCalm
<1> QED BY <1>4, <1>5, <1>7 DEF NoticeInv

LEMMA SnapshotKeeps ==
    ASSUME NoticeInv, NEW r \in Callers, N!Snapshot(r) \/ N!Existing(r)
    PROVE  NoticeInv'
<1>1. /\ noticeAt[r] \in {"snapshot", "existing"} /\ N!Moved(r)
      /\ noticeAt' = [noticeAt EXCEPT ![r] = IF noticeAt[r] = "snapshot" THEN "existing" ELSE "upsert"]
      /\ UNCHANGED <<run, record, used, runNotices, moments, moving, ends, audited, told>>
      /\ snapshots' = IF noticeAt[r] = "snapshot" THEN [snapshots EXCEPT ![r].run = run]
                      ELSE [snapshots EXCEPT ![r].plan = (moving[r] = "start" \/ record.plan)]
  BY DEF N!Snapshot, N!Existing, N!Go, N!inbox, N!history
<1>2. noticeAt'[r] \in {"existing", "upsert"} /\ \A q \in Callers \ {r} : noticeAt'[q] = noticeAt[q]
  BY <1>1, PlacesAre DEF NoticeInv
<1>3. /\ snapshots' \in [Callers -> [run : N!States, plan : BOOLEAN, record : N!Words \cup {N!NoRun}]]
      /\ \A q \in Callers \ {r} : snapshots'[q] = snapshots[q]
      /\ snapshots'[r].record = snapshots[r].record /\ snapshots'[r].run \in {snapshots[r].run, run}
      /\ noticeAt[r] = "snapshot" => snapshots'[r].run = run
      /\ noticeAt[r] = "existing" => /\ snapshots'[r].run = snapshots[r].run
                                     /\ moving[r] = "start" \/ record.plan => snapshots'[r].plan
  <2>1. CASE noticeAt[r] = "snapshot"
    BY <1>1, <2>1, PlacesAre DEF NoticeInv
  <2>2. CASE noticeAt[r] = "existing"
    <3>1. PICK plan \in BOOLEAN : plan = (moving[r] = "start" \/ record.plan)
      BY PlacesAre DEF NoticeInv
    <3>2. snapshots' = [snapshots EXCEPT ![r].plan = plan]
      BY <1>1, <2>2, <3>1
    <3>3. PICK old : old = snapshots[r] /\ old \in [run : N!States, plan : BOOLEAN, record : N!Words \cup {N!NoRun}]
      BY PlacesAre DEF NoticeInv
    <3>4. PICK new : new = [old EXCEPT !.plan = plan]
      OBVIOUS
    <3>5. /\ new \in [run : N!States, plan : BOOLEAN, record : N!Words \cup {N!NoRun}]
          /\ new.run = old.run /\ new.record = old.record /\ new.plan = plan
      BY <3>3, <3>4
    <3>6. snapshots' = [snapshots EXCEPT ![r] = new]
      BY <3>2, <3>3, <3>4, PlacesAre DEF NoticeInv
    <3>7. snapshots'[r] = new /\ \A q \in Callers \ {r} : snapshots'[q] = snapshots[q]
      BY <3>6, PlacesAre DEF NoticeInv
    <3>8. snapshots' \in [Callers -> [run : N!States, plan : BOOLEAN, record : N!Words \cup {N!NoRun}]]
      BY <3>5, <3>6, PlacesAre DEF NoticeInv
    <3>9. moving[r] = "start" \/ record.plan => plan
      BY <3>1, Zenon
    <3> QED BY <2>2, <3>3, <3>5, <3>7, <3>8, <3>9
  <2> QED BY <1>1, <2>1, <2>2
<1>4. NoticeTypes'
  BY <1>1, <1>2, <1>3 DEF NoticeInv, NoticeTypes, N!TypeOK
<1>5. EndsAreWritten' /\ NoticesAreApart'
  <2>1. \A q \in Callers : /\ snapshots'[q].run \in {snapshots[q].run, run}
                           /\ snapshots'[q].record = snapshots[q].record
    BY <1>3
  <2> QED BY <1>1, <2>1, SameNotices DEF NoticeInv, EndsAreWritten, N!WordIsTrue
<1>6. ASSUME noticedCalmly'
      PROVE  ByItself(r)' /\ \A q \in Callers \ {r} : noticeAt'[q] = "idle"
  <2>1. ByItself(r) /\ \A q \in Callers \ {r} : noticeAt'[q] = "idle"
    BY <1>1, <1>2, <1>6, MovesAlone
  <2>2. noticeAt'[r] = IF noticeAt[r] = "snapshot" THEN "existing" ELSE "upsert"
    BY <1>1, PlacesAre DEF NoticeInv
  <2>3. CASE noticeAt[r] = "snapshot"
    BY <1>1, <1>3, <2>1, <2>2, <2>3 DEF ByItself
  <2>4. CASE noticeAt[r] = "existing"
    BY <1>1, <1>3, <2>1, <2>2, <2>4 DEF ByItself
  <2> QED BY <1>1, <2>1, <2>3, <2>4
<1>7. CalmNotices'
  BY <1>2, <1>6, StaysCalm
<1> QED BY <1>4, <1>5, <1>7 DEF NoticeInv

LEMMA UpsertKeeps ==
    ASSUME NoticeInv, NEW r \in Callers, N!Upsert(r)
    PROVE  NoticeInv'
<1>1. /\ noticeAt[r] = "upsert" /\ N!Moved(r) /\ noticeAt' = [noticeAt EXCEPT ![r] = "usage"]
      /\ record' = [status |-> snapshots[r].run, plan |-> snapshots[r].plan]
      /\ snapshots' = [snapshots EXCEPT ![r].plan = FALSE]
      /\ UNCHANGED <<run, used, runNotices, moments, moving, ends, audited, told>>
  BY DEF N!Upsert, N!Go, N!inbox, N!history
<1>2. noticeAt'[r] = "usage" /\ \A q \in Callers \ {r} : noticeAt'[q] = noticeAt[q]
  BY <1>1, PlacesAre DEF NoticeInv
<1>3. PICK old : old = snapshots[r] /\ old \in [run : N!States, plan : BOOLEAN, record : N!Words \cup {N!NoRun}]
  BY PlacesAre DEF NoticeInv
<1>4. /\ snapshots' \in [Callers -> [run : N!States, plan : BOOLEAN, record : N!Words \cup {N!NoRun}]]
      /\ \A q \in Callers : snapshots'[q].run = snapshots[q].run /\ snapshots'[q].record = snapshots[q].record
  BY <1>1, PlacesAre DEF NoticeInv
<1>5. /\ record' \in [status : N!States, plan : BOOLEAN]
      /\ record'.status = old.run /\ record'.plan = old.plan
  BY <1>1, <1>3
<1>6. NoticeTypes'
  BY <1>1, <1>2, <1>4, <1>5 DEF NoticeInv, NoticeTypes, N!TypeOK
<1>7. EndsAreWritten' /\ NoticesAreApart'
  BY <1>1, <1>3, <1>4, <1>5, SameNotices DEF NoticeInv, EndsAreWritten, N!WordIsTrue
<1>8. ASSUME noticedCalmly'
      PROVE  ByItself(r)' /\ \A q \in Callers \ {r} : noticeAt'[q] = "idle"
  <2>1. ByItself(r) /\ \A q \in Callers \ {r} : noticeAt'[q] = "idle"
    BY <1>1, <1>2, <1>8, MovesAlone
  <2>2. run # N!NoRun /\ ~used /\ old.run = run /\ old.plan /\ told = 0
    BY <1>1, <1>3, <2>1 DEF ByItself
  <2> QED BY <1>1, <1>2, <1>3, <1>4, <1>5, <2>1, <2>2 DEF ByItself
<1>9. CalmNotices'
  BY <1>2, <1>8, StaysCalm
<1> QED BY <1>6, <1>7, <1>9 DEF NoticeInv

LEMMA ForgottenIs ==
    ASSUME NoticeInv, NEW r \in Callers, N!Forget(r)
    PROVE  /\ moving' = [moving EXCEPT ![r] = "none"]
           /\ moving' \in [Callers -> N!Ops \cup {"none"}] /\ \A q \in Callers \ {r} : moving'[q] = moving[q]
           /\ snapshots' \in [Callers -> [run : N!States, plan : BOOLEAN, record : N!Words \cup {N!NoRun}]]
           /\ \A q \in Callers \ {r} : snapshots'[q] = snapshots[q]
           /\ snapshots'[r].run = N!NoRun /\ snapshots'[r].record = N!NoRun
<1>1. moving' = [moving EXCEPT ![r] = "none"] /\ snapshots' = [snapshots EXCEPT ![r] = N!NoView]
  BY DEF N!Forget
<1>2. /\ N!NoView \in [run : N!States, plan : BOOLEAN, record : N!Words \cup {N!NoRun}]
      /\ N!NoView.run = N!NoRun /\ N!NoView.record = N!NoRun
  BY DEF N!NoView, N!States
<1> QED BY <1>1, <1>2, PlacesAre DEF NoticeInv, NoticeTypes

\* What a request read is forgotten with it.
LEMMA ForgottenIsTrue ==
    ASSUME NoticeInv, NEW r \in Callers, N!Forget(r), UNCHANGED <<run, record, ends>>,
           used' => used \/ ends # {}, audited' \subseteq ends, \A n \in runNotices' : n.kind \in ends
    PROVE  EndsAreWritten'
<1>1. /\ \A q \in Callers \ {r} : snapshots'[q] = snapshots[q]
      /\ snapshots'[r].run = N!NoRun /\ snapshots'[r].record = N!NoRun
  BY ForgottenIs
<1>2. N!NoRun \notin N!Over /\ N!NoRun \notin N!Words
  BY DEF N!NoRun, N!Over, N!Words
<1> QED BY <1>1, <1>2 DEF NoticeInv, EndsAreWritten, N!WordIsTrue

LEMMA RecordUsageKeeps ==
    ASSUME NoticeInv, NEW r \in Callers, N!RecordUsage(r)
    PROVE  NoticeInv'
<1>1. /\ noticeAt[r] = "usage" /\ N!Moved(r) /\ N!Forget(r) /\ used' = (used \/ snapshots[r].run \in N!Over)
      /\ \E to \in {"judge", "idle"} : noticeAt' = [noticeAt EXCEPT ![r] = to]
      /\ UNCHANGED <<run, record, runNotices, moments, ends, audited, told>>
  BY DEF N!RecordUsage, N!Go, N!inbox, N!history
<1>2. noticeAt'[r] \in {"judge", "idle"} /\ \A q \in Callers \ {r} : noticeAt'[q] = noticeAt[q]
  BY <1>1, PlacesAre DEF NoticeInv
<1>3. used' \in BOOLEAN /\ (used' <=> used \/ snapshots[r].run \in N!Over)
  BY <1>1, PlacesAre DEF NoticeInv
<1>4. NoticeTypes'
  BY <1>1, <1>2, <1>3, ForgottenIs DEF NoticeInv, NoticeTypes, N!TypeOK
<1>5. EndsAreWritten'
  BY <1>1, <1>3, ForgottenIsTrue DEF NoticeInv, EndsAreWritten, N!WordIsTrue
<1>6. NoticesAreApart'
  BY <1>1, SameNotices DEF NoticeInv
<1>7. ASSUME noticedCalmly'
      PROVE  AtRest' /\ told = 0 /\ run # N!NoRun /\ \A q \in Callers \ {r} : noticeAt'[q] = "idle"
  <2>1. ByItself(r) /\ \A q \in Callers \ {r} : noticeAt'[q] = "idle"
    BY <1>1, <1>2, <1>7, MovesAlone
  <2> QED BY <1>1, <1>3, <2>1 DEF ByItself, AtRest
<1>8. CalmNotices'
  <2>1. noticedCalmly' /\ noticeAt'[r] # "idle" => ByItself(r)'
    BY <1>1, <1>2, <1>7 DEF ByItself
  <2> QED BY <1>2, <1>7, <2>1, StaysCalm
<1> QED BY <1>4, <1>5, <1>6, <1>8 DEF NoticeInv

LEMMA JudgeKeeps ==
    ASSUME NoticeInv, NEW r \in Callers, N!Judge(r)
    PROVE  NoticeInv'
<1>1. /\ noticeAt[r] = "judge" /\ N!Moved(r)
      /\ UNCHANGED <<run, record, used, runNotices, moments, ends, audited, told>>
  BY DEF N!Judge, N!inbox, N!history
<1>2. CASE record.status \in N!Words
  <2>1. /\ snapshots' = [snapshots EXCEPT ![r].record = record.status]
        /\ noticeAt' = [noticeAt EXCEPT ![r] = "tell"] /\ UNCHANGED moving
    BY <1>2 DEF N!Judge, N!Go
  <2>2. noticeAt'[r] = "tell" /\ \A q \in Callers \ {r} : noticeAt'[q] = noticeAt[q]
    BY <2>1, PlacesAre DEF NoticeInv
  <2>3. /\ snapshots' \in [Callers -> [run : N!States, plan : BOOLEAN, record : N!Words \cup {N!NoRun}]]
        /\ \A q \in Callers : snapshots'[q].run = snapshots[q].run
        /\ snapshots'[r].record = record.status /\ \A q \in Callers \ {r} : snapshots'[q].record = snapshots[q].record
    BY <1>2, <2>1, PlacesAre DEF NoticeInv
  <2>4. NoticeTypes'
    BY <1>1, <1>2, <2>1, <2>2, <2>3 DEF NoticeInv, NoticeTypes, N!TypeOK
  <2>5. record.status \in ends
    <3>1. record.status \in N!Over
      BY <1>2 DEF N!Words, N!Over
    <3> QED BY <3>1 DEF NoticeInv, EndsAreWritten, N!WordIsTrue
  <2>6. EndsAreWritten' /\ NoticesAreApart'
    BY <1>1, <2>3, <2>5, SameNotices DEF NoticeInv, EndsAreWritten, N!WordIsTrue
  <2>7. ASSUME noticedCalmly'
        PROVE  ByItself(r)' /\ \A q \in Callers \ {r} : noticeAt'[q] = "idle"
    <3>1. ByItself(r) /\ \A q \in Callers \ {r} : noticeAt'[q] = "idle"
      BY <1>1, <2>2, <2>7, MovesAlone
    <3>2. run # N!NoRun /\ AtRest /\ told = 0
      BY <1>1, <3>1 DEF ByItself
    <3>3. run \in N!Words /\ AtRest'
      BY <1>1, <1>2, <3>2 DEF AtRest
    <3> QED BY <1>1, <2>2, <3>1, <3>2, <3>3 DEF ByItself
  <2>8. CalmNotices'
    BY <2>2, <2>7, StaysCalm
  <2> QED BY <2>4, <2>6, <2>8 DEF NoticeInv
<1>3. CASE record.status \notin N!Words
  <2>1. N!Forget(r) /\ noticeAt' = [noticeAt EXCEPT ![r] = "idle"]
    BY <1>3 DEF N!Judge, N!Leave, N!Go
  <2>2. noticeAt'[r] = "idle" /\ \A q \in Callers \ {r} : noticeAt'[q] = noticeAt[q]
    BY <2>1, PlacesAre DEF NoticeInv
  <2>3. NoticeTypes'
    BY <1>1, <2>1, <2>2, ForgottenIs DEF NoticeInv, NoticeTypes, N!TypeOK
  <2>4. EndsAreWritten'
    BY <1>1, <2>1, ForgottenIsTrue DEF NoticeInv, EndsAreWritten, N!WordIsTrue
  <2>5. NoticesAreApart'
    BY <1>1, SameNotices DEF NoticeInv
  <2>6. ASSUME noticedCalmly'
        PROVE  AtRest' /\ \A q \in Callers \ {r} : noticeAt'[q] = "idle"
    <3>1. ByItself(r) /\ \A q \in Callers \ {r} : noticeAt'[q] = "idle"
      BY <1>1, <2>2, <2>6, MovesAlone
    <3> QED BY <1>1, <3>1 DEF ByItself, AtRest
  <2>7. CalmNotices'
    BY <2>2, <2>6, StaysCalm
  <2> QED BY <2>3, <2>4, <2>5, <2>7 DEF NoticeInv
<1> QED BY <1>2, <1>3

LEMMA TellKeeps ==
    ASSUME NoticeInv, NEW r \in Callers, N!Skip(r) \/ N!Add(r)
    PROVE  NoticeInv'
<1>1. /\ noticeAt[r] = "tell" /\ N!Moved(r) /\ N!Forget(r) /\ noticeAt' = [noticeAt EXCEPT ![r] = "idle"]
      /\ told' = told + 1 /\ UNCHANGED <<run, record, used, moments, ends>>
      /\ audited' \subseteq audited \cup {snapshots[r].record}
  BY DEF N!Skip, N!Add, N!Leave, N!Go, N!inbox
<1>2. noticeAt'[r] = "idle" /\ \A q \in Callers \ {r} : noticeAt'[q] = noticeAt[q]
  BY <1>1, PlacesAre DEF NoticeInv
<1>3. runNotices' \subseteq runNotices \cup {N!NoticeOf(r)}
  BY DEF N!Skip, N!Add, N!inbox
<1>4. PICK notice : notice = N!NoticeOf(r)
  OBVIOUS
<1>5. /\ notice.kind \in ends /\ notice.id = told + 1 /\ notice.read = 0 /\ notice.old = FALSE
      /\ notice.kind \in N!Words /\ notice \in Notices
  <2>1. snapshots[r].record \in N!Words /\ snapshots[r].record \in ends /\ told \in Nat
    BY <1>1, PlacesAre DEF NoticeInv, NoticeTypes, EndsAreWritten
  <2>2. notice = [kind |-> snapshots[r].record, read |-> 0, old |-> FALSE, id |-> told + 1]
    BY <1>4 DEF N!NoticeOf, N!Unread
  <2> QED BY <2>1, <2>2 DEF Notices
<1>a. snapshots[r].record \in N!Words /\ snapshots[r].record \in ends
  BY <1>1 DEF NoticeInv, NoticeTypes, EndsAreWritten
<1>6. NoticeTypes'
  <2>1. \A n \in runNotices' : n \in Notices /\ n.kind \in N!Words /\ n.read \in 0 .. moments /\ n.old \in BOOLEAN
    <3>1. notice.read \in 0 .. moments
      BY <1>5, PlacesAre DEF NoticeInv
    <3>2. \A n \in runNotices : n \in Notices /\ n.kind \in N!Words /\ n.read \in 0 .. moments /\ n.old \in BOOLEAN
      BY DEF NoticeInv, NoticeTypes, N!TypeOK
    <3>3. notice.old \in BOOLEAN
      BY <1>5
    <3> QED BY <1>3, <1>4, <1>5, <3>1, <3>2, <3>3
  <2>2. told' \in Nat
    BY <1>1, PlacesAre DEF NoticeInv
  <2>3. audited' \subseteq N!Words
    BY <1>1, <1>a DEF NoticeInv, NoticeTypes, N!TypeOK
  <2> QED BY <1>1, <1>2, <2>1, <2>2, <2>3, ForgottenIs DEF NoticeInv, NoticeTypes, N!TypeOK
<1>7. EndsAreWritten'
  <2>1. \A n \in runNotices' : n.kind \in ends
    BY <1>3, <1>4, <1>5 DEF NoticeInv, EndsAreWritten, N!WordIsTrue
  <2>2. audited' \subseteq ends
    BY <1>1, <1>a DEF NoticeInv, EndsAreWritten, N!WordIsTrue
  <2> QED BY <1>1, <2>1, <2>2, ForgottenIsTrue
<1>8. NoticesAreApart'
  <2>1. told \in Nat /\ told' = told + 1 /\ \A n \in runNotices : n.id \in 1 .. told
    BY <1>1, PlacesAre DEF NoticeInv, NoticesAreApart
  <2>2. \A n \in runNotices' : n.id \in 1 .. told'
    BY <1>3, <1>4, <1>5, <2>1
  <2>3. \A n \in runNotices : n.id # notice.id
    BY <1>5, <2>1
  <2>4. \A n, m \in runNotices' : n.id = m.id => n = m
    BY <1>3, <1>4, <2>3 DEF NoticeInv, NoticesAreApart
  <2> QED BY <2>2, <2>4 DEF NoticesAreApart
<1>9. ASSUME noticedCalmly'
      PROVE  AtRest' /\ \A q \in Callers \ {r} : noticeAt'[q] = "idle"
  <2>1. ByItself(r) /\ \A q \in Callers \ {r} : noticeAt'[q] = "idle"
    BY <1>1, <1>2, <1>9, MovesAlone
  <2>2. AtRest /\ told = 0 /\ run \in N!Words
    BY <1>1, <2>1 DEF ByItself
  <2> QED BY <1>1, <2>1, <2>2 DEF AtRest, N!Words, N!NoRun
<1>10. CalmNotices'
  BY <1>2, <1>9, StaysCalm
<1> QED BY <1>6, <1>7, <1>8, <1>10 DEF NoticeInv

LEMMA CallerDiesKeeps ==
    ASSUME NoticeInv, NEW r \in Callers, N!Die(r)
    PROVE  NoticeInv'
<1>1. /\ N!Forget(r) /\ noticeAt' = [noticeAt EXCEPT ![r] = "idle"] /\ noticedCalmly' = FALSE
      /\ UNCHANGED <<run, record, used, runNotices, moments, ends, audited, told>>
  BY DEF N!Die, N!Leave, N!Go, N!inbox, N!history
<1>2. noticeAt'[r] = "idle" /\ \A q \in Callers \ {r} : noticeAt'[q] = noticeAt[q]
  BY <1>1, PlacesAre DEF NoticeInv
<1>3. NoticeTypes'
  BY <1>1, <1>2, ForgottenIs DEF NoticeInv, NoticeTypes, N!TypeOK
<1>4. EndsAreWritten'
  BY <1>1, ForgottenIsTrue DEF NoticeInv, EndsAreWritten, N!WordIsTrue
<1> QED BY <1>1, <1>3, <1>4, SameNotices DEF NoticeInv, CalmNotices

\* The inbox: every notice stays, as a row with the same number and kind, and a
\* mark of its reading stays too.
LEMMA InboxIs ==
    ASSUME NoticeInv, N!Inbox
    PROVE  /\ UNCHANGED <<run, record, used, noticeAt, moving, snapshots, ends, audited, told, noticedCalmly>>
           /\ moments' \in Nat /\ moments <= moments'
           /\ \A m \in runNotices' : /\ m \in Notices /\ m.read <= moments'
                                     /\ \E n \in runNotices : n.id = m.id /\ n.kind = m.kind /\ (n.read # 0 => m.read = n.read)
           /\ \A m, o \in runNotices' : m.id = o.id => m = o
<1>1. UNCHANGED <<run, record, used, noticeAt, moving, snapshots, ends, audited, told, noticedCalmly>>
  BY DEF N!Inbox, N!Age, N!MarkRead, N!MarkAllRead, N!Unchanged, N!history
<1>2. /\ moments \in Nat /\ runNotices \subseteq Notices
      /\ \A n \in runNotices : n.read \in 0 .. moments
      /\ \A n, m \in runNotices : n.id = m.id => n = m
  BY PlacesAre DEF NoticeInv, NoticeTypes, N!TypeOK, NoticesAreApart
<1>3. \A n \in Notices : /\ N!Read(n) \in Notices
                         /\ N!Read(n).id = n.id /\ N!Read(n).kind = n.kind
                         /\ N!Read(n).read = IF n.read = 0 THEN moments + 1 ELSE n.read
  BY <1>2 DEF Notices, N!Read, N!Unread
<1>4. CASE N!Age
  <2>1. PICK n \in runNotices : runNotices' = (runNotices \ {n}) \cup {[n EXCEPT !.old = TRUE]}
    BY <1>4 DEF N!Age
  <2>2. PICK aged : aged = [n EXCEPT !.old = TRUE]
    OBVIOUS
  <2>3. aged \in Notices /\ aged.id = n.id /\ aged.kind = n.kind /\ aged.read = n.read
    BY <1>2, <2>2 DEF Notices
  <2>4. moments' = moments
    BY <1>4 DEF N!Age
  <2>5. \A m \in runNotices' : m \in runNotices \/ m = aged
    BY <2>1, <2>2
  <2>6. \A m \in runNotices' : /\ m \in Notices /\ m.read <= moments'
                               /\ \E o \in runNotices : o.id = m.id /\ o.kind = m.kind /\ (o.read # 0 => m.read = o.read)
    BY <1>2, <2>3, <2>4, <2>5
  <2>7. \A m \in runNotices' : m \in runNotices \ {n} \/ m = aged
    BY <2>1, <2>2
  <2>8. \A m, o \in runNotices' : m.id = o.id => m = o
    BY <1>2, <2>3, <2>7
  <2> QED BY <1>1, <1>2, <2>4, <2>6, <2>8
<1>5. CASE N!MarkRead
  <2>1. PICK n \in runNotices : runNotices' = (runNotices \ {n}) \cup {N!Read(n)}
    BY <1>5 DEF N!MarkRead
  <2>2. PICK marked : marked = N!Read(n)
    OBVIOUS
  <2>3. /\ marked \in Notices /\ marked.id = n.id /\ marked.kind = n.kind
        /\ marked.read = IF n.read = 0 THEN moments + 1 ELSE n.read
    BY <1>2, <1>3, <2>2
  <2>4. moments' = moments + 1
    BY <1>5 DEF N!MarkRead
  <2>5. \A m \in runNotices' : m \in runNotices \/ m = marked
    BY <2>1, <2>2
  <2>6. \A m \in runNotices' : /\ m \in Notices /\ m.read <= moments'
                               /\ \E o \in runNotices : o.id = m.id /\ o.kind = m.kind /\ (o.read # 0 => m.read = o.read)
    BY <1>2, <2>3, <2>4, <2>5
  <2>7. \A m \in runNotices' : m \in runNotices \ {n} \/ m = marked
    BY <2>1, <2>2
  <2>8. \A m, o \in runNotices' : m.id = o.id => m = o
    BY <1>2, <2>3, <2>7
  <2> QED BY <1>1, <1>2, <2>4, <2>6, <2>8
<1>6. CASE N!MarkAllRead
  <2>1. runNotices' = {N!Read(n) : n \in runNotices} /\ moments' = moments + 1
    BY <1>6 DEF N!MarkAllRead
  <2>2. \A m \in runNotices' : \E n \in runNotices : m = N!Read(n)
    BY <2>1
  <2>3. moments' \in Nat /\ moments <= moments'
    BY <1>2, <2>1
  <2>4. ASSUME NEW m \in runNotices'
        PROVE  /\ m \in Notices /\ m.read <= moments'
               /\ \E n \in runNotices : n.id = m.id /\ n.kind = m.kind /\ (n.read # 0 => m.read = n.read)
    <3>1. PICK n \in runNotices : m = N!Read(n)
      BY <2>2
    <3>2. /\ n \in Notices /\ n.read \in 0 .. moments
          /\ m \in Notices /\ m.id = n.id /\ m.kind = n.kind
          /\ m.read = IF n.read = 0 THEN moments + 1 ELSE n.read
      BY <1>2, <1>3, <3>1
    <3> QED BY <1>2, <2>1, <3>2
  <2>5. ASSUME NEW m \in runNotices', NEW o \in runNotices', m.id = o.id
        PROVE  m = o
    <3>1. PICK n \in runNotices : m = N!Read(n)
      BY <2>2
    <3>2. PICK a \in runNotices : o = N!Read(a)
      BY <2>2
    <3>3. m.id = n.id /\ o.id = a.id
      BY <1>2, <1>3, <3>1, <3>2
    <3> QED BY <1>2, <2>5, <3>1, <3>2, <3>3
  <2>6. \A m \in runNotices' : /\ m \in Notices /\ m.read <= moments'
                               /\ \E n \in runNotices : n.id = m.id /\ n.kind = m.kind /\ (n.read # 0 => m.read = n.read)
    BY ONLY <2>4
  <2>7. \A m, o \in runNotices' : m.id = o.id => m = o
    BY ONLY <2>5
  <2> QED BY ONLY <1>1, <2>3, <2>6, <2>7
<1> QED BY <1>4, <1>5, <1>6 DEF N!Inbox

\* No kind of notice comes or goes with it.
LEMMA InboxKinds ==
    ASSUME NoticeInv, N!Inbox
    PROVE  {m.kind : m \in runNotices'} = {n.kind : n \in runNotices}
<1>1. \A m \in runNotices' : \E n \in runNotices : n.kind = m.kind
  BY InboxIs
<1>2. runNotices \subseteq Notices /\ moments \in Nat
  BY DEF NoticeInv, NoticeTypes, N!TypeOK
<1>3. \A n \in Notices : N!Read(n).kind = n.kind /\ [n EXCEPT !.old = TRUE].kind = n.kind
  BY <1>2 DEF Notices, N!Read, N!Unread
<1>4. ASSUME NEW n \in runNotices
      PROVE  \E m \in runNotices' : m.kind = n.kind
  <2>1. n \in Notices
    BY <1>2
  <2>2. CASE N!Age
    <3>1. PICK o \in runNotices : runNotices' = (runNotices \ {o}) \cup {[o EXCEPT !.old = TRUE]}
      BY <2>2 DEF N!Age
    <3> QED BY <1>2, <1>3, <3>1
  <2>3. CASE N!MarkRead
    <3>1. PICK o \in runNotices : runNotices' = (runNotices \ {o}) \cup {N!Read(o)}
      BY <2>3 DEF N!MarkRead
    <3> QED BY <1>2, <1>3, <3>1
  <2>4. CASE N!MarkAllRead
    BY <1>2, <1>3, <2>1, <2>4 DEF N!MarkAllRead
  <2> QED BY <2>2, <2>3, <2>4 DEF N!Inbox
<1> QED BY <1>1, <1>4

LEMMA InboxKeeps ==
    ASSUME NoticeInv, N!Inbox
    PROVE  NoticeInv'
<1>1. /\ UNCHANGED <<run, record, used, noticeAt, moving, snapshots, ends, audited, told, noticedCalmly>>
      /\ moments' \in Nat
      /\ \A m \in runNotices' : /\ m \in Notices /\ m.read <= moments'
                                /\ \E n \in runNotices : n.id = m.id /\ n.kind = m.kind
      /\ \A m, o \in runNotices' : m.id = o.id => m = o
  BY InboxIs
<1>2. \A m \in runNotices' : m.kind \in N!Words /\ m.read \in 0 .. moments' /\ m.old \in BOOLEAN
  BY <1>1 DEF Notices
<1>3. NoticeTypes'
  BY <1>1, <1>2 DEF NoticeInv, NoticeTypes, N!TypeOK
<1>4. EndsAreWritten' /\ NoticesAreApart'
  BY <1>1 DEF NoticeInv, EndsAreWritten, NoticesAreApart, N!WordIsTrue
<1>5. CalmNotices'
  BY <1>1 DEF NoticeInv, CalmNotices, OneAtATime, ByItself, AtRest, N!Quiet
<1> QED BY <1>3, <1>4, <1>5 DEF NoticeInv

\* A step of another part leaves the notices alone.
LEMMA NoticesRest ==
    ASSUME NoticeInv, UNCHANGED nVars
    PROVE  NoticeInv'
<1>1. UNCHANGED <<run, record, used, runNotices, noticeAt, moving, snapshots, moments, ends, audited, told, noticedCalmly>>
  BY DEF nVars
<1>2. NoticeTypes'
  BY <1>1 DEF NoticeInv, NoticeTypes, N!TypeOK
<1>3. EndsAreWritten' /\ NoticesAreApart'
  BY <1>1 DEF NoticeInv, EndsAreWritten, NoticesAreApart, N!WordIsTrue
<1>4. CalmNotices'
  BY <1>1 DEF NoticeInv, CalmNotices, OneAtATime, ByItself, AtRest, N!Quiet
<1> QED BY <1>2, <1>3, <1>4 DEF NoticeInv

\* A step of another part leaves the notices alone.
LEMMA NoticesOfSystem ==
    ASSUME NoticeInv, [Next]_vars
    PROVE  NoticeInv'
<1>1. N!Next \/ UNCHANGED nVars
  BY DEF Next, vars
<1> QED BY <1>1, BeginKeeps, PutKeeps, SnapshotKeeps, UpsertKeeps, RecordUsageKeeps, JudgeKeeps, TellKeeps, CallerDiesKeeps,
           InboxKeeps, NoticesRest DEF N!Next, N!Move

LEMMA NoticeInit ==
    ASSUME N!Init
    PROVE  NoticeInv
<1>1. /\ run = N!NoRun /\ record = N!NoRecord /\ used = FALSE /\ runNotices = {} /\ moments = 0
      /\ noticeAt = [r \in Callers |-> "idle"] /\ moving = [r \in Callers |-> "none"]
      /\ snapshots = [r \in Callers |-> N!NoView] /\ ends = {} /\ audited = {} /\ told = 0
  BY DEF N!Init
<1>2. /\ N!NoView \in [run : N!States, plan : BOOLEAN, record : N!Words \cup {N!NoRun}]
      /\ N!NoView.run = N!NoRun /\ N!NoView.record = N!NoRun
      /\ N!NoRecord \in [status : N!States, plan : BOOLEAN] /\ N!NoRecord.status = N!NoRun
      /\ N!NoRun \notin N!Over /\ N!NoRun \notin N!Words
  BY DEF N!NoView, N!NoRecord, N!States, N!NoRun, N!Over, N!Words
<1>3. NoticeTypes
  BY <1>1, <1>2 DEF NoticeTypes, N!TypeOK, N!States
<1>4. EndsAreWritten /\ NoticesAreApart
  BY <1>1, <1>2 DEF EndsAreWritten, NoticesAreApart, N!WordIsTrue
<1>5. CalmNotices
  BY <1>1 DEF CalmNotices, OneAtATime, AtRest
<1> QED BY <1>3, <1>4, <1>5 DEF NoticeInv

-----------------------------------------------------------------------------

\* What has been said of the run, by a notice or in the audit.
Heard == {n.kind : n \in runNotices} \cup audited

\* While it is calm, whoever is about to tell tells the end there is, who resumes
\* has not ended it, and an end that nobody is at work on has been told.
HeardInv ==
    noticedCalmly =>
        /\ told = 0 => Heard = {}
        /\ told = 1 => run \in N!Words /\ Heard = {run}
        /\ N!Quiet /\ run \in N!Words => told = 1
        /\ \A r \in Callers : noticeAt[r] = "tell" => snapshots[r].record = run
        /\ \A r \in Callers : noticeAt[r] \in {"snapshot", "existing", "upsert", "usage"} /\ moving[r] = "resume"
                                 => run = "running"

\* A request alone moves on and says nothing.
LEMMA HeardOnTheWay ==
    ASSUME NoticeInv, HeardInv, NEW r \in Callers, N!Moved(r), noticedCalmly',
           noticeAt[r] # "idle", \A q \in Callers \ {r} : noticeAt'[q] = noticeAt[q],
           UNCHANGED <<runNotices, audited, told>>,
           noticeAt'[r] = "idle" => run' \notin N!Words,
           noticeAt'[r] = "tell" => snapshots'[r].record = run',
           noticeAt'[r] \in {"snapshot", "existing", "upsert", "usage"} /\ moving'[r] = "resume" => run' = "running"
    PROVE  HeardInv'
<1>1. ByItself(r) /\ \A q \in Callers \ {r} : noticeAt'[q] = "idle"
  BY MovesAlone
<1>2. noticedCalmly /\ told = 0
  BY <1>1 DEF N!Moved, ByItself
<1>3. Heard' = {} /\ told' = 0
  BY <1>2 DEF HeardInv, Heard
<1>4. N!Quiet' => noticeAt'[r] = "idle"
  BY DEF N!Quiet
<1> QED BY <1>1, <1>3, <1>4 DEF HeardInv

LEMMA HeardMoves ==
    ASSUME NoticeInv, HeardInv, NEW r \in Callers, noticedCalmly',
           N!Put(r) \/ N!Snapshot(r) \/ N!Existing(r) \/ N!Upsert(r) \/ N!RecordUsage(r) \/ N!Judge(r)
    PROVE  HeardInv'
<1>1. /\ N!Moved(r) /\ UNCHANGED <<runNotices, audited, told>>
      /\ noticeAt[r] \in {"put", "snapshot", "existing", "upsert", "usage", "judge"}
  BY DEF N!Put, N!Snapshot, N!Existing, N!Upsert, N!RecordUsage, N!Judge, N!inbox, N!history
<1>2. \E to : noticeAt' = [noticeAt EXCEPT ![r] = to]
  BY DEF N!Put, N!Snapshot, N!Existing, N!Upsert, N!RecordUsage, N!Judge, N!Leave, N!Go
<1>3. \A q \in Callers \ {r} : noticeAt'[q] = noticeAt[q]
  BY <1>2, PlacesAre DEF NoticeInv
<1>4. noticedCalmly /\ ByItself(r)
  BY <1>1, <1>3, MovesAlone DEF N!Moved
<1>5. CASE N!Put(r)
  <2>1. noticeAt'[r] = "snapshot" /\ moving' = moving /\ run' \in N!Outcomes(moving[r])
    BY <1>5, PlacesAre DEF NoticeInv, N!Put, N!Go
  <2>2. moving[r] = "resume" => run' = "running"
    BY <2>1 DEF N!Outcomes
  <2> QED BY <1>1, <1>3, <2>1, <2>2, HeardOnTheWay
<1>6. CASE N!Snapshot(r) \/ N!Existing(r) \/ N!Upsert(r)
  <2>1. noticeAt'[r] \in {"existing", "upsert", "usage"} /\ UNCHANGED <<run, moving>>
    BY <1>6, PlacesAre DEF NoticeInv, N!Snapshot, N!Existing, N!Upsert, N!Go
  <2>2. noticeAt[r] \in {"snapshot", "existing", "upsert", "usage"}
    BY <1>6 DEF N!Snapshot, N!Existing, N!Upsert
  <2>3. moving'[r] = "resume" => run' = "running"
    BY <1>4, <2>1, <2>2 DEF HeardInv
  <2> QED BY <1>1, <1>3, <2>1, <2>3, HeardOnTheWay
<1>7. CASE N!RecordUsage(r)
  <2>1. /\ noticeAt[r] = "usage" /\ UNCHANGED run
        /\ noticeAt' = [noticeAt EXCEPT ![r] = IF N!Notifies(moving[r]) THEN "judge" ELSE "idle"]
    BY <1>7 DEF N!RecordUsage, N!Go
  <2>2. noticeAt'[r] = IF N!Notifies(moving[r]) THEN "judge" ELSE "idle"
    BY <2>1, PlacesAre DEF NoticeInv
  <2>3. moving[r] \in {"start", "cancel", "reject", "approve", "resume"}
    BY <2>1 DEF NoticeInv, NoticeTypes, N!Ops
  <2>4. ~N!Notifies(moving[r]) => run = "running"
    BY <1>4, <2>1, <2>3 DEF HeardInv, N!Notifies
  <2>5. noticeAt'[r] = "idle" => run' \notin N!Words
    BY <2>1, <2>2, <2>4 DEF N!Words
  <2>6. noticeAt'[r] \in {"judge", "idle"}
    BY <2>2
  <2> QED BY <1>1, <1>3, <2>5, <2>6, HeardOnTheWay
<1>8. CASE N!Judge(r)
  <2>1. AtRest /\ run # N!NoRun /\ noticeAt[r] = "judge"
    BY <1>4, <1>8 DEF N!Judge, ByItself
  <2>2. record.status = run /\ UNCHANGED run
    BY <1>8, <2>1 DEF AtRest, N!Judge
  <2>3. CASE run \in N!Words
    <3>1. snapshots' = [snapshots EXCEPT ![r].record = run] /\ noticeAt' = [noticeAt EXCEPT ![r] = "tell"]
      BY <1>8, <2>2, <2>3 DEF N!Judge, N!Go
    <3>2. noticeAt'[r] = "tell" /\ snapshots'[r].record = run
      BY <3>1, PlacesAre DEF NoticeInv
    <3> QED BY <1>1, <1>3, <2>2, <3>2, HeardOnTheWay
  <2>4. CASE run \notin N!Words
    <3>1. noticeAt' = [noticeAt EXCEPT ![r] = "idle"]
      BY <1>8, <2>2, <2>4 DEF N!Judge, N!Leave, N!Go
    <3>2. noticeAt'[r] = "idle"
      BY <3>1, PlacesAre DEF NoticeInv
    <3> QED BY <1>1, <1>3, <2>2, <2>4, <3>2, HeardOnTheWay
  <2> QED BY <2>3, <2>4
<1> QED BY <1>5, <1>6, <1>7, <1>8

LEMMA HeardTells ==
    ASSUME NoticeInv, HeardInv, NEW r \in Callers, noticedCalmly', N!Skip(r) \/ N!Add(r)
    PROVE  HeardInv'
<1>1. /\ noticeAt[r] = "tell" /\ N!Moved(r) /\ noticeAt' = [noticeAt EXCEPT ![r] = "idle"]
      /\ told' = told + 1 /\ UNCHANGED run
  BY DEF N!Skip, N!Add, N!Leave, N!Go
<1>2. \A q \in Callers \ {r} : noticeAt'[q] = noticeAt[q]
  BY <1>1, PlacesAre DEF NoticeInv
<1>3. noticedCalmly /\ ByItself(r) /\ \A q \in Callers \ {r} : noticeAt'[q] = "idle"
  BY <1>1, <1>2, MovesAlone DEF N!Moved
<1>4. told = 0 /\ run \in N!Words
  BY <1>1, <1>3 DEF ByItself
<1>5. runNotices = {} /\ audited = {} /\ snapshots[r].record = run
  BY <1>1, <1>3, <1>4 DEF HeardInv, Heard
<1>6. Heard' = {run}
  <2>1. CASE N!Skip(r)
    BY <1>5, <2>1 DEF N!Skip, N!inbox, Heard
  <2>2. CASE N!Add(r)
    <3>1. PICK notice : notice = N!NoticeOf(r)
      OBVIOUS
    <3>2. notice.kind = run
      BY <1>5, <3>1 DEF N!NoticeOf
    <3>3. runNotices' = {notice} /\ audited' = {}
      BY <1>5, <2>2, <3>1 DEF N!Add
    <3> QED BY <3>2, <3>3 DEF Heard
  <2> QED BY <2>1, <2>2
<1>7. \A q \in Callers : noticeAt'[q] = "idle"
  BY <1>1, <1>3, PlacesAre DEF NoticeInv
<1>8. told' = 1 /\ run' = run
  BY <1>1, <1>4
<1> QED BY <1>4, <1>6, <1>7, <1>8 DEF HeardInv

LEMMA HeardOfSystem ==
    ASSUME NoticeInv, HeardInv, [Next]_vars
    PROVE  HeardInv'
<1>1. N!Next \/ UNCHANGED nVars
  BY DEF Next, vars
<1>2. ASSUME NEW r \in Callers, NEW op \in N!Ops, N!Begin(r, op)
      PROVE  HeardInv'
  <2>1. SUFFICES ASSUME noticedCalmly' PROVE HeardInv'
    BY DEF HeardInv
  <2>2. /\ noticeAt[r] = "idle" /\ N!Moved(r) /\ noticeAt' = [noticeAt EXCEPT ![r] = "put"]
        /\ UNCHANGED <<run, runNotices, snapshots, audited, told>>
    BY <1>2 DEF N!Begin, N!Go, N!inbox, N!history
  <2>3. noticeAt'[r] = "put" /\ \A q \in Callers \ {r} : noticeAt'[q] = "idle"
    BY <2>1, <2>2, PlacesAre DEF NoticeInv, N!Moved
  <2>4. noticedCalmly /\ Heard' = Heard /\ ~N!Quiet'
    BY <2>1, <2>2, <2>3 DEF N!Moved, Heard, N!Quiet
  <2> QED BY <2>2, <2>3, <2>4 DEF HeardInv
<1>3. ASSUME NEW r \in Callers, N!Move(r)
      PROVE  HeardInv'
  <2>1. CASE noticedCalmly'
    BY <1>3, <2>1, HeardMoves, HeardTells DEF N!Move
  <2> QED BY <2>1 DEF HeardInv
<1>4. ASSUME NEW r \in Callers, N!Die(r)
      PROVE  HeardInv'
  BY <1>4 DEF N!Die, HeardInv
<1>5. CASE N!Inbox
  <2>1. UNCHANGED <<run, noticeAt, moving, snapshots, audited, told, noticedCalmly>>
    BY <1>5, InboxIs
  <2>2. {m.kind : m \in runNotices'} = {n.kind : n \in runNotices}
    BY <1>5, InboxKinds
  <2>3. Heard' = Heard
    BY <2>1, <2>2 DEF Heard
  <2> QED BY <2>1, <2>3 DEF HeardInv, N!Quiet
<1>6. CASE UNCHANGED nVars
  <2>1. UNCHANGED <<run, runNotices, noticeAt, moving, snapshots, audited, told, noticedCalmly>>
    BY <1>6 DEF nVars
  <2> QED BY <2>1 DEF HeardInv, Heard, N!Quiet
<1> QED BY <1>1, <1>2, <1>3, <1>4, <1>5, <1>6 DEF N!Next

LEMMA HeardInit ==
    ASSUME N!Init
    PROVE  HeardInv
BY DEF N!Init, HeardInv, Heard, N!NoRun, N!Words

\* The invariant has what is promised of the notices.
LEMMA NoticesAreTrue ==
    ASSUME NoticeInv, HeardInv
    PROVE  N!WordIsTrue /\ N!EndIsAccountedFor
<1>1. ASSUME noticedCalmly, N!Quiet, run # N!NoRun
      PROVE  /\ record = [status |-> run, plan |-> TRUE] /\ (used <=> run \in N!Over) /\ told <= 1
             /\ Heard = {run} \cap N!Words
  <2>1. AtRest
    BY <1>1 DEF NoticeInv, CalmNotices, OneAtATime
  <2>2. record.status = run /\ record.plan /\ (used <=> run \in N!Over) /\ told <= 1
    BY <1>1, <2>1 DEF AtRest
  <2>3. record \in [status : N!States, plan : BOOLEAN] /\ told \in Nat
    BY DEF NoticeInv, NoticeTypes, N!TypeOK
  <2>4. record = [status |-> run, plan |-> TRUE]
    BY <2>2, <2>3
  <2>5. told = 0 \/ told = 1
    BY <2>2, <2>3
  <2>6. Heard = {run} \cap N!Words
    BY <1>1, <2>5 DEF HeardInv
  <2> QED BY <2>2, <2>4, <2>6
<1>2. N!EndIsAccountedFor
  BY <1>1 DEF N!EndIsAccountedFor, Heard
<1> QED BY <1>2 DEF NoticeInv, EndsAreWritten

\* No step takes the mark of a reading away.
LEMMA ReadingStays ==
    ASSUME NoticeInv, [Next]_vars, NEW n \in runNotices, NEW m \in runNotices', n.id = m.id, n.read # N!Unread
    PROVE  m.read = n.read
<1>1. N!Next \/ UNCHANGED nVars
  BY DEF Next, vars
<1>2. \A o \in runNotices : o.id = n.id => o = n
  BY DEF NoticeInv, NoticesAreApart
<1>3. CASE N!Inbox
  <2>1. PICK o \in runNotices : o.id = m.id /\ (o.read # 0 => m.read = o.read)
    BY <1>3, InboxIs
  <2> QED BY <1>2, <2>1 DEF N!Unread
<1>4. CASE runNotices' = runNotices
  BY <1>2, <1>4
<1>5. ASSUME NEW r \in Callers, N!Add(r)
      PROVE  m.read = n.read
  <2>1. m \in runNotices \/ m = N!NoticeOf(r)
    BY <1>5 DEF N!Add
  <2>2. N!NoticeOf(r).id = told + 1
    BY DEF N!NoticeOf
  <2>3. n.id # told + 1
    BY PlacesAre, <1>5 DEF NoticeInv, NoticesAreApart
  <2> QED BY <1>2, <2>1, <2>2, <2>3
<1>6. CASE \E r \in Callers, op \in N!Ops : N!Begin(r, op)
  <2>1. runNotices' = runNotices
    BY <1>6 DEF N!Begin, N!inbox
  <2> QED BY <1>4, <2>1
<1>7. ASSUME NEW r \in Callers, N!Move(r) \/ N!Die(r), ~ N!Add(r)
      PROVE  runNotices' = runNotices
  BY <1>7 DEF N!Move, N!Die, N!Put, N!Snapshot, N!Existing, N!Upsert, N!RecordUsage, N!Judge, N!Skip, N!inbox
<1>8. CASE UNCHANGED nVars
  BY <1>4, <1>8 DEF nVars
<1> QED BY <1>1, <1>3, <1>4, <1>5, <1>6, <1>7, <1>8 DEF N!Next

-----------------------------------------------------------------------------
(*                         Runs of other services                          *)

\* Typed, but for the bounds.
ExternalTypes ==
    /\ remote \in [Runs -> {"none", "running", "paused", "ended"}]
    /\ emitted \in [Runs -> Nat] /\ cursor \in [Runs -> Nat]
    /\ delivered \in [Runs -> Seq(Nat)] /\ answered \in [Runs -> SUBSET Y!Commands]
    /\ stage \in [Runs -> {"new", "answered", "known", "started", "failed"}]
    /\ adapterCrashes \in Nat

\* Who reads got what is before the cursor, counted from one, but for the event
\* that was made up.
ReadToCursor ==
    \A r \in Runs :
        /\ Len(delivered[r]) = cursor[r]
        /\ cursor[r] <= emitted[r] \/ cursor[r] = 1
        /\ \E start \in {0, 1} : \A n \in 1 .. Len(delivered[r]) : delivered[r][n] = IF n = 1 THEN start ELSE n

\* A start that is done is known, until a process restarts; only such runs are
\* commanded, and what is cancelled does not move again.
StartIsKnown ==
    \A r \in Runs :
        /\ stage[r] = "known" => r \in rememberedRuns
        /\ stage[r] = "started" /\ adapterCrashes = 0 => r \in rememberedRuns
        /\ r \in rows <=> stage[r] = "started"
        /\ answered[r] # {} => r \in rows
        /\ "cancel" \in answered[r] => remote[r] = "ended"

ExternalInv == ExternalTypes /\ ReadToCursor /\ StartIsKnown

LEMMA StartKeeps ==
    ASSUME ExternalInv, NEW r \in Runs, Y!Post(r) \/ Y!Remember(r) \/ Y!CreateRow(r)
    PROVE  ExternalInv'
<1>1. UNCHANGED <<emitted, cursor, delivered, adapterCrashes, answered>>
  BY DEF Y!Post, Y!Remember, Y!CreateRow, Y!service, Y!reader
<1>2. CASE Y!Post(r)
  <2>1. /\ stage[r] = "new" /\ UNCHANGED <<rememberedRuns, rows>>
        /\ \E to \in {"answered", "failed"} : stage' = [stage EXCEPT ![r] = to]
        /\ remote' = remote \/ remote' = [remote EXCEPT ![r] = "running"]
    BY <1>2 DEF Y!Post, Y!Move
  <2>2. ExternalTypes'
    BY <1>1, <2>1 DEF ExternalInv, ExternalTypes
  <2>3. answered[r] = {}
    BY <2>1 DEF ExternalInv, StartIsKnown
  <2>4. StartIsKnown'
    BY <1>1, <2>1, <2>3 DEF ExternalInv, ExternalTypes, StartIsKnown
  <2> QED BY <1>1, <2>2, <2>4 DEF ExternalInv, ReadToCursor
<1>3. CASE Y!Remember(r)
  <2>1. /\ stage[r] = "answered" /\ UNCHANGED <<remote, rows>> /\ rememberedRuns' = rememberedRuns \cup {r}
        /\ stage' = [stage EXCEPT ![r] = "known"]
    BY <1>3 DEF Y!Remember, Y!Move, Y!service
  <2>2. ExternalTypes' /\ StartIsKnown'
    BY <1>1, <2>1 DEF ExternalInv, ExternalTypes, StartIsKnown
  <2> QED BY <1>1, <2>2 DEF ExternalInv, ReadToCursor
<1>4. CASE Y!CreateRow(r)
  <2>1. /\ stage[r] = "known" /\ UNCHANGED <<remote, rememberedRuns>>
        /\ \/ rows' = rows \cup {r} /\ stage' = [stage EXCEPT ![r] = "started"]
           \/ rows' = rows /\ stage' = [stage EXCEPT ![r] = "failed"]
    BY <1>4 DEF Y!CreateRow, Y!Move, Y!service
  <2>2. ExternalTypes' /\ StartIsKnown'
    BY <1>1, <2>1 DEF ExternalInv, ExternalTypes, StartIsKnown
  <2> QED BY <1>1, <2>2 DEF ExternalInv, ReadToCursor
<1> QED BY <1>2, <1>3, <1>4

LEMMA CommandKeeps ==
    ASSUME ExternalInv, NEW r \in Runs, Y!Command(r)
    PROVE  ExternalInv'
<1>1. UNCHANGED <<emitted, cursor, delivered, adapterCrashes, stage, rememberedRuns, rows>> /\ r \in rows
  BY DEF Y!Command, Y!Reachable, Y!reader
<1>2. PICK c \in Y!Commands, done \in BOOLEAN, heard \in BOOLEAN :
        /\ heard => done
        /\ remote' = [remote EXCEPT ![r] = IF done THEN Y!After(remote[r], c) ELSE remote[r]]
        /\ answered' = [answered EXCEPT ![r] = IF heard THEN answered[r] \cup {c} ELSE answered[r]]
  BY DEF Y!Command
<1>3. /\ Y!After(remote[r], c) \in {"running", "paused", "ended"}
      /\ remote[r] = "ended" \/ c = "cancel" => Y!After(remote[r], c) = "ended"
  <2>1. c \in {"pause", "resume", "cancel"}
    BY DEF Y!Commands
  <2>2. CASE c = "pause"
    BY <2>2 DEF Y!After
  <2>3. CASE c = "resume"
    BY <2>3 DEF Y!After
  <2>4. CASE c = "cancel"
    BY <2>4 DEF Y!After
  <2> QED BY <2>1, <2>2, <2>3, <2>4
<1>4. ExternalTypes'
  BY <1>1, <1>2, <1>3 DEF ExternalInv, ExternalTypes
<1>5. "cancel" \in answered'[r] => remote'[r] = "ended"
  BY <1>2, <1>3 DEF ExternalInv, ExternalTypes, StartIsKnown
<1>6. StartIsKnown'
  BY <1>1, <1>2, <1>5 DEF ExternalInv, ExternalTypes, StartIsKnown
<1> QED BY <1>1, <1>4, <1>6 DEF ExternalInv, ReadToCursor

\* Events appended are read after those that were there.
LEMMA JoinIs ==
    ASSUME NEW S, NEW some \in Seq(S), NEW more \in Seq(S), NEW all, all = some \o more
    PROVE  /\ all \in Seq(S) /\ Len(all) = Len(some) + Len(more) /\ DOMAIN all = 1 .. Len(some) + Len(more)
           /\ \A n \in 1 .. Len(some) : all[n] = some[n]
           /\ \A n \in 1 .. Len(more) : all[n + Len(some)] = more[n]
OBVIOUS

LEMMA StreamEventsKeeps ==
    ASSUME ExternalInv, NEW r \in Runs, Y!StreamEvents(r)
    PROVE  ExternalInv'
<1>1. UNCHANGED <<remote, emitted, rememberedRuns, rows, stage, adapterCrashes, answered>>
  BY DEF Y!StreamEvents, Y!service
<1>2. PICK events, old, low : events = Y!Numbered(r) /\ old = delivered[r] /\ low = cursor[r]
  OBVIOUS
<1>3. /\ Len(events) > low /\ cursor' = [cursor EXCEPT ![r] = Len(events)]
      /\ delivered' = [delivered EXCEPT ![r] = old \o SubSeq(events, low + 1, Len(events))]
  BY <1>2 DEF Y!StreamEvents
<1>4. /\ old \in Seq(Nat) /\ Len(old) = low /\ low \in Nat /\ emitted[r] \in Nat
      /\ low <= emitted[r] \/ low = 1
  BY <1>2 DEF ExternalInv, ExternalTypes, ReadToCursor
<1>5. PICK start \in {0, 1} : \A n \in 1 .. low : old[n] = IF n = 1 THEN start ELSE n
  BY <1>2, <1>4 DEF ExternalInv, ReadToCursor
<1>6. /\ events \in Seq(Nat) /\ Len(events) \in Nat /\ (Len(events) <= emitted[r] \/ Len(events) = 1)
      /\ \E begin \in {0, 1} : \A n \in 1 .. Len(events) : events[n] = IF n = 1 THEN begin ELSE n
  <2>1. CASE emitted[r] = 0
    <3>1. events = <<0>>
      BY <1>2, <2>1 DEF Y!Numbered
    <3> QED BY <3>1
  <2>2. CASE emitted[r] # 0
    <3>1. events = [n \in 1 .. emitted[r] |-> n]
      BY <1>2, <2>2 DEF Y!Numbered
    <3>2. events \in Seq(Nat) /\ Len(events) = emitted[r] /\ \A n \in 1 .. Len(events) : events[n] = n
      BY <1>4, <3>1
    <3>3. \A n \in 1 .. Len(events) : events[n] = IF n = 1 THEN 1 ELSE n
      BY <3>2
    <3> QED BY <1>4, <3>2, <3>3
  <2> QED BY <2>1, <2>2
<1>7. PICK more : more = SubSeq(events, low + 1, Len(events))
  OBVIOUS
<1>8. /\ more \in Seq(Nat) /\ Len(more) + low = Len(events) /\ Len(more) \in Nat
      /\ \A n \in 1 .. Len(more) : more[n] = events[n + low]
  <2>1. PICK m : m = low + 1 /\ m \in Nat \ {0}
    BY <1>4
  <2>2. SubSeq(events, m, Len(events)) \in Seq(Nat)
    BY <1>6, <2>1
  <2>3. Len(SubSeq(events, m, Len(events))) = Len(events) - m + 1
    BY <1>3, <1>4, <1>6, <2>1
  <2>4. \A n \in 1 .. Len(SubSeq(events, m, Len(events))) :
            SubSeq(events, m, Len(events))[n] = events[n + m - 1]
    BY <1>6, <2>1
  <2>5. /\ more \in Seq(Nat) /\ Len(more) = Len(events) - m + 1
        /\ \A n \in 1 .. Len(more) : more[n] = events[n + m - 1]
    BY <1>7, <2>1, <2>2, <2>3, <2>4
  <2>6. \A n \in 1 .. Len(more) : n + m - 1 = n + low
    BY <1>4, <2>1
  <2> QED BY <1>3, <1>4, <1>6, <2>1, <2>5, <2>6
<1>9. PICK all : all = old \o more
  OBVIOUS
<1>10. /\ all \in Seq(Nat) /\ Len(all) = Len(events)
       /\ \A n \in 1 .. low : all[n] = old[n]
       /\ \A n \in 1 .. Len(more) : all[n + low] = more[n]
  <2>1. /\ all \in Seq(Nat) /\ Len(all) = Len(old) + Len(more)
        /\ \A n \in 1 .. Len(old) : all[n] = old[n]
        /\ \A n \in 1 .. Len(more) : all[n + Len(old)] = more[n]
    <3>1. PICK S : S = Nat /\ old \in Seq(S) /\ more \in Seq(S)
      BY <1>4, <1>8
    <3>2. /\ all \in Seq(S) /\ Len(all) = Len(old) + Len(more)
          /\ \A n \in 1 .. Len(old) : all[n] = old[n]
          /\ \A n \in 1 .. Len(more) : all[n + Len(old)] = more[n]
      <4>1. old \in Seq(S) /\ more \in Seq(S)
        BY <3>1
      <4> QED BY ONLY <1>9, <4>1, JoinIs
    <3> QED BY <3>1, <3>2
  <2>2. Len(old) + Len(more) = Len(events)
    BY <1>4, <1>6, <1>8
  <2> QED BY <1>4, <2>1, <2>2
<1>11. \E begin \in {0, 1} : \A n \in 1 .. Len(all) : all[n] = IF n = 1 THEN begin ELSE n
  <2>1. PICK begin \in {0, 1} : \A n \in 1 .. Len(events) : events[n] = IF n = 1 THEN begin ELSE n
    BY <1>6
  <2>2. ASSUME NEW n \in 1 .. Len(all), n > low
        PROVE  all[n] = IF n = 1 THEN begin ELSE n
    <3> DEFINE o == n - low
    <3>1. o \in 1 .. Len(more) /\ o + low = n
      BY <1>4, <1>8, <1>10, <2>2
    <3>2. all[n] = events[n]
      BY <1>8, <1>10, <3>1
    <3> QED BY <1>10, <2>1, <3>2
  <2>3. CASE low = 0
    BY <1>10, <2>1, <2>2, <2>3
  <2>4. CASE low # 0
    <3>1. \A n \in 1 .. low : all[n] = IF n = 1 THEN start ELSE n
      BY <1>5, <1>10
    <3>2. ASSUME NEW n \in 1 .. Len(all), n > low
          PROVE  all[n] = IF n = 1 THEN start ELSE n
      BY <1>4, <2>2, <2>4, <3>2
    <3>3. \A n \in 1 .. Len(all) : n \in 1 .. low \/ n > low
      BY <1>4
    <3> QED BY <3>1, <3>2, <3>3
  <2> QED BY <2>3, <2>4
<1>12. ExternalTypes'
  BY <1>1, <1>3, <1>6, <1>7, <1>9, <1>10 DEF ExternalInv, ExternalTypes
<1>13. delivered'[r] = all /\ cursor'[r] = Len(events) /\ \A q \in Runs \ {r} :
            delivered'[q] = delivered[q] /\ cursor'[q] = cursor[q]
  BY <1>3, <1>7, <1>9 DEF ExternalInv, ExternalTypes
<1>14. ReadToCursor'
  <2> SUFFICES ASSUME NEW q \in Runs
               PROVE  /\ Len(delivered'[q]) = cursor'[q]
                      /\ cursor'[q] <= emitted'[q] \/ cursor'[q] = 1
                      /\ \E begin \in {0, 1} : \A n \in 1 .. Len(delivered'[q]) :
                            delivered'[q][n] = IF n = 1 THEN begin ELSE n
    BY DEF ReadToCursor
  <2>1. CASE q = r
    BY <1>1, <1>6, <1>10, <1>11, <1>13, <2>1
  <2>2. CASE q # r
    BY <1>1, <1>13, <2>2 DEF ExternalInv, ReadToCursor
  <2> QED BY <2>1, <2>2
<1>15. StartIsKnown'
  BY <1>1 DEF ExternalInv, StartIsKnown
<1> QED BY <1>12, <1>14, <1>15 DEF ExternalInv

LEMMA EmitKeeps ==
    ASSUME ExternalInv, NEW r \in Runs, Y!Emit(r)
    PROVE  ExternalInv'
<1>1. /\ remote[r] = "running" /\ emitted' = [emitted EXCEPT ![r] = emitted[r] + 1]
      /\ \E to \in {"running", "ended"} : remote' = [remote EXCEPT ![r] = to]
      /\ UNCHANGED <<rememberedRuns, rows, stage, cursor, delivered, adapterCrashes, answered>>
  BY DEF Y!Emit, Y!reader
<1>2. ExternalTypes'
  BY <1>1 DEF ExternalInv, ExternalTypes
<1>3. StartIsKnown'
  BY <1>1 DEF ExternalInv, ExternalTypes, StartIsKnown
<1>4. \A q \in Runs : emitted[q] <= emitted'[q] /\ emitted[q] \in Nat /\ emitted'[q] \in Nat /\ cursor[q] \in Nat
  BY <1>1 DEF ExternalInv, ExternalTypes
<1>5. ReadToCursor'
  BY <1>1, <1>4 DEF ExternalInv, ReadToCursor
<1> QED BY <1>2, <1>3, <1>5 DEF ExternalInv

LEMMA CrashKeeps ==
    ASSUME ExternalInv, Y!Crash
    PROVE  ExternalInv'
<1>1. /\ adapterCrashes' = adapterCrashes + 1 /\ rememberedRuns' = {}
      /\ stage' = [r \in Runs |-> IF stage[r] \in {"answered", "known"} THEN "failed" ELSE stage[r]]
      /\ UNCHANGED <<remote, emitted, rows, cursor, delivered, answered>>
  BY DEF Y!Crash, Y!service, Y!reader
<1>2. ExternalTypes' /\ StartIsKnown'
  BY <1>1 DEF ExternalInv, ExternalTypes, StartIsKnown
<1> QED BY <1>1, <1>2 DEF ExternalInv, ReadToCursor

LEMMA ExternalRests ==
    ASSUME ExternalInv, UNCHANGED yVars
    PROVE  ExternalInv'
BY DEF yVars, ExternalInv, ExternalTypes, ReadToCursor, StartIsKnown

\* A step of another part leaves the other service alone.
LEMMA ExternalOfSystem ==
    ASSUME ExternalInv, [Next]_vars
    PROVE  ExternalInv'
<1>1. Y!Next \/ UNCHANGED yVars
  BY DEF Next, vars
<1> QED BY <1>1, StartKeeps, CommandKeeps, StreamEventsKeeps, EmitKeeps, CrashKeeps, ExternalRests DEF Y!Next, Y!Serve

LEMMA ExternalInit ==
    ASSUME Y!Init
    PROVE  ExternalInv
<1>1. /\ remote = [r \in Runs |-> "none"] /\ emitted = [r \in Runs |-> 0]
      /\ rows = {} /\ stage = [r \in Runs |-> "new"] /\ adapterCrashes = 0
      /\ cursor = [r \in Runs |-> 0] /\ delivered = [r \in Runs |-> <<>>] /\ answered = [r \in Runs |-> {}]
  BY DEF Y!Init
<1>2. ExternalTypes /\ StartIsKnown
  BY <1>1 DEF ExternalTypes, StartIsKnown
<1>3. ReadToCursor
  BY <1>1 DEF ReadToCursor
<1> QED BY <1>2, <1>3 DEF ExternalInv

\* The invariant has what is promised of runs of other services.
LEMMA ExternalIsReported ==
    ASSUME ExternalInv
    PROVE  Y!EventsAreInOrder /\ Y!RemoteIsHeld
<1>1. Y!RemoteIsHeld
  BY DEF ExternalInv, ExternalTypes, StartIsKnown, Y!RemoteIsHeld, Y!Reachable
<1>2. ASSUME NEW r \in Runs
      PROVE  \E start \in {0, 1} : delivered[r] = [n \in 1 .. Len(delivered[r]) |-> IF n = 1 THEN start ELSE n]
  <2>1. PICK some : some = delivered[r] /\ some \in Seq(Nat)
    BY DEF ExternalInv, ExternalTypes
  <2>2. PICK start \in {0, 1} :
          \A n \in 1 .. Len(delivered[r]) : delivered[r][n] = IF n = 1 THEN start ELSE n
    BY DEF ExternalInv, ReadToCursor
  <2>3. some = [n \in 1 .. Len(some) |-> IF n = 1 THEN start ELSE n]
    BY <2>1, <2>2
  <2> QED BY <2>1, <2>3
<1>3. Y!EventsAreInOrder
  BY <1>2 DEF Y!EventsAreInOrder
<1> QED BY <1>1, <1>3

-----------------------------------------------------------------------------
(*                          The probe of faults                            *)

Verdicts == {"ok", "alert", "skipped"}

ProbeTypes ==
    /\ B!TypeOK
    /\ system \in [B!All -> UNION {DOMAIN B!Check[s] : s \in B!All}]
    /\ checks \in Seq(Verdicts)
    /\ everFaulty \subseteq B!All /\ faulty \subseteq B!All

\* What is at fault now was so at some time, and what always was so is now.
FaultsAreNoted == B!Faulty(system) \subseteq everFaulty /\ faulty \subseteq B!Faulty(system)

\* Nobody is told before the report, and a complete one with an alert is told.
ReportedAtEnd ==
    /\ notified # "none" => B!Contains(checks, "alert")
    /\ probeAt = "probing" => notified = "none"
    /\ probeAt = "idle" /\ Len(checks) = Len(B!Signals) /\ B!Contains(checks, "alert") =>
        exitCode # 0 /\ (exitCode = 1 /\ setup.notify = "set" => notified # "none")

AlertsAreEarned ==
    /\ \A i \in DOMAIN checks : checks[i] = "alert" => B!Signals[i] \in everFaulty
    /\ \A i \in DOMAIN checks : B!Signals[i] \in faulty \cap readable => checks[i] = "alert"

ProbeInv == ProbeTypes /\ FaultsAreNoted /\ ReportedAtEnd /\ AlertsAreEarned

\* The nine signals, and their order.
LEMMA SignalsAre ==
    /\ Len(B!Signals) = 9 /\ DOMAIN B!Signals = 1 .. 9
    /\ \A i \in 1 .. 9 : B!Signals[i] \in B!All
    /\ B!All = {"beat", "worker", "app", "outbox", "letters", "audit", "disk", "connections", "memory"}
<1>1. Len(B!Signals) = 9 /\ DOMAIN B!Signals = 1 .. 9
  BY DEF B!Signals
<1>2. B!All = {B!Signals[i] : i \in 1 .. 9}
  BY <1>1 DEF B!All, B!ToSet
<1>3. B!All = {"beat", "worker", "app", "outbox", "letters", "audit", "disk", "connections", "memory"}
  <2>1. 1 .. 9 = {1, 2, 3, 4, 5, 6, 7, 8, 9}
    OBVIOUS
  <2> QED BY <1>2, <2>1 DEF B!Signals
<1> QED BY <1>1, <1>2, <1>3

\* A check alerts for a fault, and skips what it cannot judge.
LEMMA ChecksJudge ==
    ASSUME NEW s \in B!All, NEW r \in DOMAIN B!Check[s]
    PROVE  /\ B!Check[s][r] \in Verdicts
           /\ B!Check[s][r] = "alert" => r \in B!Faults[s]
           /\ r \in B!Faults[s] /\ B!Check[s][r] # "skipped" => B!Check[s][r] = "alert"
<1>1. CASE s = "beat"
  BY <1>1 DEF B!Check, B!Faults, B!CheckBeat, Verdicts
<1>2. CASE s = "worker"
  BY <1>2 DEF B!Check, B!Faults, B!CheckWorkerHealth, Verdicts
<1>3. CASE s = "app"
  BY <1>3 DEF B!Check, B!Faults, B!CheckAppHealth, Verdicts
<1>4. CASE s = "outbox"
  BY <1>4 DEF B!Check, B!Faults, B!CheckOutbox, Verdicts
<1>5. CASE s = "letters"
  BY <1>5 DEF B!Check, B!Faults, B!CheckDeadLetters, Verdicts
<1>6. CASE s = "audit"
  BY <1>6 DEF B!Check, B!Faults, B!CheckAudit, Verdicts
<1>7. CASE s = "disk"
  BY <1>7 DEF B!Check, B!Faults, B!CheckDisk, Verdicts
<1>8. CASE s = "connections"
  BY <1>8 DEF B!Check, B!Faults, B!CheckConnections, Verdicts
<1>9. CASE s = "memory"
  BY <1>9 DEF B!Check, B!Faults, B!CheckMemory, Verdicts
<1> QED BY <1>1, <1>2, <1>3, <1>4, <1>5, <1>6, <1>7, <1>8, <1>9, SignalsAre

LEMMA HealthyIsRead ==
    ASSUME NEW s \in B!All
    PROVE  B!Healthy[s] \in DOMAIN B!Check[s] /\ s \in DOMAIN B!Healthy
BY SignalsAre DEF B!Check, B!Healthy, B!CheckBeat, B!CheckWorkerHealth, B!CheckAppHealth, B!CheckOutbox,
   B!CheckDeadLetters, B!CheckAudit, B!CheckDisk, B!CheckConnections, B!CheckMemory

\* What may be at fault, and still counts as always so and always readable, is fewer.
LEMMA FewerFaultsKeep ==
    ASSUME ProbeInv, B!Rest, ProbeTypes', FaultsAreNoted',
           everFaulty \subseteq everFaulty', faulty' \subseteq faulty, readable' \subseteq readable
    PROVE  ProbeInv'
<1>1. AlertsAreEarned'
  BY DEF ProbeInv, AlertsAreEarned, B!Rest
<1>2. ReportedAtEnd'
  BY DEF ProbeInv, ReportedAtEnd, B!Rest, B!Contains
<1> QED BY <1>1, <1>2 DEF ProbeInv

LEMMA SystemChangeKeeps ==
    ASSUME ProbeInv, B!Rest, B!Note(system', docker', database'), docker' \in BOOLEAN, database' \in BOOLEAN,
           system' \in [B!All -> UNION {DOMAIN B!Check[s] : s \in B!All}],
           \A s \in B!All : system'[s] \in DOMAIN B!Check[s]
    PROVE  ProbeInv'
<1>1. /\ everFaulty' = everFaulty \cup B!Faulty(system') /\ faulty' = faulty \cap B!Faulty(system')
      /\ readable' \subseteq readable
  BY DEF B!Note
<1>2. FaultsAreNoted'
  BY <1>1 DEF FaultsAreNoted, B!Faulty
<1>3. ProbeTypes'
  BY <1>1 DEF ProbeInv, ProbeTypes, B!TypeOK, B!Rest, B!Faulty
<1> QED BY <1>1, <1>2, <1>3, FewerFaultsKeep

LEMMA ProbeStartKeeps ==
    ASSUME ProbeInv, NEW with \in B!Setups, B!Start(with)
    PROVE  ProbeInv'
<1>1. /\ checks' = <<>> /\ notified' = "none" /\ setup' = with
      /\ probeAt' \in {"idle", "probing"} /\ exitCode' \in 0 .. 2
      /\ everFaulty' = B!Faulty(system) /\ faulty' = B!Faulty(system) /\ UNCHANGED <<system, docker, database>>
  BY DEF B!Start
<1>2. ProbeTypes'
  BY <1>1, SignalsAre DEF ProbeInv, ProbeTypes, B!TypeOK, B!Faulty
<1>3. FaultsAreNoted'
  BY <1>1 DEF FaultsAreNoted, B!Faulty
<1>4. ReportedAtEnd' /\ AlertsAreEarned'
  BY <1>1, SignalsAre DEF ReportedAtEnd, AlertsAreEarned
<1> QED BY <1>2, <1>3, <1>4 DEF ProbeInv

LEMMA ProbeReadsKeeps ==
    ASSUME ProbeInv, B!Probe
    PROVE  ProbeInv'
<1> DEFINE n == Len(checks) + 1
           s == B!Signals[n]
<1>1. PICK verdict : /\ verdict = (IF B!Asked(s, docker, database) THEN B!Check[s][system[s]] ELSE "skipped")
                     /\ checks' = Append(checks, verdict)
  BY DEF B!Probe
<1>2. /\ probeAt = "probing" /\ Len(checks) < 9 /\ n \in 1 .. 9 /\ s \in B!All
      /\ readable' = readable \cap B!Readable(system, docker, database)
      /\ UNCHANGED <<system, docker, database, setup, probeAt, notified, exitCode, changes, everFaulty, faulty>>
  BY SignalsAre DEF B!Probe, ProbeInv, ProbeTypes
<1>3. /\ system[s] \in DOMAIN B!Check[s] /\ verdict \in Verdicts
      /\ verdict = "alert" => s \in B!Faulty(system)
      /\ s \in B!Faulty(system) \cap B!Readable(system, docker, database) => verdict = "alert"
  <2>1. system[s] \in DOMAIN B!Check[s]
    BY <1>2 DEF ProbeInv, ProbeTypes, B!TypeOK
  <2>2. /\ B!Check[s][system[s]] \in Verdicts
        /\ B!Check[s][system[s]] = "alert" => system[s] \in B!Faults[s]
        /\ system[s] \in B!Faults[s] /\ B!Check[s][system[s]] # "skipped" => B!Check[s][system[s]] = "alert"
    BY <1>2, <2>1, ChecksJudge
  <2> QED BY <1>1, <1>2, <2>1, <2>2 DEF Verdicts, B!Faulty, B!Readable
<1>4. /\ checks' \in Seq(Verdicts) /\ Len(checks') = n /\ DOMAIN checks' = 1 .. n /\ checks'[n] = verdict
      /\ \A i \in DOMAIN checks : checks'[i] = checks[i] /\ i \in 1 .. Len(checks)
  BY <1>1, <1>3 DEF ProbeInv, ProbeTypes
<1>5. ProbeTypes'
  BY <1>2, <1>4, SignalsAre DEF ProbeInv, ProbeTypes, B!TypeOK, Verdicts
<1>6. AlertsAreEarned'
  <2> SUFFICES ASSUME NEW i \in DOMAIN checks'
               PROVE  /\ checks'[i] = "alert" => B!Signals[i] \in everFaulty'
                      /\ B!Signals[i] \in faulty' \cap readable' => checks'[i] = "alert"
    BY DEF AlertsAreEarned
  <2>1. CASE i = n
    BY <1>2, <1>3, <1>4, <2>1 DEF ProbeInv, FaultsAreNoted
  <2>2. CASE i # n
    <3>1. i \in DOMAIN checks
      BY <1>4, <2>2 DEF ProbeInv, ProbeTypes
    <3> QED BY <1>2, <1>4, <3>1 DEF ProbeInv, AlertsAreEarned
  <2> QED BY <2>1, <2>2
<1>7. FaultsAreNoted'
  BY <1>2 DEF ProbeInv, FaultsAreNoted, B!Faulty
<1>8. ReportedAtEnd'
  BY <1>2 DEF ProbeInv, ReportedAtEnd
<1> QED BY <1>5, <1>6, <1>7, <1>8 DEF ProbeInv

LEMMA ProbeEndsKeeps ==
    ASSUME ProbeInv, B!BadHook \/ B!Finish
    PROVE  ProbeInv'
<1>1. UNCHANGED <<system, docker, database, setup, checks, changes, everFaulty, faulty, readable>>
      /\ probeAt = "probing" /\ probeAt' = "idle" /\ Len(checks) = Len(B!Signals)
  BY DEF B!BadHook, B!Finish, B!history
<1>2. /\ notified' \in {"none", "sent", "failed"} /\ exitCode' \in 0 .. 2
      /\ notified' # "none" => B!Contains(checks, "alert")
      /\ B!Contains(checks, "alert") =>
            exitCode' # 0 /\ (exitCode' = 1 /\ setup.notify = "set" => notified' # "none")
  <2>1. notified = "none"
    BY <1>1 DEF ProbeInv, ReportedAtEnd
  <2>2. CASE B!BadHook
    BY <2>1, <2>2 DEF B!BadHook
  <2>3. CASE B!Finish
    <3>1. CASE B!Contains(checks, "alert")
      <4>1. B!Status(checks) = "alert"
        BY <3>1 DEF B!Status
      <4>2. exitCode' = 1 /\ (setup.notify = "set" => notified' \in {"sent", "failed"})
            /\ (setup.notify # "set" => notified' = notified)
        BY <2>3, <4>1 DEF B!Finish, B!Notify
      <4> QED BY <2>1, <3>1, <4>2
    <3>2. CASE ~ B!Contains(checks, "alert")
      <4>1. B!Status(checks) # "alert"
        BY <3>2 DEF B!Status
      <4>2. notified' = notified /\ exitCode' = 0
        BY <2>3, <4>1 DEF B!Finish, B!Notify
      <4> QED BY <2>1, <3>2, <4>2
    <3> QED BY <3>1, <3>2
  <2> QED BY <2>2, <2>3
<1>3. ProbeTypes'
  BY <1>1, <1>2 DEF ProbeInv, ProbeTypes, B!TypeOK
<1>4. FaultsAreNoted' /\ AlertsAreEarned'
  BY <1>1 DEF ProbeInv, FaultsAreNoted, B!Faulty, AlertsAreEarned
<1>5. ReportedAtEnd'
  BY <1>1, <1>2 DEF ReportedAtEnd, B!Contains
<1> QED BY <1>3, <1>4, <1>5 DEF ProbeInv

LEMMA SignalChangeKeeps ==
    ASSUME ProbeInv, NEW s \in B!All, B!Change(s)
    PROVE  ProbeInv'
<1>1. PICK r \in DOMAIN B!Check[s] : system' = [system EXCEPT ![s] = r]
  BY DEF B!Change
<1>2. B!Note(system', docker', database') /\ UNCHANGED <<docker, database>> /\ B!Rest
  BY DEF B!Change, B!Note
<1>3. /\ system' \in [B!All -> UNION {DOMAIN B!Check[x] : x \in B!All}]
      /\ \A x \in B!All : system'[x] \in DOMAIN B!Check[x]
  BY <1>1 DEF ProbeInv, ProbeTypes, B!TypeOK
<1>4. docker' \in BOOLEAN /\ database' \in BOOLEAN
  BY <1>2 DEF ProbeInv, ProbeTypes, B!TypeOK
<1> QED BY <1>2, <1>3, <1>4, SystemChangeKeeps

LEMMA ReachKeeps ==
    ASSUME ProbeInv, B!Reach
    PROVE  ProbeInv'
<1>1. /\ B!Note(system', docker', database') /\ B!Rest /\ system' = system
      /\ docker' \in BOOLEAN /\ database' \in BOOLEAN
  BY DEF B!Reach, B!Note
<1> QED BY <1>1, SystemChangeKeeps DEF ProbeInv, ProbeTypes, B!TypeOK

LEMMA ProbeRests ==
    ASSUME ProbeInv, UNCHANGED bVars
    PROVE  ProbeInv'
<1>1. ProbeTypes'
  BY DEF bVars, ProbeInv, ProbeTypes, B!TypeOK
<1>2. FaultsAreNoted' /\ ReportedAtEnd' /\ AlertsAreEarned'
  BY DEF bVars, ProbeInv, FaultsAreNoted, ReportedAtEnd, AlertsAreEarned, B!Contains, B!Faulty
<1> QED BY <1>1, <1>2 DEF ProbeInv

\* A step of another part leaves the probe alone.
LEMMA ProbeOfSystem ==
    ASSUME ProbeInv, [Next]_vars
    PROVE  ProbeInv'
<1>1. B!Next \/ UNCHANGED bVars
  BY DEF Next, vars
<1> QED BY <1>1, ProbeRests, ProbeStartKeeps, ProbeReadsKeeps, ProbeEndsKeeps, SignalChangeKeeps, ReachKeeps
        DEF B!Next

LEMMA ProbeInit ==
    ASSUME B!Init
    PROVE  ProbeInv
<1>1. /\ system = B!Healthy /\ docker = TRUE /\ database = TRUE /\ setup = B!Usual
      /\ probeAt = "idle" /\ checks = <<>> /\ notified = "none" /\ exitCode = 0
      /\ everFaulty = {} /\ faulty = {}
  BY DEF B!Init
<1>2. B!Usual \in B!Setups
  BY DEF B!Usual, B!Setups
<1>3. DOMAIN B!Healthy = B!All
  BY SignalsAre DEF B!Healthy
<1>4. /\ B!Healthy \in [B!All -> UNION {DOMAIN B!Check[s] : s \in B!All}]
      /\ \A s \in B!All : B!Healthy[s] \in DOMAIN B!Check[s]
  BY <1>3, HealthyIsRead DEF B!Healthy
<1>5. ProbeTypes
  BY <1>1, <1>2, <1>4, SignalsAre DEF ProbeTypes, B!TypeOK
<1>6. B!Faulty(system) = {}
  <2>1. \A s \in B!All : B!Healthy[s] \notin B!Faults[s]
    BY SignalsAre DEF B!Healthy, B!Faults
  <2> QED BY <1>1, <2>1 DEF B!Faulty
<1>7. FaultsAreNoted /\ ReportedAtEnd /\ AlertsAreEarned
  BY <1>1, <1>6, SignalsAre DEF FaultsAreNoted, ReportedAtEnd, AlertsAreEarned
<1> QED BY <1>5, <1>7 DEF ProbeInv

\* The invariant has what is promised of the probe.
LEMMA ProbeTells ==
    ASSUME ProbeInv
    PROVE  B!ProbeTellsTruth
<1>1. ASSUME Len(checks) = Len(B!Signals), faulty \cap readable # {}
      PROVE  B!Contains(checks, "alert")
  <2>1. PICK s \in B!All : s \in faulty \cap readable
    BY <1>1 DEF ProbeInv, ProbeTypes
  <2>2. PICK i \in 1 .. 9 : B!Signals[i] = s
    BY SignalsAre DEF B!All, B!ToSet
  <2>3. DOMAIN checks = 1 .. 9 /\ Len(checks) = 9
    BY <1>1, SignalsAre DEF ProbeInv, ProbeTypes
  <2>4. checks[i] = "alert"
    BY <2>1, <2>2, <2>3 DEF ProbeInv, AlertsAreEarned
  <2> QED BY <2>3, <2>4 DEF B!Contains
<1> QED BY <1>1 DEF ProbeInv, AlertsAreEarned, ReportedAtEnd, B!ProbeTellsTruth

-----------------------------------------------------------------------------
(*                     The import of a knowledge base                      *)

Registering == {"register", "insert", "record"}

ImportTypes ==
    /\ K!TypeOK
    /\ importAt = "fetch" => page <= PageLimit
    /\ importAt = "idle" => /\ page = 1 /\ collected = 0 /\ entries = <<>> /\ report = K!NoReport
                            /\ listed = {} /\ written = {}
    /\ importAt = "done" => entries = <<>>
    /\ importAt \in Registering => entries # <<>> /\ how.apply /\ K!Entry \notin TooLong

\* What was there all the time is listed, or comes on a later page: others may only
\* push it back.
Ahead(d) == \E n \in DOMAIN upstream : n > (page - 1) * RowsPerPage /\ upstream[n] = d
PagesAreRead ==
    /\ collected <= (page - 1) * RowsPerPage
    /\ importAt = "fetch" /\ ~shrunk => \A d \in stayed : d \in listed \/ Ahead(d)
    /\ K!ListIsWhole

\* Every entry waits or is told of.
EntriesAreTreated ==
    /\ listed = K!ToSet(entries) \cup ((report.created \cup report.skipped \cup report.rejected) \ {Unnamed})
    /\ report.rejected \subseteq TooLong \cup {Unnamed}
    /\ \A d \in report.skipped : K!Registered(d)
    /\ how.apply => \A d \in report.created : K!Registered(d)

\* What this run wrote is told of as created, or about to be.
WrittenIsTold ==
    /\ written # {} => how.apply
    /\ importAt = "record" => K!Registered(K!Entry)
    /\ importAt # "failed" =>
        \A d \in written : d \in report.created \/ (importAt = "record" /\ d = K!Entry)
    /\ written \cap TooLong = {}
    /\ K!RegistrationIsTold

ImportInv == ImportTypes /\ PagesAreRead /\ EntriesAreTreated /\ WrittenIsTold

\* The rows with an id, up to each: the function that Named takes the end of.
NamedUpTo(list, kept, m) ==
    kept = [n \in 0 .. m |->
                IF n = 0 THEN <<>>
                ELSE IF list[n] = Unnamed THEN kept[n - 1] ELSE Append(kept[n - 1], list[n])]

\* The recursion has a value for every list.
LEMMA NamedExists ==
    ASSUME NEW list, NEW m \in Nat
    PROVE  \E kept : NamedUpTo(list, kept, m)
<1> DEFINE Bad == {n \in Nat : ~ \E kept : NamedUpTo(list, kept, n)}
<1>1. ASSUME Bad # {}
      PROVE  FALSE
  <2>1. PICK n \in Bad : \A o \in Bad : n <= o
    BY <1>1, Smallest
  <2>2. CASE n = 0
    <3> DEFINE kept == [o \in 0 .. 0 |-> <<>>]
    <3>1. NamedUpTo(list, kept, 0)
      BY DEF NamedUpTo
    <3> QED BY <2>2, <3>1
  <2>3. CASE n # 0
    <3>1. n \in Nat /\ n - 1 \in Nat /\ n - 1 \notin Bad
      BY <2>1, <2>3
    <3>2. PICK kept : NamedUpTo(list, kept, n - 1)
      BY <3>1
    <3> DEFINE next(o) == IF o = 0 THEN <<>>
                          ELSE IF list[o] = Unnamed THEN kept[o - 1] ELSE Append(kept[o - 1], list[o])
               more == [o \in 0 .. n |-> next(o)]
    <3>3. \A o \in 0 .. n - 1 : kept[o] = next(o)
      BY <3>2 DEF NamedUpTo
    <3>4. \A o \in 0 .. n - 1 : more[o] = kept[o]
      BY <3>1, <3>3
    <3>5. \A o \in 0 .. n : o # 0 => o - 1 \in 0 .. n - 1
      BY <3>1
    <3>6. NamedUpTo(list, more, n)
      BY <3>4, <3>5 DEF NamedUpTo
    <3> QED BY <2>1, <3>6
  <2> QED BY <2>2, <2>3
<1> QED BY <1>1

\* Of the first rows, those with an id.
KeptOf(list, some, n) ==
    /\ some \in Seq(Documents)
    /\ \A d : d \in K!ToSet(some) <=> d # Unnamed /\ \E o \in 1 .. n : list[o] = d

LEMMA KeptGrows ==
    ASSUME NEW list \in Seq(K!Rows), NEW kept, NamedUpTo(list, kept, Len(list)),
           NEW n \in 1 .. Len(list), KeptOf(list, kept[n - 1], n - 1)
    PROVE  KeptOf(list, kept[n], n)
<1>1. kept[n] = IF list[n] = Unnamed THEN kept[n - 1] ELSE Append(kept[n - 1], list[n])
  <2>1. n \in 0 .. Len(list) /\ n # 0
    OBVIOUS
  <2> QED BY <2>1 DEF NamedUpTo
<1>2. list[n] \in K!Rows /\ \A o \in 1 .. n : o = n \/ o \in 1 .. n - 1
  OBVIOUS
<1>3. \A d : (\E o \in 1 .. n : list[o] = d) <=> d = list[n] \/ \E o \in 1 .. n - 1 : list[o] = d
  BY <1>2
<1>4. CASE list[n] = Unnamed
  BY <1>1, <1>3, <1>4 DEF KeptOf
<1>5. CASE list[n] # Unnamed
  <2>1. list[n] \in Documents
    BY <1>2, <1>5 DEF K!Rows
  <2>2. PICK old : old = kept[n - 1] /\ old \in Seq(Documents)
    BY DEF KeptOf
  <2>3. PICK new : new = Append(old, list[n])
    OBVIOUS
  <2>4. /\ new \in Seq(Documents) /\ DOMAIN new = 1 .. Len(old) + 1 /\ DOMAIN old = 1 .. Len(old)
        /\ new[Len(old) + 1] = list[n] /\ \A o \in 1 .. Len(old) : new[o] = old[o]
    BY <2>1, <2>2, <2>3
  <2>5. K!ToSet(new) = K!ToSet(old) \cup {list[n]}
    <3>1. K!ToSet(new) = {new[o] : o \in 1 .. Len(old) + 1} /\ K!ToSet(old) = {old[o] : o \in 1 .. Len(old)}
      BY <2>4 DEF K!ToSet
    <3>2. Len(old) \in Nat
      BY <2>2
    <3>3. \A o \in 1 .. Len(old) + 1 : o \in 1 .. Len(old) \/ o = Len(old) + 1
      BY <3>2
    <3>4. \A o \in 1 .. Len(old) : o \in 1 .. Len(old) + 1
      BY <3>2
    <3>5. Len(old) + 1 \in 1 .. Len(old) + 1
      BY <3>2
    <3>6. {new[o] : o \in 1 .. Len(old) + 1} \subseteq {old[o] : o \in 1 .. Len(old)} \cup {list[n]}
      BY ONLY <2>4, <3>3
    <3>7. {old[o] : o \in 1 .. Len(old)} \cup {list[n]} \subseteq {new[o] : o \in 1 .. Len(old) + 1}
      BY ONLY <2>4, <3>4, <3>5
    <3> QED BY <3>1, <3>6, <3>7
  <2> QED BY <1>1, <1>3, <1>5, <2>2, <2>3, <2>4, <2>5 DEF KeptOf
<1> QED BY <1>4, <1>5

\* Rows without an id are dropped, the others kept.
LEMMA NamedIs ==
    ASSUME NEW list \in Seq(K!Rows)
    PROVE  /\ K!Named(list) \in Seq(Documents)
           /\ K!ToSet(K!Named(list)) = K!ToSet(list) \ {Unnamed}
           /\ K!ToSet(list) \subseteq K!Rows
<1>1. PICK kept : /\ NamedUpTo(list, kept, Len(list))
                  /\ K!Named(list) = kept[Len(list)]
  <2>1. \E kept : NamedUpTo(list, kept, Len(list))
    BY NamedExists
  <2> DEFINE that == CHOOSE kept : NamedUpTo(list, kept, Len(list))
  <2>2. NamedUpTo(list, that, Len(list))
    BY <2>1
  <2>3. K!Named(list) = that[Len(list)]
    BY DEF K!Named, NamedUpTo
  <2> QED BY <2>2, <2>3
<1> DEFINE Bad == {n \in Nat : n <= Len(list) /\ ~ KeptOf(list, kept[n], n)}
<1>2. ASSUME Bad # {}
      PROVE  FALSE
  <2>1. PICK n \in Bad : \A o \in Bad : n <= o
    BY <1>2, Smallest
  <2> HIDE DEF Bad
  <2>2. n \in 0 .. Len(list) /\ ~ KeptOf(list, kept[n], n)
    BY <2>1 DEF Bad
  <2>3. CASE n = 0
    <3>1. kept[0] = <<>>
      BY <1>1 DEF NamedUpTo
    <3>2. KeptOf(list, kept[0], 0)
      BY <3>1 DEF KeptOf, K!ToSet
    <3> QED BY <2>2, <2>3, <3>2
  <2>4. CASE n # 0
    <3>1. n \in 1 .. Len(list) /\ n - 1 \in Nat /\ n - 1 <= Len(list) /\ n - 1 \notin Bad
      BY <2>1, <2>2, <2>4 DEF Bad
    <3>2. KeptOf(list, kept[n - 1], n - 1)
      BY <3>1 DEF Bad
    <3> QED BY <1>1, <2>2, <3>1, <3>2, KeptGrows
  <2> QED BY <2>3, <2>4
<1>3. KeptOf(list, kept[Len(list)], Len(list))
  BY <1>2
<1>4. K!ToSet(list) = {list[o] : o \in 1 .. Len(list)}
  BY DEF K!ToSet
<1> QED BY <1>1, <1>3, <1>4 DEF KeptOf

\* What a step that only registers, or moves on, leaves alone.
LEMMA ListedKeeps ==
    ASSUME ImportInv, UNCHANGED <<upstream, how, page, collected, listed, stayed, shrunk>>,
           importAt \in Registering \cup {"entry"},
           importAt' \in Registering \cup {"entry", "done", "failed"}
    PROVE  PagesAreRead'
BY DEF ImportInv, PagesAreRead, Ahead, K!ListIsWhole, Registering

LEMMA UploadKeeps ==
    ASSUME ImportInv, NEW d \in Documents, K!Upload(d)
    PROVE  ImportInv'
<1>1. /\ upstream' = <<d>> \o upstream /\ uploads' \in 0 .. MaxUploads
      /\ UNCHANGED <<registry, importTrail, written, untold, page, collected, listed, stayed, shrunk, how, importAt,
                     entries, report, imports>>
  BY ImportAssumption DEF K!Upload, K!Change, K!registration, K!reading, ImportInv, ImportTypes, K!TypeOK
<1>2. /\ upstream \in Seq(K!Rows) /\ upstream' \in Seq(K!Rows) /\ Len(upstream') = Len(upstream) + 1
      /\ \A n \in 1 .. Len(upstream) : upstream'[n + 1] = upstream[n]
  BY <1>1 DEF ImportInv, ImportTypes, K!TypeOK, K!Rows
<1>3. ImportTypes'
  BY <1>1, <1>2 DEF ImportInv, ImportTypes, K!TypeOK, K!Entry, K!NoReport
<1>4. ASSUME NEW e, Ahead(e)
      PROVE  Ahead(e)'
  <2>1. PICK n \in 1 .. Len(upstream) : n > (page - 1) * RowsPerPage /\ upstream[n] = e
    BY <1>2, <1>4 DEF Ahead
  <2>2. (page - 1) * RowsPerPage \in Int /\ n \in Nat /\ n + 1 \in 1 .. Len(upstream')
    BY <1>2, ImportAssumption DEF ImportInv, ImportTypes, K!TypeOK
  <2>3. n + 1 > (page - 1) * RowsPerPage
    BY <2>1, <2>2
  <2>4. n + 1 \in DOMAIN upstream' /\ upstream'[n + 1] = e /\ page' = page
    BY <1>1, <1>2, <2>1, <2>2
  <2> QED BY <2>3, <2>4 DEF Ahead
<1>5. PagesAreRead'
  BY <1>1, <1>4 DEF ImportInv, PagesAreRead, K!ListIsWhole
<1>6. EntriesAreTreated' /\ WrittenIsTold'
  BY <1>1 DEF ImportInv, EntriesAreTreated, WrittenIsTold, K!Registered, K!Entry, K!RegistrationIsTold, K!ToSet
<1> QED BY <1>3, <1>5, <1>6 DEF ImportInv

LEMMA WithdrawKeeps ==
    ASSUME ImportInv, NEW d \in Documents, K!Withdraw(d)
    PROVE  ImportInv'
<1>1. PICK n \in DOMAIN upstream : upstream' = K!RemoveAt(upstream, n)
  BY DEF K!Withdraw
<1>2. /\ stayed' = stayed \ {d} /\ shrunk' = (importAt = "fetch" \/ shrunk) /\ uploads' \in 0 .. MaxUploads
      /\ UNCHANGED <<registry, importTrail, written, untold, page, collected, listed, how, importAt, entries, report,
                     imports>>
  BY ImportAssumption DEF K!Withdraw, K!Change, K!registration, ImportInv, ImportTypes, K!TypeOK
<1>3. upstream' \in Seq(K!Rows)
  <2>1. upstream \in Seq(K!Rows) /\ n \in 1 .. Len(upstream) /\ n - 1 \in Nat /\ n - 1 <= Len(upstream)
    BY DEF ImportInv, ImportTypes, K!TypeOK
  <2>2. SubSeq(upstream, 1, n - 1) \in Seq(K!Rows) /\ SubSeq(upstream, n + 1, Len(upstream)) \in Seq(K!Rows)
    BY <2>1
  <2> QED BY <1>1, <2>2 DEF K!RemoveAt
<1>4. ImportTypes'
  BY <1>2, <1>3 DEF ImportInv, ImportTypes, K!TypeOK, K!Entry, K!NoReport
<1>5. PagesAreRead'
  BY <1>2 DEF ImportInv, PagesAreRead, K!ListIsWhole
<1>6. EntriesAreTreated' /\ WrittenIsTold'
  BY <1>2 DEF ImportInv, EntriesAreTreated, WrittenIsTold, K!Registered, K!Entry, K!RegistrationIsTold, K!ToSet
<1> QED BY <1>4, <1>5, <1>6 DEF ImportInv

LEMMA RegisterByRequestKeeps ==
    ASSUME ImportInv, NEW d \in Documents, K!RegisterByRequest(d)
    PROVE  ImportInv'
<1>1. /\ registry' = [registry EXCEPT ![d] = "request"]
      /\ UNCHANGED <<upstream, how, uploads, imports, page, collected, listed, stayed, shrunk, importAt, entries, report,
                     importTrail, written, untold>>
  BY DEF K!RegisterByRequest, K!outside, K!reading
<1>2. /\ registry' \in [Documents -> {"none", "request", "migration"}]
      /\ \A e \in Documents : registry'[e] = registry[e] \/ (e = d /\ registry'[e] = "request")
  BY <1>1 DEF ImportInv, ImportTypes, K!TypeOK
<1>3. ImportTypes'
  BY <1>1, <1>2 DEF ImportInv, ImportTypes, K!TypeOK, K!Entry, K!NoReport
<1>4. PagesAreRead'
  BY <1>1 DEF ImportInv, PagesAreRead, K!ListIsWhole, Ahead
<1>5. \A e \in Documents : K!Registered(e) => K!Registered(e)'
  BY <1>2 DEF K!Registered
<1>6. EntriesAreTreated'
  BY <1>1, <1>5 DEF ImportInv, ImportTypes, K!TypeOK, EntriesAreTreated, K!ToSet
<1>7. WrittenIsTold'
  <2>1. importAt = "record" => K!Entry \in Documents /\ K!Entry' = K!Entry
    BY <1>1 DEF ImportInv, ImportTypes, K!TypeOK, K!Entry, Registering
  <2>2. K!RegistrationIsTold'
    BY <1>1, <1>2 DEF ImportInv, WrittenIsTold, K!RegistrationIsTold, K!Entry
  <2> QED BY <1>1, <1>5, <2>1, <2>2 DEF ImportInv, WrittenIsTold, K!Entry
<1> QED BY <1>3, <1>4, <1>6, <1>7 DEF ImportInv

\* Two lists joined have what either has.
LEMMA JoinedAre ==
    ASSUME NEW S, NEW some \in Seq(S), NEW more \in Seq(S)
    PROVE  some \o more \in Seq(S) /\ K!ToSet(some \o more) = K!ToSet(some) \cup K!ToSet(more)
<1>1. PICK all : all = some \o more
  OBVIOUS
<1>2. /\ all \in Seq(S) /\ DOMAIN all = 1 .. Len(some) + Len(more)
      /\ DOMAIN some = 1 .. Len(some) /\ DOMAIN more = 1 .. Len(more) /\ Len(some) \in Nat /\ Len(more) \in Nat
      /\ \A n \in 1 .. Len(some) : all[n] = some[n]
      /\ \A n \in 1 .. Len(more) : all[n + Len(some)] = more[n]
  BY <1>1
<1>3. ASSUME NEW e \in K!ToSet(all)
      PROVE  e \in K!ToSet(some) \cup K!ToSet(more)
  <2>1. PICK n \in 1 .. Len(some) + Len(more) : all[n] = e
    BY <1>2, <1>3 DEF K!ToSet
  <2>2. CASE n \in 1 .. Len(some)
    BY <1>2, <2>1, <2>2 DEF K!ToSet
  <2>3. CASE n \notin 1 .. Len(some)
    <3>1. PICK l, m : l = Len(some) /\ m = Len(more) /\ l \in Nat /\ m \in Nat
      BY <1>2
    <3>2. n \in 1 .. l + m /\ n \notin 1 .. l
      BY <2>1, <2>3, <3>1
    <3>3. n - l \in 1 .. m /\ (n - l) + l = n
      BY <3>1, <3>2
    <3> DEFINE o == n - l
    <3>4. o \in 1 .. Len(more) /\ o + Len(some) = n
      BY <3>1, <3>3
    <3>5. more[o] = e
      BY <1>2, <2>1, <3>4
    <3> QED BY <1>2, <3>4, <3>5 DEF K!ToSet
  <2> QED BY <2>2, <2>3
<1>4. K!ToSet(some) \subseteq K!ToSet(all)
  BY <1>2 DEF K!ToSet
<1>5. ASSUME NEW o \in 1 .. Len(more)
      PROVE  more[o] \in K!ToSet(all)
  <2>1. o + Len(some) \in 1 .. Len(some) + Len(more) /\ all[o + Len(some)] = more[o]
    BY <1>2
  <2> QED BY <1>2, <2>1 DEF K!ToSet
<1>6. K!ToSet(more) = {more[o] : o \in 1 .. Len(more)}
  BY DEF K!ToSet
<1> QED BY <1>1, <1>2, <1>3, <1>4, <1>5, <1>6

\* What is read is listed, or refused.
LEMMA ReadIs ==
    ASSUME ImportInv, NEW list \in Seq(K!Rows), K!Read(list)
    PROVE  /\ entries' \in Seq(Documents) /\ listed' \subseteq Documents
           /\ K!ToSet(entries') = K!ToSet(entries) \cup (K!ToSet(list) \ {Unnamed})
           /\ listed' = listed \cup (K!ToSet(list) \ {Unnamed})
           /\ report'.created = report.created /\ report'.skipped = report.skipped
           /\ report'.rejected \subseteq report.rejected \cup {Unnamed} /\ report.rejected \subseteq report'.rejected
           /\ report' \in [created : SUBSET Documents, skipped : SUBSET Documents, rejected : SUBSET K!Rows]
<1>1. PICK more : more = K!Named(list)
  OBVIOUS
<1>2. more \in Seq(Documents) /\ K!ToSet(more) = K!ToSet(list) \ {Unnamed}
  BY <1>1, NamedIs
<1>3. /\ entries' = entries \o more /\ listed' = listed \cup K!ToSet(more)
      /\ report' = [report EXCEPT !.rejected = report.rejected \cup (K!ToSet(list) \cap {Unnamed})]
  BY <1>1 DEF K!Read
<1>4. entries \in Seq(Documents)
  BY DEF ImportInv, ImportTypes, K!TypeOK
<1>5. PICK some : some = entries'
  OBVIOUS
<1>6. entries' \in Seq(Documents) /\ K!ToSet(entries') = K!ToSet(entries) \cup K!ToSet(more)
  BY <1>2, <1>3, <1>4, <1>5, JoinedAre
<1>7. K!ToSet(more) \subseteq Documents /\ listed \subseteq Documents
  BY <1>2 DEF K!ToSet, ImportInv, ImportTypes, K!TypeOK
<1>8. report \in [created : SUBSET Documents, skipped : SUBSET Documents, rejected : SUBSET K!Rows]
  BY DEF ImportInv, ImportTypes, K!TypeOK
<1>9. Unnamed \in K!Rows
  BY DEF K!Rows
<1> QED BY <1>2, <1>3, <1>6, <1>7, <1>8, <1>9

\* Reading leaves nothing untreated.
LEMMA ReadTreats ==
    ASSUME ImportInv, NEW list \in Seq(K!Rows), K!Read(list), UNCHANGED registry,
           how' = how \/ report.created = {}
    PROVE  EntriesAreTreated'
<1>1. /\ K!ToSet(entries') = K!ToSet(entries) \cup (K!ToSet(list) \ {Unnamed})
      /\ listed' = listed \cup (K!ToSet(list) \ {Unnamed})
      /\ report'.created = report.created /\ report'.skipped = report.skipped
      /\ report'.rejected \subseteq report.rejected \cup {Unnamed} /\ report.rejected \subseteq report'.rejected
  BY ReadIs
<1>2. listed' = K!ToSet(entries') \cup ((report'.created \cup report'.skipped \cup report'.rejected) \ {Unnamed})
  BY <1>1 DEF ImportInv, EntriesAreTreated
<1> QED BY <1>1, <1>2 DEF ImportInv, EntriesAreTreated, K!Registered, K!ToSet

LEMMA BoundedIsSeq ==
    ASSUME NEW S, NEW n \in Nat, NEW some \in K!BoundedSeq(S, n)
    PROVE  some \in Seq(S)
<1>1. PICK m \in 0 .. n : some \in [1 .. m -> S]
  BY DEF K!BoundedSeq, K!SeqOf
<1> QED BY <1>1

LEMMA MainKeeps ==
    ASSUME ImportInv, NEW source \in {"file", "weknora"}, NEW apply \in BOOLEAN, K!Main(source, apply)
    PROVE  ImportInv'
<1>1. /\ importAt = "idle" /\ imports' \in 0 .. MaxImports
      /\ how' = [source |-> source, apply |-> apply] /\ stayed' = K!ToSet(K!Named(upstream))
      /\ UNCHANGED <<registry, importTrail, written, untold, upstream, uploads, page, collected, shrunk>>
  BY ImportAssumption DEF K!Main, K!registration, ImportInv, ImportTypes, K!TypeOK
<1>2. stayed' = K!ToSet(upstream) \ {Unnamed} /\ stayed' \subseteq Documents
  BY <1>1, NamedIs DEF ImportInv, ImportTypes, K!TypeOK, K!Rows
<1>3. /\ page = 1 /\ collected = 0 /\ report = K!NoReport /\ listed = {} /\ written = {}
      /\ how' \in [source : {"file", "weknora"}, apply : BOOLEAN]
      /\ report.created = {} /\ report.rejected = {} /\ collected <= (page - 1) * RowsPerPage
  BY <1>1, ImportAssumption DEF ImportInv, ImportTypes, K!NoReport
<1>4. CASE source = "file"
  <2>1. PICK list \in K!BoundedSeq(K!Rows, MaxRows) : K!Read(list) /\ importAt' = "entry"
    BY <1>4 DEF K!Main
  <2>2. list \in Seq(K!Rows)
    BY <2>1, BoundedIsSeq, ImportAssumption
  <2>3. /\ entries' \in Seq(Documents) /\ listed' \subseteq Documents
        /\ report' \in [created : SUBSET Documents, skipped : SUBSET Documents, rejected : SUBSET K!Rows]
    BY <2>1, <2>2, ReadIs
  <2>4. EntriesAreTreated'
    BY <1>1, <1>3, <2>1, <2>2, ReadTreats
  <2>5. ImportTypes'
    BY <1>1, <1>2, <1>3, <2>1, <2>3 DEF ImportInv, ImportTypes, K!TypeOK, Registering
  <2>6. PagesAreRead'
    BY <1>1, <1>3, <1>4, <2>1 DEF PagesAreRead, K!ListIsWhole
  <2>7. WrittenIsTold'
    BY <1>1, <1>3, <2>1 DEF ImportInv, WrittenIsTold, K!RegistrationIsTold
  <2> QED BY <2>4, <2>5, <2>6, <2>7 DEF ImportInv
<1>5. CASE source = "weknora"
  <2>1. importAt' = "fetch" /\ UNCHANGED <<entries, listed, report>>
    BY <1>5 DEF K!Main
  <2>2. ImportTypes'
    BY <1>1, <1>2, <1>3, <2>1, ImportAssumption DEF ImportInv, ImportTypes, K!TypeOK, Registering
  <2>3. EntriesAreTreated'
    BY <1>1, <1>3, <2>1 DEF ImportInv, EntriesAreTreated, K!Registered, K!ToSet
  <2>4. PagesAreRead'
    <3>1. ASSUME NEW d \in stayed'
          PROVE  Ahead(d)'
      <4>1. PICK n \in DOMAIN upstream : upstream[n] = d
        BY <1>2, <3>1 DEF K!ToSet
      <4>2. n \in Nat /\ n > 0 /\ (page - 1) * RowsPerPage = 0
        BY <1>3, ImportAssumption DEF ImportInv, ImportTypes, K!TypeOK
      <4>3. n > (page - 1) * RowsPerPage
        BY <4>2
      <4> QED BY <1>1, <4>1, <4>3 DEF Ahead
    <3> QED BY <1>1, <1>3, <2>1, <3>1 DEF PagesAreRead, K!ListIsWhole
  <2>5. WrittenIsTold'
    BY <1>1, <1>3, <2>1 DEF ImportInv, WrittenIsTold, K!RegistrationIsTold
  <2> QED BY <2>2, <2>3, <2>4, <2>5 DEF ImportInv
<1> QED BY <1>4, <1>5

LEMMA SliceIs ==
    ASSUME NEW S, NEW list \in Seq(S), NEW low \in Nat, NEW high \in Nat, high <= Len(list),
           NEW m, m = low + 1, NEW some, some = SubSeq(list, m, high)
    PROVE  /\ some \in Seq(S) /\ Len(some) \in Nat /\ DOMAIN some = 1 .. Len(some)
           /\ high <= low => Len(some) = 0
           /\ high > low => Len(some) + low = high
           /\ \A n \in 1 .. Len(some) : some[n] = list[n + low]
           /\ some = <<>> => high <= low
<1>1. m \in Nat \ {0}
  OBVIOUS
<1>2. SubSeq(list, m, high) \in Seq(S)
  BY <1>1
<1>3. Len(SubSeq(list, m, high)) = IF high < m THEN 0 ELSE high - m + 1
  BY <1>1
<1>4. ASSUME NEW n \in 1 .. Len(SubSeq(list, m, high))
      PROVE  SubSeq(list, m, high)[n] = list[n + m - 1]
  BY <1>1
<1>5. PICK it : it = SubSeq(list, m, high) /\ it = some
  BY <1>1
<1>6. /\ it \in Seq(S) /\ Len(it) = (IF high < m THEN 0 ELSE high - m + 1)
      /\ \A n \in 1 .. Len(it) : it[n] = list[n + m - 1]
  BY <1>2, <1>3, <1>4, <1>5
<1>7. /\ Len(it) \in Nat /\ DOMAIN it = 1 .. Len(it) /\ (it = <<>> => Len(it) = 0)
  BY <1>6
<1>8. \A n \in 1 .. Len(it) : n + m - 1 = n + low
  BY <1>1
<1> QED BY <1>1, <1>5, <1>6, <1>7, <1>8

\* A page has the rows of its numbers, and no more than fit.
LEMMA PageIs ==
    ASSUME NEW list \in Seq(K!Rows), NEW before \in Nat, NEW some,
           some = SubSeq(list, before + 1, K!Min({before + RowsPerPage, Len(list)}))
    PROVE  /\ some \in Seq(K!Rows) /\ Len(some) <= RowsPerPage
           /\ \A n \in 1 .. Len(list) : n > before => n > before + RowsPerPage \/ list[n] \in K!ToSet(some)
           /\ some = <<>> => Len(list) <= before
<1> DEFINE last == K!Min({before + RowsPerPage, Len(list)})
<1>1. /\ last \in Nat /\ last <= Len(list) /\ last <= before + RowsPerPage
      /\ last = Len(list) \/ last = before + RowsPerPage
  <2>1. PICK a, b : a = before + RowsPerPage /\ b = Len(list) /\ a \in Nat /\ b \in Nat
    BY ImportAssumption
  <2>2. K!Min({a, b}) = CHOOSE x \in {a, b} : \A y \in {a, b} : x <= y
    BY DEF K!Min
  <2>3. \E x \in {a, b} : \A y \in {a, b} : x <= y
    BY <2>1
  <2>4. K!Min({a, b}) \in {a, b} /\ \A y \in {a, b} : K!Min({a, b}) <= y
    BY <2>2, <2>3
  <2> QED BY <2>1, <2>4
<1> HIDE DEF last
<1>2. some = SubSeq(list, before + 1, last) /\ before + 1 \in Nat \ {0}
  BY DEF last
<1>3. /\ some \in Seq(K!Rows) /\ Len(some) \in Nat /\ DOMAIN some = 1 .. Len(some)
      /\ last <= before => Len(some) = 0
      /\ last > before => Len(some) + before = last
      /\ \A o \in 1 .. Len(some) : some[o] = list[o + before]
      /\ some = <<>> => last <= before
  <2>1. list \in Seq(K!Rows) /\ before \in Nat /\ last \in Nat /\ last <= Len(list)
    BY <1>1
  <2>2. PICK m : m = before + 1 /\ some = SubSeq(list, m, last)
    BY <1>2
  <2> QED BY ONLY <2>1, <2>2, SliceIs
<1>4. Len(some) <= RowsPerPage
  BY <1>1, <1>3, ImportAssumption
<1>5. ASSUME NEW n \in 1 .. Len(list), n > before, ~ (n > before + RowsPerPage)
      PROVE  list[n] \in K!ToSet(some)
  <2> DEFINE o == n - before
  <2>1. o \in Nat /\ o >= 1 /\ o + before = n
    BY <1>5
  <2>2. n <= last
    BY <1>1, <1>5, ImportAssumption
  <2>3. o \in 1 .. Len(some)
    BY <1>1, <1>3, <1>5, <2>1, <2>2
  <2> QED BY <1>3, <2>1, <2>3 DEF K!ToSet
<1>6. ASSUME some = <<>>
      PROVE  Len(list) <= before
  <2>1. last <= before
    BY <1>3, <1>6
  <2> QED BY <1>1, <2>1, ImportAssumption
<1> QED BY <1>3, <1>4, <1>5, <1>6

LEMMA FetchPageKeeps ==
    ASSUME ImportInv, K!FetchPage
    PROVE  ImportInv'
<1>1. PICK some, before : some = K!OnPage(page) /\ before = (page - 1) * RowsPerPage
  OBVIOUS
<1>2. /\ importAt = "fetch" /\ K!Read(some) /\ collected' = collected + Len(some) /\ page' = page + 1
      /\ importAt' = (IF some = <<>> \/ collected' >= Len(upstream) THEN "entry"
                      ELSE IF page = PageLimit THEN "failed" ELSE "fetch")
      /\ UNCHANGED <<registry, importTrail, written, untold, upstream, how, uploads, imports, stayed, shrunk>>
  BY <1>1 DEF K!FetchPage, K!registration, K!outside, K!GiveUp
<1>3. /\ page \in 1 .. PageLimit /\ collected \in Nat /\ collected <= before /\ upstream \in Seq(K!Rows)
      /\ PageLimit \in Nat /\ RowsPerPage \in Nat
  BY <1>1, <1>2, ImportAssumption DEF ImportInv, ImportTypes, K!TypeOK, PagesAreRead
<1>4. before \in Nat /\ page * RowsPerPage = before + RowsPerPage /\ (page' - 1) * RowsPerPage = before + RowsPerPage
  <2>1. page - 1 \in Nat /\ page' - 1 = page
    BY <1>2, <1>3
  <2>2. (page - 1) * RowsPerPage \in Nat /\ (page - 1) * RowsPerPage + RowsPerPage = page * RowsPerPage
    BY <1>3, <2>1
  <2> QED BY <1>1, <2>1, <2>2
<1>5. some = SubSeq(upstream, before + 1, K!Min({before + RowsPerPage, Len(upstream)}))
  BY <1>1, <1>4 DEF K!OnPage
<1>6. /\ some \in Seq(K!Rows) /\ Len(some) <= RowsPerPage
      /\ \A n \in 1 .. Len(upstream) : n > before => n > before + RowsPerPage \/ upstream[n] \in K!ToSet(some)
      /\ some = <<>> => Len(upstream) <= before
  BY <1>3, <1>4, <1>5, PageIs
<1>7. /\ entries' \in Seq(Documents) /\ listed' = listed \cup (K!ToSet(some) \ {Unnamed}) /\ listed' \subseteq Documents
      /\ report' \in [created : SUBSET Documents, skipped : SUBSET Documents, rejected : SUBSET K!Rows]
      /\ report'.created = report.created
  BY <1>2, <1>6, ReadIs
<1>8. EntriesAreTreated'
  BY <1>2, <1>6, ReadTreats
<1>9. ImportTypes'
  <2>1. collected' \in Nat /\ page' \in 1 .. PageLimit + 1 /\ (importAt' = "fetch" => page' <= PageLimit)
    BY <1>2, <1>3, <1>6
  <2> QED BY <1>2, <1>7, <2>1 DEF ImportInv, ImportTypes, K!TypeOK, Registering
<1>10. PagesAreRead'
  <2>1. collected' <= (page' - 1) * RowsPerPage
    BY <1>2, <1>3, <1>4, <1>6
  <2>2. ASSUME ~shrunk, NEW d \in stayed
        PROVE  d \in listed' \/ \E n \in DOMAIN upstream : n > before + RowsPerPage /\ upstream[n] = d
    <3>1. d \in listed \/ Ahead(d)
      BY <1>2, <2>2 DEF ImportInv, PagesAreRead
    <3>2. CASE Ahead(d)
      <4>1. PICK n \in 1 .. Len(upstream) : n > before /\ upstream[n] = d
        BY <1>1, <1>3, <3>2 DEF Ahead
      <4>2. d # Unnamed
        BY <2>2, ImportAssumption DEF ImportInv, ImportTypes, K!TypeOK
      <4> QED BY <1>3, <1>6, <1>7, <4>1, <4>2
    <3> QED BY <1>7, <3>1, <3>2
  <2>3. importAt' = "fetch" /\ ~shrunk' => \A d \in stayed' : d \in listed' \/ Ahead(d)'
    BY <1>2, <1>4, <2>2 DEF Ahead
  <2>4. ASSUME importAt' = "entry", ~shrunk, NEW d \in stayed
        PROVE  d \in listed'
    <3>1. Len(upstream) <= before + RowsPerPage
      BY <1>2, <1>3, <1>4, <1>6, <2>4
    <3>2. ~ \E n \in DOMAIN upstream : n > before + RowsPerPage /\ upstream[n] = d
      BY <1>3, <1>4, <3>1
    <3> QED BY <2>2, <2>4, <3>2
  <2>5. K!ListIsWhole'
    BY <1>2, <2>4 DEF K!ListIsWhole
  <2> QED BY <2>1, <2>3, <2>5 DEF PagesAreRead
<1>11. WrittenIsTold'
  <2>1. importAt' \notin {"record"} /\ importAt # "record" /\ importAt # "failed"
    BY <1>2
  <2> QED BY <1>2, <1>7, <2>1 DEF ImportInv, WrittenIsTold, K!RegistrationIsTold
<1> QED BY <1>8, <1>9, <1>10, <1>11 DEF ImportInv

\* A list that is not empty is its head and the rest.
LEMMA HeadAndTail ==
    ASSUME NEW S, NEW some \in Seq(S), some # <<>>
    PROVE  /\ Head(some) \in S /\ Tail(some) \in Seq(S)
           /\ K!ToSet(some) = {Head(some)} \cup K!ToSet(Tail(some))
<1>1. PICK rest : rest = Tail(some)
  OBVIOUS
<1>2. /\ rest \in Seq(S) /\ DOMAIN some = 1 .. Len(some) /\ DOMAIN rest = 1 .. Len(some) - 1
      /\ Head(some) = some[1] /\ Len(some) \in Nat \ {0} /\ \A n \in 1 .. Len(some) - 1 : rest[n] = some[n + 1]
  BY <1>1
<1>3. K!ToSet(rest) \subseteq K!ToSet(some) /\ Head(some) \in K!ToSet(some)
  <2>1. \A n \in 1 .. Len(some) - 1 : n + 1 \in 1 .. Len(some)
    BY <1>2
  <2>2. 1 \in 1 .. Len(some)
    BY <1>2
  <2> QED BY <1>2, <2>1, <2>2 DEF K!ToSet
<1>4. ASSUME NEW e \in K!ToSet(some), e # Head(some)
      PROVE  e \in K!ToSet(rest)
  <2>1. PICK n \in 1 .. Len(some) : some[n] = e
    BY <1>2 DEF K!ToSet
  <2>2. n # 1
    BY <1>2, <1>4, <2>1
  <2> DEFINE o == n - 1
  <2>3. o \in 1 .. Len(some) - 1 /\ o + 1 = n
    BY <1>2, <2>1, <2>2
  <2>4. rest[o] = e
    BY <1>2, <2>1, <2>3
  <2> QED BY <1>2, <2>3, <2>4 DEF K!ToSet
<1> QED BY <1>1, <1>2, <1>3, <1>4

\* The entry that is worked on is a document.
LEMMA EntryIs ==
    ASSUME ImportInv, entries # <<>>
    PROVE  /\ K!Entry \in Documents /\ Tail(entries) \in Seq(Documents) /\ K!Entry # Unnamed
           /\ K!ToSet(entries) = {K!Entry} \cup K!ToSet(Tail(entries))
<1>1. entries \in Seq(Documents)
  BY DEF ImportInv, ImportTypes, K!TypeOK
<1> QED BY <1>1, HeadAndTail, ImportAssumption DEF K!Entry

\* An entry is told of, in one of the lists.
LEMMA PutTreats ==
    ASSUME ImportInv, entries # <<>>, NEW list \in {"created", "skipped", "rejected"}, K!Put(list), UNCHANGED <<how, listed>>,
           \A d \in Documents : K!Registered(d) => K!Registered(d)',
           list = "rejected" => K!Entry \in TooLong,
           list = "skipped" \/ (list = "created" /\ how.apply) => K!Registered(K!Entry)
    PROVE  /\ EntriesAreTreated' /\ importAt' = "entry" /\ entries' \in Seq(Documents)
           /\ report' \in [created : SUBSET Documents, skipped : SUBSET Documents, rejected : SUBSET K!Rows]
           /\ report.created \subseteq report'.created /\ (list = "created" => K!Entry \in report'.created)
<1>1. PICK e : e = K!Entry
  OBVIOUS
<1>2. /\ e \in Documents /\ e # Unnamed /\ Tail(entries) \in Seq(Documents) /\ e \in K!Rows
      /\ K!ToSet(entries) = {e} \cup K!ToSet(Tail(entries))
  BY <1>1, EntryIs DEF K!Rows
<1>3. /\ report' = [report EXCEPT ![list] = report[list] \cup {e}]
      /\ entries' = Tail(entries) /\ importAt' = "entry"
  BY <1>1 DEF K!Put
<1>4. report \in [created : SUBSET Documents, skipped : SUBSET Documents, rejected : SUBSET K!Rows]
  BY DEF ImportInv, ImportTypes, K!TypeOK
<1>5. /\ report' \in [created : SUBSET Documents, skipped : SUBSET Documents, rejected : SUBSET K!Rows]
      /\ report'.created = report.created \cup (IF list = "created" THEN {e} ELSE {})
      /\ report'.skipped = report.skipped \cup (IF list = "skipped" THEN {e} ELSE {})
      /\ report'.rejected = report.rejected \cup (IF list = "rejected" THEN {e} ELSE {})
  <2>1. CASE list = "created"
    BY <1>2, <1>3, <1>4, <2>1
  <2>2. CASE list = "skipped"
    BY <1>2, <1>3, <1>4, <2>2
  <2>3. CASE list = "rejected"
    BY <1>2, <1>3, <1>4, <2>3
  <2> QED BY <2>1, <2>2, <2>3
<1>6. K!ToSet(entries') = K!ToSet(Tail(entries))
  BY <1>3
<1>7. listed' = K!ToSet(entries') \cup ((report'.created \cup report'.skipped \cup report'.rejected) \ {Unnamed})
  BY <1>2, <1>5, <1>6 DEF ImportInv, EntriesAreTreated
<1>8. \A d \in report'.skipped : K!Registered(d)'
  BY <1>1, <1>2, <1>4, <1>5 DEF ImportInv, EntriesAreTreated
<1>9. how'.apply => \A d \in report'.created : K!Registered(d)'
  BY <1>1, <1>2, <1>4, <1>5 DEF ImportInv, EntriesAreTreated
<1>10. report'.rejected \subseteq TooLong \cup {Unnamed}
  BY <1>1, <1>5 DEF ImportInv, EntriesAreTreated
<1>11. K!ToSet(entries)' = K!ToSet(entries')
  BY DEF K!ToSet
<1> QED BY <1>1, <1>2, <1>3, <1>5, <1>7, <1>8, <1>9, <1>10, <1>11 DEF EntriesAreTreated

\* A step that leaves the entries and the registry.
LEMMA GoTreats ==
    ASSUME ImportInv, UNCHANGED <<how, listed, entries, report>>,
           \A d \in Documents : K!Registered(d) => K!Registered(d)'
    PROVE  EntriesAreTreated'
<1>1. K!ToSet(entries') = K!ToSet(entries)
  OBVIOUS
<1> QED BY <1>1 DEF ImportInv, ImportTypes, K!TypeOK, EntriesAreTreated, K!ToSet

LEMMA LookUpKeeps ==
    ASSUME ImportInv, K!LookUp
    PROVE  ImportInv'
<1>1. /\ importAt = "entry" /\ entries # <<>>
      /\ UNCHANGED <<registry, importTrail, written, untold, page, collected, listed, stayed, shrunk, upstream, how,
                     uploads, imports>>
  BY DEF K!LookUp, K!registration, K!reading, K!outside
<1>2. \A d \in Documents : K!Registered(d) => K!Registered(d)'
  BY <1>1 DEF K!Registered
<1>3. ASSUME importAt' \in {"entry", "register"}, EntriesAreTreated', entries' \in Seq(Documents),
             report' \in [created : SUBSET Documents, skipped : SUBSET Documents, rejected : SUBSET K!Rows],
             report.created \subseteq report'.created,
             importAt' = "register" => entries' = entries /\ how.apply /\ K!Entry \notin TooLong
      PROVE  ImportInv'
  <2>1. ImportTypes'
    BY <1>1, <1>3 DEF ImportInv, ImportTypes, K!TypeOK, Registering, K!Entry
  <2>2. PagesAreRead'
    BY <1>1, <1>3, ListedKeeps DEF Registering
  <2>3. WrittenIsTold'
    BY <1>1, <1>3 DEF ImportInv, WrittenIsTold, K!RegistrationIsTold
  <2> QED BY <1>3, <2>1, <2>2, <2>3 DEF ImportInv
<1>4. CASE K!Registered(K!Entry)
  <2>1. K!Put("skipped")
    BY <1>4 DEF K!LookUp
  <2> QED BY <1>1, <1>2, <1>3, <1>4, <2>1, PutTreats
<1>5. CASE ~K!Registered(K!Entry) /\ ~how.apply
  <2>1. K!Put("created")
    BY <1>5 DEF K!LookUp
  <2> QED BY <1>1, <1>2, <1>3, <1>5, <2>1, PutTreats
<1>6. CASE ~K!Registered(K!Entry) /\ how.apply /\ K!Entry \in TooLong
  <2>1. K!Put("rejected")
    BY <1>6 DEF K!LookUp
  <2> QED BY <1>1, <1>2, <1>3, <1>6, <2>1, PutTreats
<1>7. CASE ~K!Registered(K!Entry) /\ how.apply /\ K!Entry \notin TooLong
  <2>1. importAt' = "register" /\ UNCHANGED <<entries, report>>
    BY <1>7 DEF K!LookUp, K!Go
  <2>2. EntriesAreTreated'
    BY <1>1, <1>2, <2>1, GoTreats
  <2> QED BY <1>1, <1>3, <1>7, <2>1, <2>2 DEF ImportInv, ImportTypes, K!TypeOK
<1> QED BY <1>4, <1>5, <1>6, <1>7

LEMMA RegisterReadsKeeps ==
    ASSUME ImportInv, K!RegisterReads
    PROVE  ImportInv'
<1>1. /\ importAt = "register" /\ importAt' = (IF K!Registered(K!Entry) THEN "record" ELSE "insert")
      /\ UNCHANGED <<registry, importTrail, written, untold, page, collected, listed, stayed, shrunk, upstream, how,
                     uploads, imports, entries, report>>
  BY DEF K!RegisterReads, K!Go, K!registration, K!reading, K!outside
<1>2. ImportTypes'
  BY <1>1 DEF ImportInv, ImportTypes, K!TypeOK, Registering, K!Entry
<1>3. PagesAreRead'
  BY <1>1, ListedKeeps DEF Registering
<1>4. EntriesAreTreated'
  BY <1>1, GoTreats DEF K!Registered
<1>5. WrittenIsTold'
  BY <1>1 DEF ImportInv, WrittenIsTold, K!RegistrationIsTold, K!Registered, K!Entry
<1> QED BY <1>2, <1>3, <1>4, <1>5 DEF ImportInv

LEMMA RegisterInsertsKeeps ==
    ASSUME ImportInv, K!RegisterInserts
    PROVE  ImportInv'
<1>1. /\ importAt = "insert"
      /\ UNCHANGED <<page, collected, listed, stayed, shrunk, upstream, how, uploads, imports, entries, report,
                     importTrail, untold>>
  BY DEF K!RegisterInserts, K!Go, K!reading, K!outside
<1>2. /\ entries # <<>> /\ how.apply /\ K!Entry \notin TooLong /\ K!Entry \in Documents
      /\ K!Entry' = K!Entry
  BY <1>1, EntryIs DEF ImportInv, ImportTypes, Registering, K!Entry
<1>3. CASE K!Registered(K!Entry)
  <2>1. importAt' = "failed" /\ UNCHANGED <<registry, written>>
    BY <1>3 DEF K!RegisterInserts, K!Go
  <2>2. ImportTypes'
    BY <1>1, <2>1 DEF ImportInv, ImportTypes, K!TypeOK, Registering
  <2>3. PagesAreRead'
    BY <1>1, <2>1, ListedKeeps DEF Registering
  <2>4. EntriesAreTreated'
    BY <1>1, <2>1, GoTreats DEF K!Registered
  <2>5. WrittenIsTold'
    BY <1>1, <2>1 DEF ImportInv, WrittenIsTold, K!RegistrationIsTold
  <2> QED BY <2>2, <2>3, <2>4, <2>5 DEF ImportInv
<1>4. CASE ~K!Registered(K!Entry)
  <2>1. /\ importAt' = "record" /\ registry' = [registry EXCEPT ![K!Entry] = "migration"]
        /\ written' = written \cup {K!Entry}
    BY <1>4 DEF K!RegisterInserts, K!Go
  <2>2. /\ registry' \in [Documents -> {"none", "request", "migration"}]
        /\ \A d \in Documents : registry'[d] = registry[d] \/ (d = K!Entry /\ registry'[d] = "migration")
        /\ registry'[K!Entry] = "migration"
    BY <1>2, <2>1 DEF ImportInv, ImportTypes, K!TypeOK
  <2>3. ImportTypes'
    BY <1>1, <1>2, <2>1, <2>2 DEF ImportInv, ImportTypes, K!TypeOK, Registering
  <2>4. PagesAreRead'
    BY <1>1, <2>1, ListedKeeps DEF Registering
  <2>5. EntriesAreTreated'
    BY <1>1, <2>2, GoTreats DEF K!Registered
  <2>6. WrittenIsTold'
    <3>1. K!RegistrationIsTold'
      BY <1>1, <1>2, <2>1, <2>2 DEF ImportInv, WrittenIsTold, K!RegistrationIsTold
    <3> QED BY <1>1, <1>2, <2>1, <2>2, <3>1 DEF ImportInv, WrittenIsTold, K!Registered
  <2> QED BY <2>3, <2>4, <2>5, <2>6 DEF ImportInv
<1> QED BY <1>3, <1>4

LEMMA ImportRecordKeeps ==
    ASSUME ImportInv, K!Record
    PROVE  ImportInv'
<1>1. /\ importAt = "record" /\ importTrail' = importTrail \cup {K!Entry} /\ K!Put("created")
      /\ UNCHANGED <<page, collected, listed, stayed, shrunk, upstream, how, uploads, imports, registry, written, untold>>
  BY DEF K!Record, K!reading, K!outside
<1>2. entries # <<>> /\ how.apply /\ K!Registered(K!Entry) /\ K!Entry \in Documents
  BY <1>1, EntryIs DEF ImportInv, ImportTypes, Registering, WrittenIsTold
<1>3. /\ EntriesAreTreated' /\ importAt' = "entry" /\ entries' \in Seq(Documents)
      /\ report' \in [created : SUBSET Documents, skipped : SUBSET Documents, rejected : SUBSET K!Rows]
      /\ report.created \subseteq report'.created /\ K!Entry \in report'.created
  BY <1>1, <1>2, PutTreats DEF K!Registered
<1>4. ImportTypes'
  BY <1>1, <1>2, <1>3 DEF ImportInv, ImportTypes, K!TypeOK, Registering
<1>5. PagesAreRead'
  BY <1>1, <1>3, ListedKeeps DEF Registering
<1>6. WrittenIsTold'
  BY <1>1, <1>3 DEF ImportInv, WrittenIsTold, K!RegistrationIsTold
<1> QED BY <1>3, <1>4, <1>5, <1>6 DEF ImportInv

LEMMA ImportEndsKeeps ==
    ASSUME ImportInv, K!Finish \/ K!Die
    PROVE  ImportInv'
<1>1. /\ importAt' \in {"done", "failed"} /\ importAt \in Registering \cup {"entry", "fetch"}
      /\ importAt = "fetch" \/ importAt = "record" => importAt' = "failed"
      /\ importAt' = "done" => entries = <<>>
      /\ UNCHANGED <<page, collected, listed, stayed, shrunk, upstream, how, uploads, imports, entries, report,
                     registry, importTrail, written>>
  BY DEF K!Finish, K!Die, K!Go, K!reading, K!outside, K!registration, Registering
<1>2. /\ untold \subseteq untold' /\ untold' \subseteq untold \cup {K!Entry}
      /\ importAt = "record" => K!Entry \in importTrail \cup untold'
      /\ importAt # "record" => untold' = untold
  BY DEF K!Finish, K!Die, K!registration
<1>3. untold' \subseteq Documents
  <2>1. CASE importAt = "record"
    BY <1>2, <2>1, EntryIs DEF ImportInv, ImportTypes, K!TypeOK, Registering
  <2>2. CASE importAt # "record"
    BY <1>2, <2>2 DEF ImportInv, ImportTypes, K!TypeOK
  <2> QED BY <2>1, <2>2
<1>4. ImportTypes'
  BY <1>1, <1>3 DEF ImportInv, ImportTypes, K!TypeOK, Registering
<1>5. PagesAreRead'
  <2>1. CASE importAt = "fetch"
    BY <1>1, <2>1 DEF ImportInv, PagesAreRead, K!ListIsWhole
  <2>2. CASE importAt # "fetch"
    BY <1>1, <2>2, ListedKeeps
  <2> QED BY <2>1, <2>2
<1>6. EntriesAreTreated'
  BY <1>1, GoTreats DEF K!Registered
<1>7. WrittenIsTold'
  BY <1>1, <1>2 DEF ImportInv, WrittenIsTold, K!RegistrationIsTold, Registering
<1> QED BY <1>4, <1>5, <1>6, <1>7 DEF ImportInv

LEMMA NothingReported ==
    /\ K!NoReport \in [created : SUBSET Documents, skipped : SUBSET Documents, rejected : SUBSET K!Rows]
    /\ <<>> \in Seq(Documents)
BY DEF K!NoReport

LEMMA LeaveImportKeeps ==
    ASSUME ImportInv, K!Leave
    PROVE  ImportInv'
<1>1. /\ importAt \in {"done", "failed"} /\ importAt' = "idle" /\ page' = 1 /\ collected' = 0 /\ entries' = <<>>
      /\ report' = K!NoReport /\ listed' = {} /\ stayed' = {} /\ shrunk' = FALSE /\ written' = {}
      /\ UNCHANGED <<upstream, how, uploads, imports, registry, importTrail, untold>>
  BY DEF K!Leave, K!outside
<1>2. ImportTypes'
  <2>1. page' \in 1 .. PageLimit + 1 /\ collected' \in Nat
    BY <1>1, ImportAssumption
  <2>2. K!TypeOK'
    BY <1>1, <2>1, NothingReported DEF ImportInv, ImportTypes, K!TypeOK
  <2> QED BY <1>1, <2>2 DEF ImportTypes, Registering, K!NoReport
<1>3. PagesAreRead'
  BY <1>1, ImportAssumption DEF PagesAreRead, K!ListIsWhole
<1>4. EntriesAreTreated'
  BY <1>1 DEF EntriesAreTreated, K!NoReport, K!ToSet
<1>5. WrittenIsTold'
  BY <1>1 DEF ImportInv, WrittenIsTold, K!RegistrationIsTold
<1> QED BY <1>2, <1>3, <1>4, <1>5 DEF ImportInv

LEMMA ImportRests ==
    ASSUME ImportInv, UNCHANGED kVars
    PROVE  ImportInv'
<1>1. UNCHANGED <<upstream, registry, importTrail, how, importAt, page, collected, entries, report, uploads, imports,
                  listed, stayed, shrunk, written, untold>>
  BY DEF kVars
<1>2. ImportTypes'
  BY <1>1 DEF ImportInv, ImportTypes, K!TypeOK, K!Entry, K!NoReport
<1>3. PagesAreRead'
  BY <1>1 DEF ImportInv, PagesAreRead, K!ListIsWhole, Ahead
<1>4. EntriesAreTreated'
  BY <1>1, GoTreats DEF K!Registered
<1>5. WrittenIsTold'
  BY <1>1 DEF ImportInv, WrittenIsTold, K!RegistrationIsTold, K!Registered, K!Entry
<1> QED BY <1>2, <1>3, <1>4, <1>5 DEF ImportInv

\* A step of another part leaves the import alone.
LEMMA ImportOfSystem ==
    ASSUME ImportInv, [Next]_vars
    PROVE  ImportInv'
<1>1. K!Next \/ UNCHANGED kVars
  BY DEF Next, vars
<1>2. CASE K!Next
  BY <1>2, UploadKeeps, WithdrawKeeps, RegisterByRequestKeeps, MainKeeps, FetchPageKeeps, LookUpKeeps,
     RegisterReadsKeeps, RegisterInsertsKeeps, ImportRecordKeeps, ImportEndsKeeps, LeaveImportKeeps DEF K!Next
<1> QED BY <1>1, <1>2, ImportRests

LEMMA ImportInit ==
    ASSUME K!Init
    PROVE  ImportInv
<1>1. PICK some \in K!BoundedSeq(K!Rows, MaxRows) : upstream = some
  BY DEF K!Init
<1>2. upstream \in Seq(K!Rows)
  BY <1>1, BoundedIsSeq, ImportAssumption
<1>3. /\ registry = [d \in Documents |-> "none"] /\ importTrail = {}
      /\ how = [source |-> "file", apply |-> FALSE] /\ importAt = "idle"
      /\ page = 1 /\ collected = 0 /\ entries = <<>> /\ report = K!NoReport /\ uploads = 0 /\ imports = 0
      /\ listed = {} /\ stayed = {} /\ shrunk = FALSE /\ written = {} /\ untold = {}
  BY DEF K!Init
<1>4. ImportTypes
  <2>1. page \in 1 .. PageLimit + 1 /\ collected \in Nat /\ uploads \in 0 .. MaxUploads /\ imports \in 0 .. MaxImports
    BY <1>3, ImportAssumption
  <2>2. /\ registry \in [Documents -> {"none", "request", "migration"}]
        /\ how \in [source : {"file", "weknora"}, apply : BOOLEAN]
    BY <1>3
  <2>3. K!TypeOK
    BY <1>2, <1>3, <2>1, <2>2, NothingReported DEF K!TypeOK
  <2> QED BY <1>3, <2>3 DEF ImportTypes, Registering
<1>5. PagesAreRead
  BY <1>3, ImportAssumption DEF PagesAreRead, K!ListIsWhole
<1>6. EntriesAreTreated
  BY <1>3 DEF EntriesAreTreated, K!NoReport, K!ToSet
<1>7. WrittenIsTold
  BY <1>3 DEF WrittenIsTold, K!RegistrationIsTold
<1> QED BY <1>4, <1>5, <1>6, <1>7 DEF ImportInv

\* The invariant has what is promised of the import.
LEMMA ImportTells ==
    ASSUME ImportInv
    PROVE  K!ListIsWhole /\ K!ReportIsTrue /\ K!RegistrationIsTold
<1>1. ASSUME importAt = "done"
      PROVE  /\ listed = (report.created \cup report.skipped \cup report.rejected) \ {Unnamed}
             /\ written \subseteq report.created /\ report.rejected \cap written = {}
  <2>1. entries = <<>> /\ written \subseteq Documents
    BY <1>1 DEF ImportInv, ImportTypes, K!TypeOK
  <2>2. K!ToSet(entries) = {}
    BY <2>1 DEF K!ToSet
  <2> QED BY <1>1, <2>1, <2>2, ImportAssumption DEF ImportInv, EntriesAreTreated, WrittenIsTold
<1>2. K!ReportIsTrue
  BY <1>1 DEF ImportInv, EntriesAreTreated, WrittenIsTold, K!ReportIsTrue
<1> QED BY <1>2 DEF ImportInv, PagesAreRead, WrittenIsTold

-----------------------------------------------------------------------------
(*                    What the compositions promise                        *)

\* However requests overlap, a notice names an end that the runtime wrote and
\* only a run that was over is charged; when they do not overlap and none dies,
\* the record says where the run is, and its end is charged and, unless it is
\* success, was told or audited, by one request and no other.
\* What another service emits is read once and in order, a run nobody can command
\* there is of a start that failed, or was before a restart, and a notice that was
\* read stays read.
THEOREM RunsReported == Spec => RunsAreReported
<1>1. Init => NoticeInv /\ HeardInv /\ ExternalInv
  BY NoticeInit, HeardInit, ExternalInit DEF Init
<1>2. NoticeInv /\ HeardInv /\ ExternalInv /\ [Next]_vars => (NoticeInv /\ HeardInv /\ ExternalInv)'
  BY NoticesOfSystem, HeardOfSystem, ExternalOfSystem
<1>3. NoticeInv /\ HeardInv /\ ExternalInv =>
        /\ part = "notices" => N!WordIsTrue /\ N!EndIsAccountedFor
        /\ part = "external" => Y!EventsAreInOrder /\ Y!RemoteIsHeld
  BY NoticesAreTrue, ExternalIsReported
<1>4. NoticeInv /\ [Next]_vars =>
        [\A n \in runNotices, m \in runNotices' : n.id = m.id /\ n.read # N!Unread => m.read = n.read]_(N!vars)
  BY ReadingStays
<1> QED BY <1>1, <1>2, <1>3, <1>4, PTL DEF Spec, RunsAreReported, N!ReadStaysRead

\* The probe alerts only for what was at fault while it read, and always for what
\* was so throughout and could be read; a list that was read to its end misses no
\* document that stayed, unless one was removed while it was read, the import tells
\* what became of every entry, and the trail what it registered, but of those whose
\* run died between the two writes.
THEOREM ScriptsTruthful == Spec => []ScriptsTellTruth
<1>1. Init => ProbeInv /\ ImportInv
  BY ProbeInit, ImportInit DEF Init
<1>2. ProbeInv /\ ImportInv /\ [Next]_vars => (ProbeInv /\ ImportInv)'
  BY ProbeOfSystem, ImportOfSystem
<1>3. ProbeInv /\ ImportInv => ScriptsTellTruth
  BY ProbeTells, ImportTells DEF ScriptsTellTruth
<1> QED BY <1>1, <1>2, <1>3, PTL DEF Spec
-----------------------------------------------------------------------------
(*                            The types' bounds                             *)

\* Requests the limiter has still to judge.
Asking == {t \in Handlers : gatewayAt[t] \in {"scan", "delete", "rate", "allow"}}

\* Nobody is let through twice for a request, whatever the window.
GatewayBounds ==
    /\ tokens \subseteq spent /\ expired \subseteq spent /\ requests \in 0 .. MaxRequests
    /\ \A k \in Tokens : admitted[k] + Cardinality(Asking) <= requests

GatewayTyped == GatewayInv /\ GatewayBounds

\* Nobody asks more, or somebody begins to, or somebody is let through.
LEMMA FewerAsk ==
    ASSUME GatewayTyped, GatewayTypes', tokens' \subseteq spent', expired' \subseteq spent',
           UNCHANGED requests, Asking' \subseteq Asking,
           \A k \in Tokens : admitted'[k] <= admitted[k]
    PROVE  GatewayBounds'
<1>1. PICK more, fewer : more = Asking /\ fewer = Asking'
  OBVIOUS
<1>2. /\ Cardinality(fewer) <= Cardinality(more) /\ Cardinality(more) \in Nat /\ Cardinality(fewer) \in Nat
  BY <1>1, GatewayAssumption, FS_Subset, FS_CardinalityType DEF Asking
<1>3. ASSUME NEW k \in Tokens
      PROVE  admitted'[k] + Cardinality(fewer) <= requests'
  <2>1. admitted[k] \in Nat /\ admitted'[k] \in Nat /\ admitted'[k] <= admitted[k]
    BY DEF GatewayTyped, GatewayInv, RateInv, GatewayTypes
  <2>2. admitted[k] + Cardinality(more) <= requests /\ requests' = requests /\ requests \in Nat
    BY <1>1, GatewayAssumption DEF GatewayTyped, GatewayBounds
  <2> QED BY <1>2, <2>1, <2>2
<1> QED BY <1>1, <1>3 DEF GatewayTyped, GatewayBounds

LEMMA OneAsks ==
    ASSUME GatewayTyped, NEW t \in Handlers, G!Request(t)
    PROVE  GatewayBounds'
<1>1. /\ Asking' = Asking \cup {t} /\ t \notin Asking
      /\ requests' = requests + 1 /\ requests < MaxRequests
      /\ UNCHANGED <<tokens, expired, spent, admitted>>
  BY DEF G!Request, G!Go, G!table, Asking, GatewayTyped, GatewayInv, RateInv, GatewayTypes
<1>2. PICK some : some = Asking
  OBVIOUS
<1>3. IsFiniteSet(some)
  BY <1>2, GatewayAssumption, FS_Subset DEF Asking
<1>4. Cardinality(some \cup {t}) = Cardinality(some) + 1 /\ Cardinality(some) \in Nat
  BY <1>1, <1>2, <1>3, FS_AddElement, FS_CardinalityType
<1>5. ASSUME NEW k \in Tokens
      PROVE  admitted[k] + Cardinality(some \cup {t}) <= requests + 1
  <2>1. admitted[k] \in Nat
    BY DEF GatewayTyped, GatewayInv, RateInv, GatewayTypes
  <2>2. admitted[k] + Cardinality(some) <= requests /\ requests \in Nat
    BY <1>2, GatewayAssumption DEF GatewayTyped, GatewayBounds
  <2> QED BY <1>4, <2>1, <2>2
<1>6. requests' \in 0 .. MaxRequests
  BY <1>1, GatewayAssumption DEF GatewayTyped, GatewayBounds
<1> QED BY <1>1, <1>2, <1>5, <1>6 DEF GatewayTyped, GatewayBounds

LEMMA OneIsAdmitted ==
    ASSUME GatewayTyped, NEW t \in Handlers, G!Allow(t), GatewayTypes'
    PROVE  GatewayBounds'
<1>1. t \in Asking /\ UNCHANGED <<tokens, expired, spent, requests>>
  BY DEF G!Allow, G!table, Asking
<1>2. Asking' = Asking \ {t}
  BY DEF G!Allow, G!Denied, G!Leave, G!Admit, G!Go, Asking, GatewayTyped, GatewayInv, RateInv, GatewayTypes
<1>3. \A k \in Tokens : admitted'[k] = admitted[k] \/ admitted'[k] = admitted[k] + 1
  BY DEF G!Allow, G!Admit, GatewayTyped, GatewayInv, RateInv, GatewayTypes
<1>4. PICK some : some = Asking
  OBVIOUS
<1>5. IsFiniteSet(some)
  BY <1>4, GatewayAssumption, FS_Subset DEF Asking
<1>6. Cardinality(some \ {t}) = Cardinality(some) - 1 /\ Cardinality(some) \in Nat
  BY <1>1, <1>4, <1>5, FS_RemoveElement, FS_CardinalityType
<1>7. ASSUME NEW k \in Tokens
      PROVE  admitted'[k] + Cardinality(some \ {t}) <= requests
  <2>1. admitted[k] \in Nat
    BY DEF GatewayTyped, GatewayInv, RateInv, GatewayTypes
  <2>2. admitted[k] + Cardinality(some) <= requests /\ requests \in Nat
    BY <1>4, GatewayAssumption DEF GatewayTyped, GatewayBounds
  <2> QED BY <1>3, <1>6, <2>1, <2>2
<1> QED BY <1>1, <1>2, <1>4, <1>7 DEF GatewayTyped, GatewayBounds

LEMMA BoundsHold ==
    ASSUME GatewayTyped, GatewayTypes', G!Next \/ UNCHANGED gVars
    PROVE  GatewayBounds'
<1>1. GatewayTypes /\ GatewayBounds
  BY DEF GatewayTyped, GatewayInv, RateInv
<1>2. CASE UNCHANGED gVars
  BY <1>1, <1>2 DEF gVars, GatewayBounds, Asking
<1>3. CASE G!Expire
  BY <1>1, <1>3 DEF G!Expire, GatewayBounds, Asking
<1>4. CASE G!NextWindow
  <2>1. UNCHANGED <<tokens, expired, spent, gatewayAt, requests>> /\ admitted' = [k \in Tokens |-> 0]
    BY <1>4 DEF G!NextWindow, G!table
  <2>2. Asking' \subseteq Asking
    BY <2>1 DEF Asking
  <2>3. \A k \in Tokens : admitted'[k] <= admitted[k]
    BY <1>1, <2>1 DEF GatewayTypes
  <2> QED BY <1>1, <2>1, <2>2, <2>3, FewerAsk DEF GatewayBounds
<1>5. ASSUME NEW t \in Handlers, G!Serve(t)
      PROVE  GatewayBounds'
  <2>1. CASE G!Request(t)
    BY <2>1, OneAsks
  <2>2. CASE G!Allow(t)
    BY <2>2, OneIsAdmitted
  <2>3. CASE G!MintCounts(t) \/ G!Mint(t) \/ G!Revoke(t)
    <3>1. UNCHANGED <<expired, requests, admitted>> /\ tokens' \subseteq spent' /\ spent \subseteq spent'
      BY <1>1, <2>3 DEF G!MintCounts, G!Mint, G!Revoke, GatewayBounds
    <3>2. Asking' \subseteq Asking
      BY <1>1, <2>3 DEF G!MintCounts, G!Mint, G!Revoke, G!Go, G!Leave, GatewayTypes, Asking
    <3>3. expired' \subseteq spent' /\ \A k \in Tokens : admitted'[k] <= admitted[k]
      BY <1>1, <3>1 DEF GatewayBounds, GatewayTypes
    <3> QED BY <3>1, <3>2, <3>3, FewerAsk
  <2>4. CASE \/ G!Scanned(t) \/ G!DeleteExpired(t) \/ G!ReadRate(t) \/ G!ReadBody(t)
             \/ G!Send(t) \/ G!Failed(t) \/ G!Relay(t) \/ G!RecordStatus(t)
    <3>1. UNCHANGED <<expired, requests, admitted, spent>> /\ tokens' \subseteq tokens
      BY <2>4 DEF G!Scanned, G!DeleteExpired, G!ReadRate, G!ReadBody, G!Send, G!Failed, G!Relay, G!RecordStatus, G!table
    <3>2. Asking' \subseteq Asking
      <4>1. CASE G!Scanned(t) \/ G!DeleteExpired(t) \/ G!ReadRate(t)
        <5>1. t \in Asking /\ \A u \in Handlers : u # t => gatewayAt'[u] = gatewayAt[u]
          BY <1>1, <4>1 DEF G!Scanned, G!DeleteExpired, G!ReadRate, G!Denied, G!GatewayError, G!Go, G!Leave, GatewayTypes, Asking
        <5> QED BY <5>1 DEF Asking
      <4>2. CASE G!ReadBody(t) \/ G!Send(t) \/ G!Failed(t) \/ G!Relay(t) \/ G!RecordStatus(t)
        <5>1. \E to \in {"idle", "send", "relay", "failed", "record"} : gatewayAt' = [gatewayAt EXCEPT ![t] = to]
          BY <4>2 DEF G!ReadBody, G!Send, G!Failed, G!Relay, G!RecordStatus, G!GatewayError, G!Lose, G!Go, G!Leave
        <5> QED BY <1>1, <5>1 DEF GatewayTypes, Asking
      <4> QED BY <2>4, <4>1, <4>2
    <3>3. /\ tokens' \subseteq spent' /\ expired' \subseteq spent'
          /\ \A k \in Tokens : admitted'[k] <= admitted[k]
      BY <1>1, <3>1 DEF GatewayBounds, GatewayTypes
    <3> QED BY <3>1, <3>2, <3>3, FewerAsk
  <2> QED BY <1>5, <2>1, <2>2, <2>3, <2>4 DEF G!Serve
<1> QED BY <1>2, <1>3, <1>4, <1>5 DEF G!Next

LEMMA GatewayTypesHold ==
    ASSUME GatewayTyped
    PROVE  G!TypeOK
<1>1. GatewayTypes /\ GatewayBounds
  BY DEF GatewayTyped, GatewayInv, RateInv
<1>2. ASSUME NEW k \in Tokens
      PROVE  admitted[k] \in 0 .. MaxRequests
  <2>1. Cardinality(Asking) \in Nat
    BY GatewayAssumption, FS_Subset, FS_CardinalityType DEF Asking
  <2>2. admitted[k] \in Nat /\ admitted[k] + Cardinality(Asking) <= requests /\ requests \in 0 .. MaxRequests
    BY <1>1 DEF GatewayTypes, GatewayBounds
  <2> QED BY <2>1, <2>2, GatewayAssumption
<1>3. \A t \in Handlers : serving[t].token \in Tokens \cup {NoToken}
  BY <1>1 DEF GatewayTypes, Servings
<1>4. admitted \in [Tokens -> 0 .. MaxRequests]
  BY <1>1, <1>2 DEF GatewayTypes
<1> QED BY <1>1, <1>3, <1>4 DEF GatewayTypes, GatewayBounds, GatewayPlaces, Levels, G!TypeOK

\* Containers, and the processes that keep them.
PoolTyped ==
    /\ createdBoxes \in 0 .. MaxContainers /\ ready \subseteq Processes
    /\ restarted \subseteq Mortal /\ early \subseteq Q!Executions

LEMMA PoolBoundsHold ==
    ASSUME PoolTyped, Q!Next \/ UNCHANGED qVars
    PROVE  PoolTyped'
<1>1. CASE UNCHANGED qVars
  BY <1>1 DEF qVars, PoolTyped
<1>2. ASSUME NEW e \in Q!Executions, Q!Execute(e)
      PROVE  PoolTyped'
  <2>1. UNCHANGED <<ready, restarted>> /\ early' \subseteq early
    BY <1>2 DEF Q!Execute, Q!EnforceLimit, Q!CreateFails, Q!Create, Q!Track, Q!Waited, Q!TimedOut,
                Q!Forget, Q!Remove, Q!Exit, Q!Leave
  <2>2. createdBoxes' = createdBoxes \/ Q!NewContainer
    BY <1>2 DEF Q!Execute, Q!EnforceLimit, Q!CreateFails, Q!Create, Q!Track, Q!Waited, Q!TimedOut,
                Q!Forget, Q!Remove, Q!Exit, Q!daemon
  <2>3. createdBoxes' \in 0 .. MaxContainers
    BY <2>2, PoolAssumption DEF PoolTyped, Q!NewContainer
  <2> QED BY <2>1, <2>3 DEF PoolTyped
<1>3. ASSUME NEW p \in Processes, Q!CleanUp(p) \/ Q!Restart(p)
      PROVE  PoolTyped'
  <2>1. /\ UNCHANGED createdBoxes /\ ready' \subseteq ready \cup {p}
        /\ restarted' \subseteq Mortal /\ early' \subseteq early \cup Q!Executions
    BY <1>3 DEF PoolTyped, Q!CleanUp, Q!ListOrphans, Q!SweepOne, Q!Serve, Q!Restart, Q!daemon, Q!Own, Q!Executions
  <2> QED BY <2>1 DEF PoolTyped
<1> QED BY <1>1, <1>2, <1>3 DEF Q!Next

LEMMA PoolTypesHold ==
    ASSUME PoolInv, PoolTyped
    PROVE  Q!TypeOK
BY DEF PoolInv, PoolTyped, PoolTypes, Numbers, Stations, Exits, Results, Q!TypeOK

\* Runs of other services.
LEMMA ExternalBoundsHold ==
    ASSUME Y!TypeOK, Y!Next \/ UNCHANGED yVars
    PROVE  Y!TypeOK'
<1>1. CASE UNCHANGED yVars
  BY <1>1 DEF yVars, Y!TypeOK
<1>2. CASE Y!Crash
  BY <1>2, ExternalAssumption DEF Y!Crash, Y!service, Y!reader, Y!TypeOK
<1>3. ASSUME NEW r \in Runs, Y!Serve(r)
      PROVE  Y!TypeOK'
  <2>1. CASE Y!Post(r) \/ Y!Remember(r) \/ Y!CreateRow(r)
    BY <2>1 DEF Y!Post, Y!Remember, Y!CreateRow, Y!Move, Y!service, Y!reader, Y!TypeOK
  <2>2. CASE Y!Command(r)
    <3>1. PICK c \in Y!Commands, done \in BOOLEAN, reply \in BOOLEAN :
            /\ remote' = [remote EXCEPT ![r] = IF done THEN Y!After(@, c) ELSE @]
            /\ answered' = [answered EXCEPT ![r] = IF reply THEN @ \cup {c} ELSE @]
      BY <2>2 DEF Y!Command
    <3>2. Y!After(remote[r], c) \in {"none", "running", "paused", "ended"}
      BY <3>1 DEF Y!After, Y!Commands, Y!TypeOK
    <3> QED BY <2>2, <3>1, <3>2 DEF Y!Command, Y!reader, Y!TypeOK
  <2>3. CASE Y!Emit(r)
    <3>1. emitted[r] + 1 \in 0 .. MaxEvents
      BY <2>3, ExternalAssumption DEF Y!Emit, Y!TypeOK
    <3> QED BY <2>3, <3>1 DEF Y!Emit, Y!reader, Y!TypeOK
  <2>4. CASE Y!StreamEvents(r)
    <3>1. PICK Numbered, S : Numbered = Y!Numbered(r) /\ S = 0 .. MaxEvents
      OBVIOUS
    <3>2. emitted[r] \in S /\ delivered[r] \in Seq(S) /\ cursor[r] \in Nat
      BY <3>1, ExternalAssumption DEF Y!TypeOK
    <3>3. Numbered \in Seq(S) /\ Len(Numbered) \in 0 .. MaxEvents + 1
      <4>1. CASE emitted[r] = 0
        <5>1. Numbered = <<0>>
          BY <3>1, <4>1 DEF Y!Numbered
        <5> QED BY <3>1, <5>1, ExternalAssumption
      <4>2. CASE emitted[r] # 0
        <5>1. PICK n \in Nat : n = emitted[r] /\ n <= MaxEvents
          BY <3>1, <3>2, ExternalAssumption
        <5>2. Numbered = [i \in 1 .. n |-> i]
          BY <3>1, <4>2, <5>1 DEF Y!Numbered
        <5> QED BY <3>1, <5>1, <5>2, ExternalAssumption
      <4> QED BY <4>1, <4>2
    <3>4. /\ delivered' = [delivered EXCEPT ![r] = @ \o SubSeq(Numbered, cursor[r] + 1, Len(Numbered))]
          /\ cursor' = [cursor EXCEPT ![r] = Len(Numbered)]
      BY <2>4, <3>1 DEF Y!StreamEvents
    <3>5. SubSeq(Numbered, cursor[r] + 1, Len(Numbered)) \in Seq(S)
      BY <3>2, <3>3
    <3>6. delivered[r] \o SubSeq(Numbered, cursor[r] + 1, Len(Numbered)) \in Seq(S)
      BY <3>2, <3>5
    <3>7. delivered' \in [Runs -> Seq(S)] /\ cursor' \in [Runs -> 0 .. MaxEvents + 1]
      BY <3>1, <3>3, <3>4, <3>6 DEF Y!TypeOK
    <3> QED BY <2>4, <3>1, <3>7 DEF Y!StreamEvents, Y!service, Y!TypeOK
  <2> QED BY <1>3, <2>1, <2>2, <2>3, <2>4 DEF Y!Serve
<1> QED BY <1>1, <1>2, <1>3 DEF Y!Next

\* What a call finds in the world.
WorldTypes ==
    /\ passed \subseteq T!Places /\ face \subseteq T!Tools
    /\ disk \in T!Leads /\ binary \in T!Binaries /\ keyHeld \in BOOLEAN

LEMMA WorldStays ==
    ASSUME WorldTypes, T!Next \/ UNCHANGED tVars
    PROVE  WorldTypes'
<1>1. CASE UNCHANGED tVars
  BY <1>1 DEF tVars, WorldTypes
<1>2. CASE T!Drift \/ T!Redeploy
  BY <1>2 DEF T!Drift, T!Redeploy, T!Assembled, WorldTypes
<1>3. ASSUME T!Next, ~(T!Drift \/ T!Redeploy)
      PROVE  UNCHANGED <<face, disk, binary, keyHeld>> /\ passed' \subseteq passed \cup T!Places
  <2>1. CASE T!Whitelist \/ T!Path \/ T!Danger \/ T!Authorize
    BY <2>1 DEF T!Whitelist, T!Path, T!Danger, T!Authorize, T!Gate, T!world, T!Places
  <2>2. CASE T!Risk \/ T!Persist \/ T!Execute \/ T!AuditFails \/ T!RecordExecuted \/ T!Register
             \/ T!Block \/ T!MarkRejected
    BY <2>2 DEF T!Risk, T!Persist, T!Execute, T!AuditFails, T!RecordExecuted, T!Register, T!Block,
                T!MarkRejected, T!Answer, T!world
  <2>3. CASE T!NothingApproved \/ T!TwoBodies \/ T!Restore \/ T!ExpireBody \/ T!Age \/ T!PurgeExpired
    BY <2>3 DEF T!NothingApproved, T!TwoBodies, T!Restore, T!ExpireBody, T!Age, T!PurgeExpired, T!Answer, T!world
  <2>4. CASE \E approve \in BOOLEAN : T!Decide(approve)
    BY <2>4 DEF T!Decide, T!world
  <2>5. CASE \E tool \in T!Tools, fits, policy \in BOOLEAN, words \in {"plain", "denied"} :
                T!Ask(tool, fits, words, policy)
    BY <2>5 DEF T!Ask, T!world
  <2> QED BY <1>3, <2>1, <2>2, <2>3, <2>4, <2>5 DEF T!Next, T!Pass
<1>4. CASE T!Next /\ ~(T!Drift \/ T!Redeploy)
  BY <1>3, <1>4 DEF WorldTypes
<1> QED BY <1>1, <1>2, <1>4

LEMMA ToolTypesHold ==
    ASSUME ToolsInv, WorldTypes
    PROVE  T!TypeOK
BY DEF ToolsInv, PassTypes, WorldTypes, ActionRecords, RegisterRecords, T!TypeOK

-----------------------------------------------------------------------------
(*                           Every part at once                             *)

\* Every part's invariant, with the bounds of its types.
PartsInv ==
    /\ SharingInv /\ ExportInv /\ NoticeInv /\ ProbeInv /\ ImportInv
    /\ GatewayTyped /\ PoolInv /\ PoolTyped /\ Y!TypeOK /\ ToolsInv /\ WorldTypes

LEMMA PartsOfSystem ==
    ASSUME PartsInv, [Next]_vars
    PROVE  PartsInv'
<1>1. SharingInv' /\ ExportInv' /\ NoticeInv' /\ ProbeInv' /\ ImportInv'
  BY SharingOfSystem, ExportOfSystem, NoticesOfSystem, ProbeOfSystem, ImportOfSystem DEF PartsInv
<1>2. GatewayInv' /\ PoolInv' /\ ToolsInv'
  BY GatewayOfSystem, PoolOfSystem, ToolsOfSystem DEF PartsInv, GatewayTyped
<1>3. /\ G!Next \/ UNCHANGED gVars
      /\ Q!Next \/ UNCHANGED qVars
      /\ Y!Next \/ UNCHANGED yVars
      /\ T!Next \/ UNCHANGED tVars
  BY DEF Next, vars
<1>4. GatewayBounds'
  BY <1>2, <1>3, BoundsHold DEF PartsInv, GatewayInv, RateInv
<1>5. PoolTyped' /\ Y!TypeOK' /\ WorldTypes'
  BY <1>3, PoolBoundsHold, ExternalBoundsHold, WorldStays DEF PartsInv
<1> QED BY <1>1, <1>2, <1>4, <1>5 DEF PartsInv, GatewayTyped

LEMMA PartsInit ==
    ASSUME Init
    PROVE  PartsInv
<1>1. /\ H!Init /\ X!Init /\ N!Init /\ G!Init /\ Q!Init /\ Y!Init /\ T!Init /\ B!Init /\ K!Init
      /\ part \in Parts
  BY DEF Init
<1>2. GatewayInv /\ PoolInv /\ ToolsInv
  BY <1>1, GatewayInit, PoolInit, ToolsInit
<1>3. GatewayBounds
  <2>1. /\ tokens = {} /\ expired = {} /\ spent = {} /\ admitted = [k \in Tokens |-> 0]
        /\ gatewayAt = [t \in Handlers |-> "idle"] /\ requests = 0
    BY <1>1 DEF G!Init
  <2>2. Asking = {} /\ Cardinality({}) = 0
    BY <2>1, FS_EmptySet DEF Asking
  <2> QED BY <2>1, <2>2, GatewayAssumption DEF GatewayBounds
<1>4. PoolTyped
  BY <1>1, PoolAssumption DEF Q!Init, PoolTyped
<1>5. Y!TypeOK
  <2>1. PICK S : S = 0 .. MaxEvents
    OBVIOUS
  <2>2. 0 \in S /\ <<>> \in Seq(S)
    BY <2>1, ExternalAssumption
  <2>3. 0 \in 0 .. MaxEvents + 1 /\ 0 \in 0 .. MaxCrashes
    BY ExternalAssumption
  <2> QED BY <1>1, <2>1, <2>2, <2>3 DEF Y!Init, Y!TypeOK
<1>6. WorldTypes
  BY <1>1 DEF T!Init, T!Assembled, WorldTypes
<1> QED BY <1>1, <1>2, <1>3, <1>4, <1>5, <1>6, SharingInit, ExportInit, NoticeInit, ProbeInit, ImportInit
        DEF PartsInv, GatewayTyped

\* Every variable has its type, in every part: the numbers keep within their
\* bounds, and nobody is at a place the code does not have.
THEOREM OperationsTyped == Spec => []TypeOK
<1>1. Init => PartsInv
  BY PartsInit
<1>2. PartsInv /\ [Next]_vars => PartsInv'
  BY PartsOfSystem
<1>3. PartsInv => TypeOK
  <2>1. SUFFICES ASSUME PartsInv PROVE TypeOK
    OBVIOUS
  <2>2. H!TypeOK /\ X!TypeOK /\ N!TypeOK /\ B!TypeOK /\ K!TypeOK /\ Y!TypeOK
    BY <2>1 DEF PartsInv, SharingInv, SharingTypes, ExportInv, ExportTypes, NoticeInv, NoticeTypes,
                ProbeInv, ProbeTypes, ImportInv, ImportTypes
  <2>3. G!TypeOK /\ Q!TypeOK /\ T!TypeOK
    BY <2>1, GatewayTypesHold, PoolTypesHold, ToolTypesHold DEF PartsInv
  <2> QED BY <2>2, <2>3 DEF TypeOK
<1> QED BY <1>1, <1>2, <1>3, PTL DEF Spec
=============================================================================

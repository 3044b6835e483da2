---------------------------- MODULE EditSessions ----------------------------
(***************************************************************************)
(* The records that planner sessions leave on the disk and the retention   *)
(* passes over them (src/src/gemini_session.rs).                           *)
(*                                                                         *)
(* Passes are made by whoever lists the sessions, and by every planner     *)
(* before its session and after it; nothing locks the records.  A pass     *)
(* takes the time, visits the session directories one after the other,     *)
(* writes a record back when its times lie in the future of the pass or    *)
(* its lease has run out, and then prunes what it has seen.  Steps of the  *)
(* workers and of other passes come in between.                            *)
(*                                                                         *)
(* A directory without a complete record is invisible to passes, so a      *)
(* session is here from the moment its record is written.  Sizes count the *)
(* record as one unit and its WAV files as another.                        *)
(***************************************************************************)
EXTENDS Integers, FiniteSets, Sequences, SequencesExt

CONSTANTS
    Sessions,               \* bound: sessions there can be, in the order they are made
    Passes,                 \* those who apply retention
    RUNNING_SESSION_LEASE,
    MAXIMUM_AGE, MAXIMUM_COUNT, MAXIMUM_BYTES,
    PASS_TIME,              \* a pass takes no longer
    LAST_TIME               \* bound of the clock

ASSUME SessionsAssumption ==
    /\ Sessions \subseteq Nat \ {0} /\ IsFiniteSet(Sessions)
    /\ {RUNNING_SESSION_LEASE, MAXIMUM_AGE, MAXIMUM_COUNT, MAXIMUM_BYTES,
        PASS_TIME, LAST_TIME} \subseteq Nat

VARIABLES
    clock,
    records,    \* session.json of each session there is
    pass        \* what each pass knows

sessionVars == <<clock, records, pass>>

Present == DOMAIN records

Resting == [at |-> "rest"]

SessionRecords ==
    [status : {"running", "completed", "failed"}, updated : Nat, audio : BOOLEAN]

Record(status) == [status |-> status, updated |-> clock, audio |-> FALSE]

Put(id, record) ==
    records' = [s \in Present \cup {id} |-> IF s = id THEN record ELSE records[s]]

\* update_status of the worker, which reads the record and writes it back.
update_status(id, status) ==
    Put(id, [records[id] EXCEPT !.status = status, !.updated = clock])

record_audio(id) == Put(id, [records[id] EXCEPT !.audio = TRUE])

----------------------------------------------------------------------------
Started(directories) == [at |-> "visiting", now |-> clock, todo |-> directories, seen |-> {}]

BeginPass(a) ==
    /\ pass[a] = Resting
    /\ pass' = [pass EXCEPT ![a] = Started(Present)]
    /\ UNCHANGED <<clock, records>>

\* What a pass makes of a record: no time lies in its future, and a session that
\* runs without an update for longer than the lease has lost its worker.
Clamped(record, now) == IF record.updated > now THEN [record EXCEPT !.updated = now] ELSE record

LeaseIsOver(record, now) ==
    record.status = "running" /\ now - record.updated > RUNNING_SESSION_LEASE

\* A plausible slip: the lease is over when it has been used up.
LeaseEndsEarly(record, now) ==
    LET known == Clamped(record, now)
    IN IF record.status = "running" /\ now - known.updated >= RUNNING_SESSION_LEASE
       THEN [known EXCEPT !.status = "failed", !.updated = now] ELSE known

\* A plausible slip: only a time in the future makes a pass write the record.
AbandonedIsLeft(record, now) == Clamped(record, now)

Reconciled(record, now) ==
    LET known == Clamped(record, now)
    IN IF LeaseIsOver(known, now) THEN [known EXCEPT !.status = "failed", !.updated = now]
       ELSE known

Seen(id, record) ==
    [id |-> id, updated |-> record.updated, running |-> record.status = "running",
     audio |-> record.audio]

\* A record is read.  A directory that is gone by now is passed over.
Visit(a) ==
    /\ pass[a].at = "visiting"
    /\ \E id \in pass[a].todo :
        \/ /\ id \notin Present
           /\ pass' = [pass EXCEPT ![a].todo = @ \ {id}]
        \/ /\ id \in Present
           /\ LET known == Reconciled(records[id], pass[a].now)
              IN \/ /\ known = records[id]
                    /\ pass' = [pass EXCEPT ![a].todo = @ \ {id},
                                            ![a].seen = @ \cup {Seen(id, known)}]
                 \/ /\ known # records[id]
                    /\ pass' = [pass EXCEPT ![a] =
                          [at |-> "writing", now |-> @.now, todo |-> @.todo, seen |-> @.seen,
                           id |-> id, record |-> known]]
    /\ UNCHANGED <<clock, records>>

Fails(a) == pass' = [pass EXCEPT ![a] = [at |-> "failed"]]

\* The changed record is written over whatever the file holds by now, WAV files
\* being files of their own.  In a directory that is gone the write fails, and
\* with it the pass.
Rewrite(a) ==
    /\ pass[a].at = "writing"
    /\ LET id == pass[a].id
       IN \/ /\ id \in Present
             /\ Put(id, [pass[a].record EXCEPT !.audio = records[id].audio])
             /\ pass' = [pass EXCEPT ![a] =
                   [at |-> "visiting", now |-> @.now, todo |-> @.todo \ {id},
                    seen |-> @.seen \cup {Seen(id, records'[id])}]]
          \/ /\ id \notin Present
             /\ Fails(a) /\ UNCHANGED records
    /\ UNCHANGED clock

\* The order in which sessions go: the longest untouched first.
Orders(seen) ==
    {order \in SetToSeqs(seen) :
        \A i, j \in DOMAIN order : i < j => order[i].updated <= order[j].updated}

Bytes(seen) == Cardinality(seen) + Cardinality({s \in seen : s.audio})

Expired(s, now) == now - s.updated > MAXIMUM_AGE

\* First the WAV files of closed sessions that are too old, or too big together.
Silenced(seen, order, now) ==
    FoldLeft(LAMBDA left, s :
                 IF ~s.running /\ (Expired(s, now) \/ Bytes(left) > MAXIMUM_BYTES)
                 THEN (left \ {s}) \cup {[s EXCEPT !.audio = FALSE]} ELSE left,
             seen, order)

\* Then the sessions themselves, also when there are too many.
Retained(seen, order, now) ==
    FoldLeft(LAMBDA left, s :
                 IF ~s.running /\ (\/ Expired(s, now) \/ Cardinality(left) > MAXIMUM_COUNT
                                   \/ Bytes(left) > MAXIMUM_BYTES)
                 THEN {kept \in left : kept.id # s.id} ELSE left,
             seen, order)

\* A plausible slip: sessions go before their WAV files.
DeletesFirst(seen, order, now) == Retained(seen, order, now)

Pruned(seen, order, now) ==
    Retained(Silenced(seen, order, now), order, now)

Prune(a) ==
    /\ pass[a].at = "visiting" /\ pass[a].todo = {}
    /\ \E order \in Orders(pass[a].seen) :
        LET seen == pass[a].seen
            now == pass[a].now
            silent == {s.id : s \in seen \ Silenced(seen, order, now)}
            gone == {s.id : s \in seen} \ {s.id : s \in Pruned(seen, order, now)}
        IN records' = [s \in Present \ gone |->
                          IF s \in silent THEN [records[s] EXCEPT !.audio = FALSE] ELSE records[s]]
    /\ pass' = [pass EXCEPT ![a] = [at |-> "ended"]]
    /\ UNCHANGED clock

PassStep(a) == Visit(a) \/ Rewrite(a) \/ Prune(a)

\* The caller of a pass takes its result.
Ended(a) == pass[a].at \in {"ended", "failed"}
TakeResult(a) == Ended(a) /\ pass' = [pass EXCEPT ![a] = Resting]
=============================================================================

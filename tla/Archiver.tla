------------------------------ MODULE Archiver ------------------------------
(***************************************************************************)
(* src/src/database_archiver.py: DatabaseArchiver copies a week of ticks   *)
(* into a Parquet file and deletes old ones, and ErrorStateRecovery keeps  *)
(* an error count in a file over crashes of the program.                   *)
(*                                                                         *)
(* One tick is inserted per unit of time and stands for its time; a day is *)
(* Day units.  The database is external: a query is one step there.        *)
(***************************************************************************)
EXTENDS Integers, Sequences, FiniteSets

CONSTANTS Day, Keep, Chunk,      \* a day, days_to_keep, the seven days of a chunk
          MaxTime, MaxDeletes,   \* bounds
          MaxAttempts,           \* max_attempts of attempt_recovery()
          MaxErrors, MaxCrashes  \* bounds

VARIABLES now, db,               \* the clock, and the ticks in the database
          pool,                  \* "none", "open"
          job,                   \* window <<start, end>> of the running archive_table(), or << >>
          files,                 \* ticks in the file of each start day; {} if there is none
          last,                  \* history: window of the last job that completed
          deleted, deletes,      \* history: ticks deleted
          disciplined,           \* history: archived and deleted as described below
          program,               \* of ErrorStateRecovery: "fresh", "up", or "writing"
          error_count, attempts, \* _error_count, _recovery_attempts
          state_file,            \* << >>, <<"garbled">>, or <<error_count, attempts>>
          crashes,
          recorded,              \* history: errors recorded and not cleared
          forgetful              \* history: a crash met a write, or a run began without load_state()

archive_vars == <<now, db, pool, job, files, last, deleted, deletes, disciplined>>
error_vars == <<program, error_count, attempts, state_file, crashes, recorded, forgetful>>
vars == <<archive_vars, error_vars>>

Days == 0..(MaxTime \div Day)

TypeOK ==
  /\ db \subseteq 0..now /\ now \in 0..MaxTime
  /\ pool \in {"none", "open"}
  /\ job = << >> \/ (Len(job) = 2 /\ job[1] < job[2])
  /\ files \in [Days -> SUBSET (0..MaxTime)]
  /\ program \in {"fresh", "up", "writing"}
  /\ error_count \in 0..MaxErrors /\ attempts \in 0..(MaxAttempts + 1)

Init ==
  /\ now = Keep + Chunk /\ db = {Keep + Chunk}
  /\ pool = "none" /\ job = << >> /\ files = [d \in Days |-> {}]
  /\ last = << >> /\ deleted = {} /\ deletes = 0 /\ disciplined = TRUE
  /\ program = "fresh" /\ error_count = 0 /\ attempts = 0 /\ state_file = << >>
  /\ crashes = 0 /\ recorded = 0 /\ forgetful = FALSE

-----------------------------------------------------------------------------
(* DatabaseArchiver                                                        *)

Tick ==
  /\ now < MaxTime
  /\ now' = now + 1 /\ db' = db \cup {now + 1}
  /\ UNCHANGED <<pool, job, files, last, deleted, deletes, disciplined, error_vars>>

\* connect() that succeeds; disconnect() waits for the running query.
Connect ==
  /\ pool = "none"
  /\ pool' = "open"
  /\ UNCHANGED <<now, db, job, files, last, deleted, deletes, disciplined, error_vars>>

Disconnect ==
  /\ pool = "open" /\ job = << >>
  /\ pool' = "none"
  /\ UNCHANGED <<now, db, job, files, last, deleted, deletes, disciplined, error_vars>>

\* archive_tick_data(): the window is taken from the clock, then the query is awaited.
\* Without a pool the job fails at once.
\* The caller is disciplined if the window meets the last one and begins on a later day.
ArchiveTickData ==
  /\ pool = "open" /\ job = << >>
  /\ LET end == now - Keep
         start == end - Chunk IN
       /\ job' = <<start, end>>
       /\ disciplined' = (disciplined /\ IF last = << >> THEN \A t \in db : t >= start
                                         ELSE start <= last[2] /\ start \div Day > last[1] \div Day)
  /\ UNCHANGED <<now, db, pool, files, last, deleted, deletes, error_vars>>

Selected_AfterStart(window) == {t \in db : window[1] < t /\ t < window[2]}

\* The query of _fetch_data()
Selected(window) == {t \in db : window[1] <= t /\ t < window[2]}

\* The rows arrive and are written, over whatever the file of that day held; without rows no
\* file is written.
Fetched ==
  /\ job # << >>
  /\ job' = << >> /\ last' = job
  /\ files' = IF Selected(job) = {} THEN files
              ELSE [files EXCEPT ![job[1] \div Day] = Selected(job)]
  /\ UNCHANGED <<now, db, pool, deleted, deletes, disciplined, error_vars>>

\* The query or the write raises: the job is "failed", the file as it was.
FetchFails ==
  /\ job # << >>
  /\ job' = << >>
  /\ UNCHANGED <<now, db, pool, files, last, deleted, deletes, disciplined, error_vars>>

\* delete_archived_data() deletes what is older than before, archived or not.  The caller is
\* disciplined if the last archive ended there or later.
DeleteArchivedData(before) ==
  /\ pool = "open" /\ deletes < MaxDeletes
  /\ deletes' = deletes + 1
  /\ db' = {t \in db : t >= before}
  /\ deleted' = deleted \cup {t \in db : t < before}
  /\ disciplined' = (disciplined /\ last # << >> /\ before <= last[2])
  /\ UNCHANGED <<now, pool, job, files, last, error_vars>>

-----------------------------------------------------------------------------
(* ErrorStateRecovery                                                      *)

\* save_state(): the file is truncated, then written.
BeginSave ==
  /\ program' = "writing"
  /\ state_file' = <<"garbled">>

EndSave ==
  /\ program = "writing"
  /\ program' = "up"
  /\ state_file' = <<error_count, attempts>>
  /\ UNCHANGED <<archive_vars, error_count, attempts, crashes, recorded, forgetful>>

\* load_state(): without a file, or with one that does not parse, the counts stay.
LoadState ==
  /\ program = "fresh"
  /\ program' = "up"
  /\ IF state_file \in {<< >>, <<"garbled">>} THEN UNCHANGED <<error_count, attempts>>
     ELSE error_count' = state_file[1] /\ attempts' = state_file[2]
  /\ UNCHANGED <<archive_vars, state_file, crashes, recorded, forgetful>>

\* record_error(), by a program that has loaded its state or not
RecordError ==
  /\ program # "writing" /\ recorded < MaxErrors /\ error_count < MaxErrors
  /\ error_count' = error_count + 1 /\ recorded' = recorded + 1
  /\ forgetful' = (forgetful \/ (program = "fresh" /\ state_file # << >>))
  /\ BeginSave
  /\ UNCHANGED <<archive_vars, attempts, crashes>>

\* attempt_recovery() counts in memory only.
AttemptRecovery ==
  /\ program = "up" /\ attempts <= MaxAttempts
  /\ attempts' = attempts + 1
  /\ UNCHANGED <<archive_vars, program, error_count, state_file, crashes, recorded, forgetful>>

\* clear_error_state() forgets in memory only.
ClearErrorState ==
  /\ program = "up" /\ error_count > 0
  /\ error_count' = 0 /\ attempts' = 0
  /\ forgetful' = TRUE
  /\ UNCHANGED <<archive_vars, program, state_file, crashes, recorded>>

\* The program dies and starts again.
Crash ==
  /\ crashes < MaxCrashes
  /\ crashes' = crashes + 1
  /\ program' = "fresh" /\ error_count' = 0 /\ attempts' = 0
  /\ forgetful' = (forgetful \/ program = "writing")
  /\ UNCHANGED <<archive_vars, state_file, recorded>>

ArchiveNext ==
  \/ Tick \/ Connect \/ Disconnect \/ ArchiveTickData \/ Fetched \/ FetchFails
  \/ \E before \in 0..MaxTime : DeleteArchivedData(before)

ErrorNext ==
  \/ EndSave \/ LoadState \/ RecordError \/ AttemptRecovery \/ ClearErrorState \/ Crash

Next == ArchiveNext \/ ErrorNext

Spec == Init /\ [][Next]_vars

-----------------------------------------------------------------------------
(* Properties                                                              *)

\* If every archive begins where an earlier one ended, or before, on a later day, and only what
\* lies before the end of the last one is deleted, then no deleted tick is lost, whichever
\* archives fail (archive_tick_data(), delete_archived_data()).
DeletedIsArchived == disciplined => deleted \subseteq UNION {files[d] : d \in Days}

\* Errors recorded are counted over crashes, unless a crash met the write, a run recorded an
\* error before load_state(), or the count was cleared (record_error(), load_state()).
ErrorsSurvive ==
  ~forgetful => /\ program # "fresh" => error_count = recorded
                /\ state_file # << >> /\ program # "writing" => state_file[1] = recorded
=============================================================================

------------------------------ MODULE AuditLog ------------------------------
(***************************************************************************)
(* The audit log (AuditLogger, src/src/security.py): the entries and the   *)
(* chained hashes kept in memory up to a limit, and the two files they are *)
(* appended to.  An entry is reduced to the fields its hash covers (error  *)
(* is not one of them), and the hash of an entry stands for all it was     *)
(* computed from: SHA-256 is taken to be without collisions.               *)
(***************************************************************************)
EXTENDS Integers, Sequences, SequencesExt

CONSTANTS Contents,     \* what an entry may say
          MaxInMemory,  \* MAX_IN_MEMORY_ENTRIES
          MaxLogged,    \* bound: entries logged by one process
          MaxRestarts   \* bound: restarts of the process

VARIABLES
  entries,    \* _entries
  hashes,     \* _entry_hashes
  logFile,    \* log_file: the hashes of its records, with the process that wrote them
  hashFile,   \* data/.audit_hashes.log, likewise
  logged,     \* all that this process has logged
  process     \* restarts so far

vars == <<entries, hashes, logFile, hashFile, logged, process>>

Hashes == UNION {[1..n -> Contents] : n \in 0..MaxLogged}
Record == [by: 0..MaxRestarts, hash: Hashes]

TypeOK ==
  /\ entries \in Seq(Contents) /\ Len(entries) <= MaxInMemory
  /\ hashes \in Seq(Hashes) /\ Len(hashes) = Len(entries)
  /\ logFile \in Seq(Record) /\ hashFile \in Seq(Record)
  /\ logged \in Seq(Contents) /\ Len(logged) <= MaxLogged
  /\ process \in 0..MaxRestarts

-----------------------------------------------------------------------------
Genesis == << >>

\* _compute_entry_hash()
EntryHash(entry, prev) == Append(prev, entry)

PrevHash_First == IF hashes = << >> THEN Genesis ELSE Head(hashes)

PrevHash == IF hashes = << >> THEN Genesis ELSE Last(hashes)

\* deque(maxlen=...).append()
Push(s, x) == Append(IF Len(s) < MaxInMemory THEN s ELSE Tail(s), x)

\* open(file, 'a'), write; an error is logged and forgotten.
Written(file, hash) == {file, Append(file, [by |-> process, hash |-> hash])}

Init ==
  /\ entries = << >> /\ hashes = << >> /\ logged = << >>
  /\ logFile = << >> /\ hashFile = << >>
  /\ process = 0

\* log_trade() and log_security_event()
Log(content) ==
  LET hash == EntryHash(content, PrevHash) IN
  /\ Len(logged) < MaxLogged
  /\ entries' = Push(entries, content)
  /\ hashes' = Push(hashes, hash)
  /\ hashFile' \in Written(hashFile, hash)
  /\ logFile' \in Written(logFile, hash)
  /\ logged' = Append(logged, content)
  /\ UNCHANGED process

\* verify_integrity()
VerifyIntegrity ==
  \A i \in 1..Len(entries) :
    hashes[i] = EntryHash(entries[i], IF i = 1 THEN Genesis ELSE hashes[i - 1])

\* Somebody holds an entry of get_entries() and assigns to one of its fields.
Alter(i, content) ==
  /\ entries[i] # content
  /\ entries' = [entries EXCEPT ![i] = content]
  /\ UNCHANGED <<hashes, logFile, hashFile, logged, process>>

\* The process ends, at any point, and a new one starts a log of its own.
Restart ==
  /\ process < MaxRestarts
  /\ process' = process + 1
  /\ entries' = << >> /\ hashes' = << >> /\ logged' = << >>
  /\ UNCHANGED <<logFile, hashFile>>

Next ==
  \/ \E c \in Contents : Log(c)
  \/ \E i \in 1..Len(entries), c \in Contents : Alter(i, c)
  \/ Restart

Spec == Init /\ [][Next]_vars

-----------------------------------------------------------------------------
(* Properties                                                              *)

\* The last n entries this process logged.
LastLogged(n) == SubSeq(logged, Len(logged) - n + 1, Len(logged))

\* "Maintains a tamper-evident log" (AuditLogger): what verify_integrity() accepts is
\* what was logged, whatever was done to the entries and however many were evicted.
AcceptedIsLogged == VerifyIntegrity => entries = LastLogged(Len(entries))

\* "Compute hash of entry chained with previous hash" (_compute_entry_hash()): a record in a
\* file commits to every earlier record of its process, across evictions and lost writes.
InChainOrder(file) ==
  \A i, j \in 1..Len(file) :
    i < j /\ file[i].by = file[j].by => IsStrictPrefix(file[i].hash, file[j].hash)

FilesCommit == InChainOrder(logFile) /\ InChainOrder(hashFile)

\* "True if log chain is valid" (verify_integrity()): until the first eviction, a log nobody
\* touched is accepted, and restored entries are accepted again.
UntouchedIsAccepted ==
  Len(logged) <= MaxInMemory /\ entries = LastLogged(Len(entries)) => VerifyIntegrity

=============================================================================

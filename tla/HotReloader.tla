----------------------------- MODULE HotReloader ----------------------------
(***************************************************************************)
(* The configuration hot reloader (src/src/config_hot_reloader.py): a      *)
(* watchdog thread, the SIGHUP handler, and reloads on the event loop, of  *)
(* a file that somebody edits meanwhile.                                   *)
(*                                                                         *)
(* A configuration gives every key a value, Absent if it lacks the key.    *)
(* Whoever writes the file truncates it first: until the rest is written   *)
(* it is "garbled", which json.load() refuses.  The file's hash is its     *)
(* content.  on_reload() changes nothing the reloader keeps.               *)
(***************************************************************************)
EXTENDS Integers, Sequences, FiniteSets

CONSTANTS Keys, Values, Absent,
          Invalid,               \* values validate_config() refuses
          MaxEdits, MaxSets, MaxSignals   \* bounds

VARIABLES file,                  \* content of config_file
          editing,               \* somebody else is writing it
          saving,                \* save() is writing it; the event loop does nothing else
          config,                \* _config
          history,               \* _change_history: key and new value
          watcher,               \* << >>, or the _last_hash of the ConfigFileHandler
          sighup,                \* the handler is installed
          scheduled,             \* reload tasks that have not run yet
          edits, sets, signals,
          sources,               \* history: configurations the file has held in full
          byhand                 \* history: keys set() since the last reload

vars == <<file, editing, saving, config, history, watcher, sighup, scheduled, edits, sets,
          signals, sources, byhand>>

Empty == [k \in Keys |-> Absent]
Configs == [Keys -> Values \cup {Absent}]
Garbled == [k \in {} |-> Absent]

TypeOK ==
  /\ file \in Configs \cup {Garbled}
  /\ editing \in BOOLEAN /\ saving \in BOOLEAN /\ sighup \in BOOLEAN
  /\ config \in Configs
  /\ \A i \in DOMAIN history : history[i] \in Keys \X Values
  /\ scheduled \in 0..MaxSignals

\* The constructor reads the file and drops what it read.
Init ==
  /\ file \in Configs /\ editing = FALSE /\ saving = FALSE
  /\ config = Empty /\ history = << >>
  /\ watcher = << >> /\ sighup = FALSE /\ scheduled = 0
  /\ edits = 0 /\ sets = 0 /\ signals = 0
  /\ sources = {file} /\ byhand = {}

-----------------------------------------------------------------------------
(* The file                                                                *)

EditBegins ==
  /\ ~editing /\ ~saving /\ edits < MaxEdits
  /\ editing' = TRUE /\ edits' = edits + 1
  /\ file' = Garbled
  /\ UNCHANGED <<saving, config, history, watcher, sighup, scheduled, sets, signals, sources, byhand>>

EditEnds(c) ==
  /\ editing
  /\ editing' = FALSE
  /\ file' = c /\ sources' = sources \cup {c}
  /\ UNCHANGED <<saving, config, history, watcher, sighup, scheduled, edits, sets, signals,
                 byhand>>

\* save()
SaveBegins ==
  /\ ~saving /\ ~editing /\ edits < MaxEdits
  /\ saving' = TRUE /\ edits' = edits + 1
  /\ file' = Garbled
  /\ UNCHANGED <<editing, config, history, watcher, sighup, scheduled, sets, signals, sources, byhand>>

SaveEnds ==
  /\ saving
  /\ saving' = FALSE
  /\ \/ file' = config /\ sources' = sources \cup {config}
     \/ UNCHANGED <<file, sources>>                 \* json.dump() raised half-way
  /\ UNCHANGED <<editing, config, history, watcher, sighup, scheduled, edits, sets, signals,
                 byhand>>

-----------------------------------------------------------------------------
(* What makes it reload                                                    *)

\* start_watching()
StartWatching ==
  /\ watcher = << >> /\ ~saving
  /\ watcher' = <<file>> /\ sighup' = TRUE
  /\ UNCHANGED <<file, editing, saving, config, history, scheduled, edits, sets, signals, sources, byhand>>

\* stop_watching(): the signal handler stays.
StopWatching ==
  /\ watcher # << >> /\ ~saving
  /\ watcher' = << >>
  /\ UNCHANGED <<file, editing, saving, config, history, sighup, scheduled, edits, sets, signals,
                 sources, byhand>>

\* on_modified() runs in the watchdog thread, where create_task() finds no running loop: the
\* hash is stored, the exception logged, and nothing is scheduled.
OnModified ==
  /\ watcher # << >> /\ watcher # <<file>>
  /\ watcher' = <<file>>
  /\ UNCHANGED <<file, editing, saving, config, history, sighup, scheduled, edits, sets, signals,
                 sources, byhand>>

Sighup ==
  /\ sighup /\ signals < MaxSignals
  /\ signals' = signals + 1 /\ scheduled' = scheduled + 1
  /\ UNCHANGED <<file, editing, saving, config, history, watcher, sighup, edits, sets, sources, byhand>>

-----------------------------------------------------------------------------
(* On the event loop                                                       *)

\* A key of the new configuration whose value is another than before
Differs(new, k) == new[k] # config[k]

\* _apply_config() of a configuration that validates.  The loop over its items writes their
\* changes in some order; keys it lacks leave without an entry.
ApplyConfig(new) ==
  /\ \A k \in Keys : new[k] \notin Invalid
  /\ config' = new /\ byhand' = {}
  /\ LET changed == {k \in Keys : new[k] # Absent /\ Differs(new, k)} IN
     \E order \in [1..Cardinality(changed) -> changed] :
       /\ \A k \in changed : \E i \in DOMAIN order : order[i] = k
       /\ history' = history \o [i \in DOMAIN order |-> <<order[i], new[order[i]]>>]

\* _reload_from_file(): nothing happens if the file is garbled, empty, or does not validate.
Reload ==
  \/ file \notin {Garbled, Empty} /\ ApplyConfig(file)
  \/ /\ file \in {Garbled, Empty} \/ \E k \in DOMAIN file : file[k] \in Invalid
     /\ UNCHANGED <<config, history, byhand>>

\* A scheduled reload runs.
ScheduledReload ==
  /\ ~saving /\ scheduled > 0
  /\ scheduled' = scheduled - 1
  /\ Reload
  /\ UNCHANGED <<file, editing, saving, watcher, sighup, edits, sets, signals, sources>>

\* force_reload()
ForceReload ==
  /\ ~saving /\ signals < MaxSignals
  /\ signals' = signals + 1
  /\ Reload
  /\ UNCHANGED <<file, editing, saving, watcher, sighup, scheduled, edits, sets, sources>>

\* set() is not validated and records a change, also to the same value.
Set(k, v) ==
  /\ ~saving /\ sets < MaxSets
  /\ sets' = sets + 1
  /\ config' = [config EXCEPT ![k] = v]
  /\ history' = Append(history, <<k, v>>)
  /\ byhand' = byhand \cup {k}
  /\ UNCHANGED <<file, editing, saving, watcher, sighup, scheduled, edits, signals, sources>>

Next ==
  \/ EditBegins \/ SaveBegins \/ SaveEnds \/ \E c \in Configs : EditEnds(c)
  \/ StartWatching \/ StopWatching \/ OnModified \/ Sighup
  \/ ScheduledReload \/ ForceReload
  \/ \E k \in Keys, v \in Values : Set(k, v)

Spec == Init /\ [][Next]_vars

-----------------------------------------------------------------------------
(* Properties                                                              *)

\* The last change recorded for a key in force tells its value, over reloads, sets and keys
\* that came and went (get_change_history()).
HistoryExplains ==
  \A k \in Keys : config[k] # Absent =>
    \E i \in DOMAIN history :
      /\ history[i] = <<k, config[k]>>
      /\ \A j \in DOMAIN history : j > i => history[j][1] # k

\* A file half written is never in force, nor a mixture of two versions: apart from keys set()
\* by hand since the last reload, the configuration is one the file has held in full, whenever
\* the reload came (_reload_from_file(), save()).
OneVersion ==
  \E s \in sources \cup {Empty} : \A k \in Keys \ byhand : config[k] = s[k]
=============================================================================

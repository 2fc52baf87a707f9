--------------------------------- MODULE Reload --------------------------------
(***************************************************************************)
(* The configuration in effect: a snapshot of the file, taken at the start *)
(* and again when the poller sees that the file was modified or a SIGHUP   *)
(* asks for it.  A file that is invalid leaves the snapshot as it is.      *)
(***************************************************************************)
EXTENDS Naturals, FiniteSets

CONSTANTS Configs,    \* what the sections of the file may say
          Invalid,    \* a file that does not load
          MaxEdits,   \* bound: edits of the file
          MaxSignals  \* bound: SIGHUPs

ASSUME InvalidAssumption == Invalid \notin Configs
ASSUME FileAssumption == Configs # {} /\ MaxEdits \in Nat

VARIABLES
  disk,     \* the file: what it says, and when it was modified
  snapshot, \* what is in effect, and when the file said so
  known,    \* last_modified of the poller, none before it is spawned
  load,     \* of the poller and of the worker for signals: "idle", "due", "read" or "seen"
  got,      \* what each has read
  signals,  \* SIGHUPs sent, and whether one is pending
  status,   \* generation, success_count, failure_count
  missed,   \* the last edit came between the first load and the poller
  newest    \* the newest file that ever was in effect

reloadVars == <<disk, snapshot, known, load, got, signals, status, missed, newest>>

Workers == {"poll", "sighup"}
Unspawned == MaxEdits + 1
File(at, says) == [at |-> at, says |-> says]

ReloadInit ==
  /\ disk = File(0, CHOOSE c \in Configs : TRUE) /\ snapshot = disk /\ newest = 0
  /\ known = Unspawned /\ missed = FALSE
  /\ load = [w \in Workers |-> "idle"] /\ got = [w \in Workers |-> disk]
  /\ signals = [sent |-> 0, pending |-> FALSE]
  /\ status = [generation |-> 1, successes |-> 0, failures |-> 0]

\* The user edits the file; a change of its time is what the poller sees.
EditFile ==
  /\ disk.at < MaxEdits
  /\ \E says \in Configs \cup {Invalid} : disk' = File(disk.at + 1, says)
  /\ missed' = (known = Unspawned)
  /\ UNCHANGED <<snapshot, known, load, got, signals, status, newest>>

SpawnPoller ==
  /\ known = Unspawned /\ known' = disk.at
  /\ UNCHANGED <<disk, snapshot, load, got, signals, status, missed, newest>>

(* Mutant of Poll: the time is taken after the load.                        *)
PollAfterwards ==
  /\ known # Unspawned
  /\ \/ load["poll"] = "idle" /\ known # disk.at /\ load' = [load EXCEPT !["poll"] = "due"] /\ known' = known
     \/ load["poll"] = "seen" /\ load' = [load EXCEPT !["poll"] = "idle"] /\ known' = disk.at
  /\ UNCHANGED <<disk, snapshot, got, signals, status, missed, newest>>

Poll ==
  /\ known # Unspawned
  /\ \/ load["poll"] = "idle" /\ known # disk.at /\ load' = [load EXCEPT !["poll"] = "due"] /\ known' = disk.at
     \/ load["poll"] = "seen" /\ load' = [load EXCEPT !["poll"] = "idle"] /\ known' = known
  /\ UNCHANGED <<disk, snapshot, got, signals, status, missed, newest>>

\* Signals that arrive while one is handled count as one.
Signal ==
  /\ signals.sent < MaxSignals
  /\ signals' = [sent |-> signals.sent + 1, pending |-> TRUE]
  /\ UNCHANGED <<disk, snapshot, known, load, got, status, missed, newest>>

ReceiveSignal ==
  /\ load["sighup"] \in {"idle", "seen"} /\ signals.pending
  /\ signals' = [signals EXCEPT !.pending = FALSE]
  /\ load' = [load EXCEPT !["sighup"] = "due"]
  /\ UNCHANGED <<disk, snapshot, known, got, status, missed, newest>>

\* reload_from_path reads the file, and then replaces the snapshot.
ReadFile(w) ==
  /\ load[w] = "due"
  /\ got' = [got EXCEPT ![w] = disk] /\ load' = [load EXCEPT ![w] = "read"]
  /\ UNCHANGED <<disk, snapshot, known, signals, status, missed, newest>>

Apply(w) ==
  /\ load[w] = "read" /\ load' = [load EXCEPT ![w] = "seen"]
  /\ IF got[w].says \in Configs
     THEN /\ snapshot' = got[w] /\ newest' = (IF got[w].at > newest THEN got[w].at ELSE newest)
          /\ status' = [status EXCEPT !.generation = @ + 1, !.successes = @ + 1]
     ELSE status' = [status EXCEPT !.failures = @ + 1] /\ UNCHANGED <<snapshot, newest>>
  /\ UNCHANGED <<disk, known, got, signals, missed>>

ReloadNext ==
  \/ EditFile \/ SpawnPoller \/ Poll \/ Signal \/ ReceiveSignal
  \/ \E w \in Workers : ReadFile(w) \/ Apply(w)

ReloadSpec == ReloadInit /\ [][ReloadNext]_reloadVars

-----------------------------------------------------------------------------
ReloadTypeOK ==
  /\ disk.says \in Configs \cup {Invalid} /\ snapshot.says \in Configs
  /\ snapshot.at <= newest /\ newest <= disk.at
  /\ status.generation = 1 + status.successes
  /\ load \in [Workers -> {"idle", "due", "read", "seen"}]

(* When nothing is under way, the last file has been in effect if it is     *)
(* valid and came after the poller was spawned (main.rs:195).  It still is, *)
(* unless a worker that had read an older file applied it afterwards, which *)
(* takes a signal beside a poll (runtime_config.rs:136).                    *)
SnapshotFollowsFile ==
  known # Unspawned /\ known = disk.at /\ ~ signals.pending
    /\ (\A w \in Workers : load[w] \in {"idle", "seen"})
    /\ disk.says # Invalid /\ ~ missed =>
      /\ newest = disk.at
      /\ signals.sent = 0 => snapshot = disk
=============================================================================

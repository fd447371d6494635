-------------------------- MODULE DirectoryBackup --------------------------
(***************************************************************************)
(* DirectoryBackup.cpp: a std::async copies the directory of an entry to   *)
(* each of its destinations, in a directory named after the source and the *)
(* time, after the rotation has made room for it.  With calculate_hash the *)
(* copies are compared with the source, which its user may change          *)
(* meanwhile.  The GUI asks for backups and cancels them.                  *)
(*                                                                         *)
(* All entries have the same files; the content of one is its version.     *)
(* A hash is the sequence of the versions that went into it.  No two       *)
(* backups start within the same second, the unit of their names.          *)
(***************************************************************************)
EXTENDS Naturals, Sequences, FiniteSets

CONSTANTS
  NameOrder,      \* the names of the sources, as they sort
  StartsWith,     \* the pairs of names of which the first starts with the second
  To,             \* the destinations of every entry
  Files,          \* what recursive_directory_iterator finds: a sequence of kinds
  MaxBackups,     \* max_backups
  CalculateHash,
  MaxStarts, MaxChanges, MaxFaults, MaxCancels  \* bounds

VARIABLES
  backup_future,  \* "none", "running", "ready", or "thrown" if it holds an exception
  is_cancelled,
  backup,         \* the entry DoBackup has, and the time in the name of the copy
  step,           \* where DoBackup is
  to, file,       \* the destination and the file it is at
  fail, first_run_hash, ctx_from, ctx_to,
  accepted,       \* history: what was hashed of the destinations counted in dest_count
  unhashed,       \* history: a file was not opened for its hash
  version,        \* the content of each file of the sources
  dirs,           \* the backups in each destination
  now, starts, changes, faults, cancels

doing   == <<backup, to, file, fail, first_run_hash, ctx_from, ctx_to, accepted, unhashed>>
world   == <<version, changes>>
counts  == <<now, starts, cancels>>
backupVars == <<backup_future, is_cancelled, step, doing, world, dirs, counts, faults>>

Fault == faults < MaxFaults /\ faults' = faults + 1
Rank(name) == CHOOSE i \in DOMAIN NameOrder : NameOrder[i] = name

BackupInit ==
  /\ backup_future = "none" /\ is_cancelled = FALSE
  /\ backup = [of |-> NameOrder[1], at |-> 0]
  /\ step = "idle" /\ to = 1 /\ file = 1
  /\ fail = FALSE /\ first_run_hash = FALSE /\ ctx_from = <<>> /\ ctx_to = <<>>
  /\ accepted = {} /\ unhashed = FALSE
  /\ version = [f \in DOMAIN Files |-> 0]
  /\ dirs = [t \in 1 .. To |-> {}]
  /\ now = 0 /\ starts = 0 /\ changes = 0 /\ faults = 0 /\ cancels = 0

(* The GUI: the exception of the backup before comes out of get(), and then none is started. *)
BackupFile ==
  /\ step = "idle" /\ starts < MaxStarts
  /\ starts' = starts + 1
  /\ IF backup_future = "thrown"
     THEN backup_future' = "none" /\ UNCHANGED <<step, backup, now>>
     ELSE /\ backup_future' = "running" /\ step' = "start"
          /\ now' = now + 1
          /\ \E e \in DOMAIN NameOrder : backup' = [of |-> NameOrder[e], at |-> now']
  /\ UNCHANGED <<is_cancelled, to, file, fail, first_run_hash, ctx_from, ctx_to, accepted,
                 unhashed, world, dirs, cancels, faults>>

Cancel ==
  /\ cancels < MaxCancels /\ cancels' = cancels + 1
  /\ is_cancelled' = TRUE
  /\ UNCHANGED <<backup_future, step, doing, world, dirs, now, starts, faults>>

ChangeFile ==
  /\ changes < MaxChanges /\ changes' = changes + 1
  /\ \E f \in DOMAIN Files : version' = [version EXCEPT ![f] = @ + 1]
  /\ UNCHANGED <<backup_future, is_cancelled, step, doing, dirs, counts, faults>>

-----------------------------------------------------------------------------
(* DoBackup *)
Ends(how) == backup_future' = how /\ step' = "idle"
Goes(s)   == step' = s /\ UNCHANGED backup_future
Cancelled == step \in {"destination", "file"} /\ is_cancelled

(* IsValid, and the flags of this backup: a cancel that came before is forgotten. *)
StartBackup ==
  /\ step = "start"
  /\ \/ Fault /\ Ends("ready") /\ UNCHANGED is_cancelled
     \/ Goes("rotate") /\ is_cancelled' = FALSE /\ UNCHANGED faults
  /\ to' = 1 /\ file' = 1
  /\ fail' = FALSE /\ first_run_hash' = FALSE /\ ctx_from' = <<>> /\ ctx_to' = <<>>
  /\ accepted' = {} /\ unhashed' = FALSE
  /\ UNCHANGED <<backup, world, dirs, counts>>

SortsBefore(b, c) == Rank(b.of) < Rank(c.of) \/ (b.of = c.of /\ b.at < c.at)
Found(here)       == {b \in here : <<b.of, backup.of>> \in StartsWith}
ToRemove(here) ==
  IF Cardinality(Found(here)) < MaxBackups THEN {}
  ELSE {b \in Found(here) : \A c \in Found(here) : ~SortsBefore(c, b)}

(* remove_all may fail: the backup goes on. *)
BackupRotation ==
  /\ step = "rotate"
  /\ \/ dirs' = [t \in 1 .. To |-> dirs[t] \ ToRemove(dirs[t])] /\ UNCHANGED faults
     \/ Fault /\ UNCHANGED dirs
  /\ Goes("destination")
  /\ UNCHANGED <<is_cancelled, doing, world, counts>>

CancelBackup ==
  /\ Cancelled
  /\ Ends("ready")
  /\ UNCHANGED <<is_cancelled, doing, world, dirs, counts, faults>>

LoopEnds ==
  /\ step = "destination" /\ ~Cancelled /\ to > To
  /\ Ends("ready")
  /\ UNCHANGED <<is_cancelled, doing, world, dirs, counts, faults>>

CreateDirectory ==
  /\ step = "destination" /\ ~Cancelled /\ to <= To
  /\ ctx_to' = <<>> /\ file' = 1
  /\ \/ Goes("file") /\ dirs' = [dirs EXCEPT ![to] = @ \cup {backup}] /\ UNCHANGED <<fail, faults>>
     \/ Ends("ready") /\ fail' = TRUE /\ Fault /\ UNCHANGED dirs
  /\ UNCHANGED <<is_cancelled, backup, to, first_run_hash, ctx_from, accepted, unhashed, world, counts>>

AtFile(kinds) == step = "file" /\ ~Cancelled /\ file <= Len(Files) /\ Files[file] \in kinds
NextFile      == file' = file + 1 /\ Goes("file")
Failed        == fail' = TRUE /\ Goes("compare") /\ UNCHANGED <<file, ctx_to>>
Hashing       == UNCHANGED <<is_cancelled, backup, to, first_run_hash, accepted, world, dirs, counts>>

(* create_symlink is called without its error code, and throws. *)
SkipOrLink ==
  /\ AtFile({"ignored", "symlink"})
  /\ \/ NextFile /\ UNCHANGED <<fail, faults>>
     \/ Files[file] = "symlink" /\ Fault /\ fail' = TRUE /\ Goes("compare") /\ UNCHANGED file
     \/ Files[file] = "symlink" /\ Fault /\ Ends("thrown") /\ UNCHANGED <<fail, file>>
  /\ Hashing /\ UNCHANGED <<ctx_from, ctx_to, unhashed>>

(* The copy, and its hash: copy_file fails also on a copy that is there already. *)
CopyFile ==
  /\ AtFile({"file", "directory"})
  /\ \/ /\ Files[file] = "directory" \/ ~CalculateHash
        /\ Goes("source") /\ UNCHANGED <<fail, faults, file, ctx_to, unhashed>>
     \/ /\ Files[file] = "file" /\ CalculateHash
        /\ Goes("source") /\ ctx_to' = Append(ctx_to, version[file])
        /\ UNCHANGED <<fail, faults, file, unhashed>>
     \/ /\ Files[file] = "file" /\ CalculateHash /\ Fault
        /\ Goes("source") /\ unhashed' = TRUE /\ UNCHANGED <<fail, file, ctx_to>>
     \/ Failed /\ Fault /\ UNCHANGED unhashed
  /\ Hashing /\ UNCHANGED ctx_from

(* The source is read again for its own hash, at the first destination. *)
HashSource ==
  /\ step = "source"
  /\ \/ /\ ctx_from' = IF first_run_hash \/ ~CalculateHash \/ Files[file] # "file" THEN ctx_from
                       ELSE Append(ctx_from, version[file])
        /\ UNCHANGED <<faults, unhashed>>
     \/ ~first_run_hash /\ CalculateHash /\ Fault /\ unhashed' = TRUE /\ UNCHANGED ctx_from
  /\ NextFile
  /\ Hashing /\ UNCHANGED <<fail, ctx_to>>

Mismatch_Bug == FALSE
Mismatch     == CalculateHash /\ ctx_from # ctx_to

Compare ==
  /\ \/ step = "compare"
     \/ step = "file" /\ ~Cancelled /\ file > Len(Files)
  /\ first_run_hash' = CalculateHash
  /\ IF Mismatch THEN fail' = TRUE /\ Ends("ready") /\ UNCHANGED <<to, accepted>>
                 ELSE /\ Goes("destination") /\ to' = to + 1
                      /\ accepted' = accepted \cup {ctx_to} /\ UNCHANGED fail
  /\ UNCHANGED <<is_cancelled, backup, file, ctx_from, ctx_to, unhashed, world, dirs, counts, faults>>

DoBackup ==
  \/ StartBackup \/ BackupRotation \/ CancelBackup \/ LoopEnds \/ CreateDirectory
  \/ SkipOrLink \/ CopyFile \/ HashSource \/ Compare

BackupNext == BackupFile \/ Cancel \/ ChangeFile \/ DoBackup

BackupSpec == BackupInit /\ [][BackupNext]_backupVars
-----------------------------------------------------------------------------
(* The destinations of a backup that did not fail hold the same versions of the files, although
   each is copied at another time and the source is hashed after the first copy, unless a file
   could not be opened for its hash (DirectoryBackup.cpp:221, 246, 274). *)
AcceptedCopiesAgree ==
  CalculateHash /\ ~fail /\ ~unhashed => Cardinality(accepted) <= 1

(* DirectoryBackup.hpp:80: the rotation removes older backups, those of the entry. *)
RotationIsOfTheEntry ==
  [][\A t \in 1 .. To : \A b \in dirs[t] \ dirs'[t] : b.of = backup.of]_backupVars
=============================================================================

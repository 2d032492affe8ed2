------------------------------- MODULE Backup -------------------------------
(***************************************************************************)
(* backup/backup.go: the goroutine that copies the database into a file    *)
(* named after the second it begins, at the start if there is no recent    *)
(* one and at every tick of its ticker, and that removes the oldest files. *)
(* A file is whole only when VACUUM INTO has ended, yet it bears its name  *)
(* from the beginning.                                                     *)
(***************************************************************************)
EXTENDS Integers, FiniteSets, FiniteSetsExt

CONSTANTS Interval,   \* backup.interval, in seconds
          Keep,       \* backup.keep; 0 keeps every file
          MaxTime,    \* bound: seconds
          MaxStops,   \* bound: ends of the process
          MaxFaults   \* bound: failed file operations and copies

BackupBounds ==
    /\ Interval \in Nat \ {0} /\ Keep \in Nat /\ MaxTime \in Nat
    /\ MaxStops \in Nat /\ MaxFaults \in Nat

VARIABLES now,     \* the wall clock
          at,      \* "down", "start", "name", "create", "copy", "prune", "wait"
          files,   \* in the directory: [stamp, mtime, whole]
          stamp,   \* the file being written
          due,     \* when the ticker fires next; NoTick before it is made
          taken,   \* history: a copy was completed
          left,    \* history: faults and stops since a copy was completed and the rest pruned
          stops, faults

troubles == <<faults, left>>
counts == <<stops, troubles>>
vars == <<now, at, files, stamp, due, taken, counts>>

NoTick == -1
Stamps(fs) == {f.stamp : f \in fs}
Fault == faults < MaxFaults /\ faults' = faults + 1 /\ left' = left + 1

BackupInit ==
    /\ now = 0 /\ at = "down" /\ files = {} /\ stamp = 0 /\ due = NoTick
    /\ taken = FALSE /\ stops = 0 /\ faults = 0 /\ left = 0

-----------------------------------------------------------------------------
(* Run.                                                                    *)

StartProcess ==
    /\ at = "down" /\ at' = "start" /\ due' = NoTick
    /\ UNCHANGED <<now, files, stamp, taken, counts>>

\* newest: any file that bears such a name counts, by the time it was written to.
Recent(fs) == \E f \in fs : now - f.mtime < Interval

\* The first copy is tried before the ticker is made, or not at all.
Begin ==
    /\ at = "start"
    /\ IF Recent(files) THEN at' = "wait" /\ due' = now + Interval
       ELSE at' = "name" /\ UNCHANGED due
    /\ UNCHANGED <<now, files, stamp, taken, counts>>

\* Once has returned, with or without a copy.
Idle == at' = "wait" /\ due' = IF due = NoTick THEN now + Interval ELSE due

\* Ticks that come while a copy is being written are dropped but one.
Tick ==
    /\ at = "wait" /\ due <= now /\ at' = "name"
    /\ due' = Min({t \in now + 1 .. now + Interval : (t - due) % Interval = 0})
    /\ UNCHANGED <<now, files, stamp, taken, counts>>

-----------------------------------------------------------------------------
(* Once.                                                                   *)

\* A file that bears the name already is removed.
Name ==
    /\ at = "name" /\ stamp' = now
    /\ \/ at' = "create" /\ files' = {f \in files : f.stamp # now} /\ UNCHANGED <<due, troubles>>
       \/ Fault /\ Idle /\ UNCHANGED files
    /\ UNCHANGED <<now, taken, stops>>

Create ==
    /\ at = "create"
    /\ \/ /\ at' = "copy" /\ files' = files \union {[stamp |-> stamp, mtime |-> now, whole |-> FALSE]}
          /\ UNCHANGED <<due, troubles>>
       \/ Fault /\ Idle /\ UNCHANGED files
    /\ UNCHANGED <<now, stamp, taken, stops>>

Rest == {f \in files : f.stamp # stamp}
Written(w) == Rest \union {[stamp |-> stamp, mtime |-> now, whole |-> w]}

\* Mutant: a copy that fails goes on to prune
SnapshotFailsPrunes ==
    /\ at = "copy" /\ Fault /\ at' = "prune" /\ UNCHANGED due
    /\ files' \in {Rest, Written(FALSE)}
    /\ UNCHANGED <<now, stamp, taken, stops>>

\* A copy that fails does not reach prune.
SnapshotFails ==
    /\ at = "copy" /\ Fault /\ Idle
    /\ files' \in {Rest, Written(FALSE)}
    /\ UNCHANGED <<now, stamp, taken, stops>>

SnapshotEnds ==
    /\ at = "copy" /\ at' = "prune" /\ files' = Written(TRUE) /\ taken' = TRUE
    /\ UNCHANGED <<now, stamp, due, counts>>

Excess(fs) == Keep > 0 /\ Cardinality(fs) > Keep

\* Oldest name first, one file at a time; an error ends it.
Prune ==
    /\ at = "prune"
    /\ \/ /\ Excess(files) /\ files' = {f \in files : f.stamp # Min(Stamps(files))}
          /\ UNCHANGED <<at, due, troubles>>
       \/ Excess(files) /\ Fault /\ Idle /\ UNCHANGED files
       \/ ~Excess(files) /\ Idle /\ left' = 0 /\ UNCHANGED <<files, faults>>
    /\ UNCHANGED <<now, stamp, taken, stops>>

-----------------------------------------------------------------------------
(* The process ends at any point; time passes while it waits or copies.    *)

Stop ==
    /\ at # "down" /\ stops < MaxStops /\ stops' = stops + 1 /\ left' = left + 1 /\ at' = "down"
    /\ UNCHANGED <<now, files, stamp, due, taken, faults>>

TimePasses ==
    /\ now < MaxTime /\ at \in {"down", "wait", "copy"} /\ (at = "wait" => now < due)
    /\ now' = now + 1
    /\ UNCHANGED <<at, files, stamp, due, taken, counts>>

BackupNext ==
    \/ StartProcess \/ Begin \/ Tick \/ Name \/ Create \/ SnapshotFails \/ SnapshotEnds \/ Prune
    \/ Stop \/ TimePasses

BackupSpec == BackupInit /\ [][BackupNext]_vars

-----------------------------------------------------------------------------
(* Properties.                                                             *)

\* From the first completed copy on there is one to restore from: neither prune,
\* which cannot tell a broken file from a whole one, nor a name used again takes
\* the last of them, whatever fails and wherever the process ends.
AWholeOneRemains == taken => \E f \in files : f.whole

\* Broken files do not pile up: a copy that completes leaves at most backup.keep
\* files, also when earlier ones failed or were cut off, and until the next one
\* each trouble adds one file at most.
FilesAreBounded == Keep > 0 => Cardinality(files) <= Keep + 1 + left

-----------------------------------------------------------------------------
(* Invariant.                                                              *)

BackupTypeOK ==
    /\ now \in Nat /\ stamp \in Nat /\ due \in Nat \union {NoTick} /\ left \in Nat /\ faults \in Nat
    /\ taken \in BOOLEAN /\ at \in {"down", "start", "name", "create", "copy", "prune", "wait"}
    /\ files \subseteq [stamp : Nat, mtime : Nat, whole : BOOLEAN] /\ IsFiniteSet(files)

\* Names are given in the order of time, and what is being written is the newest.
NamesInOrder ==
    /\ \A f, g \in files : f.stamp = g.stamp => f = g
    /\ \A f \in files :
          /\ f.stamp <= f.mtime /\ f.mtime <= now
          /\ at # "down" /\ due # NoTick => f.stamp < due
          /\ at = "name" => f.stamp < now
          /\ at = "create" => f.stamp < stamp
          /\ at \in {"copy", "prune"} => f.stamp <= stamp
    /\ at = "wait" => due # NoTick
    /\ at = "name" /\ due # NoTick => now < due
    /\ at = "start" => due = NoTick
    /\ at \in {"create", "copy", "prune"} => stamp <= now /\ (due # NoTick => stamp < due)
    /\ at = "create" => stamp = now

\* The file being written is there until it is pruned, and is whole by then.
CopyIsThere ==
    /\ at = "copy" => \E f \in files : f.stamp = stamp /\ ~f.whole
    /\ at = "prune" => \E f \in files : f.stamp = stamp /\ f.whole

BackupInv ==
    /\ BackupTypeOK /\ NamesInOrder /\ CopyIsThere
    /\ taken => \E f \in files : f.whole
    /\ Keep > 0 => Cardinality(files) <= Keep + left + (IF at \in {"copy", "prune"} THEN 1 ELSE 0)

=============================================================================

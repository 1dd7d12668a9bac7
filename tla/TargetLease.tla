----------------------------- MODULE TargetLease -----------------------------
(***************************************************************************)
(* The OS-backed lease over one managed target (ost-build/src/lease.rs):  *)
(* the lease file as a path that names an inode, the kernel lock and the  *)
(* owner record that live on the inode, and every step of acquire,        *)
(* release and drop.  A crash may happen between any two steps; the       *)
(* kernel then drops the lock and the record stays as it was.             *)
(* The Unix implementation (flock) is the one modelled.                   *)
(***************************************************************************)
EXTENDS Naturals, FiniteSets

CONSTANTS Run,       \* invocations of ost; each asks for the lease once
          Inode,     \* inodes the file system may allocate for the lease file
          Mode,      \* the busy policies in use, a subset of LeaseMode
          Nobody,    \* no run
          NoInode    \* the lease file does not exist, or is not open

LeaseMode == {"fail", "wait", "forever", "readOnly"}

ASSUME RunAssumption == Nobody \notin Run
ASSUME InodeAssumption == NoInode \notin Inode
ASSUME ModeAssumption == Mode \subseteq LeaseMode

VARIABLES path,      \* the inode the lease path names
          lock,      \* inode -> the run whose descriptor is locked
          record,    \* inode -> the run named by a readable record
          pc,        \* run -> where it is in acquire / release
          fd,        \* run -> the inode its descriptor is open on
          mode,      \* run -> its busy policy
          previous,  \* run -> the record it found once the lock was its own
          owner      \* run -> TargetLease.owner: what invocation() returns

vars == <<path, lock, record, pc, fd, mode, previous, owner>>

Holding == {"locked", "verified", "truncated", "held", "clearing"}
Ended == {"refused", "failed", "attached", "released", "dropped", "crashed"}
Steps == {"idle", "opening", "trying", "busy"} \cup Holding \cup Ended

TypeOK == /\ path \in Inode \cup {NoInode}
          /\ lock \in [Inode -> Run \cup {Nobody}]
          /\ record \in [Inode -> Run \cup {Nobody}]
          /\ pc \in [Run -> Steps]
          /\ fd \in [Run -> Inode \cup {NoInode}]
          /\ mode \in [Run -> LeaseMode]
          /\ previous \in [Run -> Run \cup {Nobody}]
          /\ owner \in [Run -> Run \cup {Nobody}]
          /\ \A r \in Run : fd[r] # NoInode <=> pc[r] \in {"trying"} \cup Holding

Init == /\ path = NoInode
        /\ lock = [i \in Inode |-> Nobody]
        /\ record = [i \in Inode |-> Nobody]
        /\ pc = [r \in Run |-> "idle"]
        /\ fd = [r \in Run |-> NoInode]
        /\ mode \in [Run -> Mode]
        /\ previous = [r \in Run |-> Nobody]
        /\ owner = [r \in Run |-> Nobody]

-----------------------------------------------------------------------------

Goto(r, step) == pc' = [pc EXCEPT ![r] = step]

\* An inode the path has never named and nobody has open.
Unused(i) == i # path /\ \A r \in Run : fd[r] # i

\* read_owner: the record behind the path, without taking the lock.
ReadOwner == IF path = NoInode THEN Nobody ELSE record[path]

\* Closing the last descriptor releases the kernel lock it carried.
Close(r) == /\ lock' = [i \in Inode |-> IF lock[i] = r THEN Nobody ELSE lock[i]]
            /\ fd' = [fd EXCEPT ![r] = NoInode]

\* LeaseMode::ReadOnly: no lock is taken, the record is only read.
AttachReadOnly(r) ==
  /\ pc[r] = "idle" /\ mode[r] = "readOnly"
  /\ owner' = [owner EXCEPT ![r] = ReadOwner]
  /\ Goto(r, "attached")
  /\ UNCHANGED <<path, lock, record, fd, mode, previous>>

Begin(r) ==
  /\ pc[r] = "idle" /\ mode[r] # "readOnly"
  /\ Goto(r, "opening")
  /\ UNCHANGED <<path, lock, record, fd, mode, previous, owner>>

\* try_lock, first half: open the lease file, creating it when absent.
OpenFile(r) ==
  /\ pc[r] = "opening"
  /\ path' \in IF path = NoInode THEN {i \in Inode : Unused(i)} ELSE {path}
  /\ record' = IF path = NoInode THEN [record EXCEPT ![path'] = Nobody] ELSE record
  /\ fd' = [fd EXCEPT ![r] = path']
  /\ Goto(r, "trying")
  /\ UNCHANGED <<lock, mode, previous, owner>>

\* Mutant: EWOULDBLOCK is not recognised as another holder.
LockGrantedAnyway(r) ==
  /\ pc[r] = "trying"
  /\ lock' = [lock EXCEPT ![fd[r]] = r]
  /\ Goto(r, "locked")
  /\ UNCHANGED <<path, record, fd, mode, previous, owner>>

\* try_lock, second half: flock(LOCK_EX | LOCK_NB) on the inode that is open.
LockGranted(r) ==
  /\ pc[r] = "trying" /\ lock[fd[r]] = Nobody
  /\ lock' = [lock EXCEPT ![fd[r]] = r]
  /\ Goto(r, "locked")
  /\ UNCHANGED <<path, record, fd, mode, previous, owner>>

LockRefused(r) ==
  /\ pc[r] = "trying" /\ lock[fd[r]] # Nobody
  /\ fd' = [fd EXCEPT ![r] = NoInode]
  /\ Goto(r, "busy")
  /\ UNCHANGED <<path, lock, record, mode, previous, owner>>

\* TARGET_BUSY: at once under `fail`, once the deadline has passed under `wait`.
GiveUp(r) ==
  /\ pc[r] = "busy" /\ mode[r] \in {"fail", "wait"}
  /\ Goto(r, "refused")
  /\ UNCHANGED <<path, lock, record, fd, mode, previous, owner>>

\* Sleep POLL_INTERVAL and try again while time remains.
PollAgain(r) ==
  /\ pc[r] = "busy" /\ mode[r] \in {"wait", "forever"}
  /\ Goto(r, "opening")
  /\ UNCHANGED <<path, lock, record, fd, mode, previous, owner>>

\* The lock is ours: a record still in the file was never cleared.
ReadPrevious(r) ==
  /\ pc[r] = "locked"
  /\ previous' = [previous EXCEPT ![r] = record[fd[r]]]
  /\ Goto(r, "verified")
  /\ UNCHANGED <<path, lock, record, fd, mode, owner>>

\* write_owner truncates before it writes.
TruncateRecord(r) ==
  /\ pc[r] = "verified"
  /\ record' = [record EXCEPT ![fd[r]] = Nobody]
  /\ Goto(r, "truncated")
  /\ UNCHANGED <<path, lock, fd, mode, previous, owner>>

WriteOwner(r) ==
  /\ pc[r] = "truncated"
  /\ record' = [record EXCEPT ![fd[r]] = r]
  /\ owner' = [owner EXCEPT ![r] = r]
  /\ Goto(r, "held")
  /\ UNCHANGED <<path, lock, fd, mode, previous>>

\* write_owner fails: the error returns through `?` and the file is dropped.
WriteOwnerFails(r) ==
  /\ pc[r] \in {"verified", "truncated"}
  /\ Close(r)
  /\ Goto(r, "failed")
  /\ UNCHANGED <<path, record, mode, previous, owner>>

\* release: set_len(0) while the lock is held (a failure of it is ignored) ...
ClearRecord(r) ==
  /\ pc[r] = "held"
  /\ \E left \in {Nobody, record[fd[r]]} : record' = [record EXCEPT ![fd[r]] = left]
  /\ Goto(r, "clearing")
  /\ UNCHANGED <<path, lock, fd, mode, previous, owner>>

\* ... then the descriptor is dropped; the file stays where it is.
DropFile(r) ==
  /\ pc[r] = "clearing"
  /\ Close(r)
  /\ Goto(r, "released")
  /\ UNCHANGED <<path, record, mode, previous, owner>>

\* Mutant: drop the lock first, truncate afterwards.
ReleaseUnlockFirst(r) ==
  \/ /\ pc[r] = "held"
     /\ lock' = [lock EXCEPT ![fd[r]] = Nobody]
     /\ Goto(r, "clearing")
     /\ UNCHANGED <<path, record, fd, mode, previous, owner>>
  \/ /\ pc[r] = "clearing"
     /\ record' = [record EXCEPT ![fd[r]] = Nobody]
     /\ fd' = [fd EXCEPT ![r] = NoInode]
     /\ Goto(r, "released")
     /\ UNCHANGED <<path, lock, mode, previous, owner>>

Release(r) == ClearRecord(r) \/ DropFile(r)

\* Mutant: an early return that leaks the locked descriptor.
DropHeldLeaks(r) ==
  /\ pc[r] = "held"
  /\ Goto(r, "dropped")
  /\ UNCHANGED <<path, lock, record, fd, mode, previous, owner>>

\* The lease goes out of scope on an early return: unlocked, not cleared.
DropHeld(r) ==
  /\ pc[r] = "held"
  /\ Close(r)
  /\ Goto(r, "dropped")
  /\ UNCHANGED <<path, record, mode, previous, owner>>

\* The process dies; the kernel closes its descriptors.
Crash(r) ==
  /\ pc[r] \notin {"idle"} \cup Ended
  /\ Close(r)
  /\ Goto(r, "crashed")
  /\ UNCHANGED <<path, record, mode, previous, owner>>

\* TargetLease::acquire, step by step.
AcquireStep(r) ==
  \/ AttachReadOnly(r) \/ Begin(r) \/ OpenFile(r) \/ LockGranted(r)
  \/ LockRefused(r) \/ GiveUp(r) \/ PollAgain(r) \/ ReadPrevious(r)
  \/ TruncateRecord(r) \/ WriteOwner(r) \/ WriteOwnerFails(r)

Next == \E r \in Run : AcquireStep(r) \/ Release(r) \/ DropHeld(r) \/ Crash(r)

\* A run keeps executing its own steps; nothing makes it crash.
Fairness == \A r \in Run : WF_vars(AcquireStep(r) \/ Release(r) \/ DropHeld(r))

Spec == Init /\ [][Next]_vars
FairSpec == Spec /\ Fairness

-----------------------------------------------------------------------------
\* Properties

\* Two runs never hold the target at once: the reason release truncates the
\* file in place and never unlinks it (lease.rs, TargetLease::release).
MutualExclusion ==
  \A r, s \in Run : pc[r] \in Holding /\ pc[s] \in Holding => r = s

\* While a run works on the target the record behind the path names it: no
\* earlier owner's late truncation lands on the new owner's record.
HolderIsNamed == \A r \in Run : pc[r] = "held" => ReadOwner = r

\* A record found after the lock was granted names a run that will never touch
\* the target again: a takeover cannot displace a live owner (classify_stale).
TakeoverFromTheDead ==
  \A r \in Run : previous[r] # Nobody => pc[previous[r]] \in Ended \ {"attached"}

\* The strengthening that makes the four invariants inductive: every open
\* descriptor is on the inode the path names, and the kernel lock and the
\* readable records agree with where their runs are.
DescriptorsOnPath ==
  \A r \in Run : pc[r] \in {"trying"} \cup Holding => fd[r] = path /\ path # NoInode
LocksAreHeld ==
  /\ \A r \in Run : pc[r] \in Holding => lock[fd[r]] = r
  /\ \A i \in Inode : lock[i] # Nobody => pc[lock[i]] \in Holding /\ fd[lock[i]] = i
RecordsAreOwned ==
  \A i \in Inode : record[i] # Nobody =>
     pc[record[i]] \in {"held", "clearing"} \cup (Ended \ {"attached"})
RecordTracksHolder ==
  \A r \in Run : /\ pc[r] = "verified" => previous[r] = record[path]
                 /\ pc[r] = "truncated" => record[path] = Nobody
                 /\ pc[r] = "clearing" => record[path] \in {r, Nobody}
LeaseInv == /\ TypeOK /\ DescriptorsOnPath /\ LocksAreHeld /\ RecordsAreOwned
            /\ HolderIsNamed /\ TakeoverFromTheDead /\ RecordTracksHolder

\* The lease as its users see it.
Holder == IF path = NoInode THEN Nobody ELSE lock[path]
Evidence == IF Holder \in Run /\ pc[Holder] \in {"verified", "truncated"}
            THEN previous[Holder]
            ELSE IF Holder \in Run /\ pc[Holder] = "clearing" THEN Holder
            ELSE ReadOwner

Contract == INSTANCE LeaseContract WITH holder <- Holder, evidence <- Evidence

\* The files, the polling and the crashes implement the contract.
ImplementsContract == Contract!Spec

\* A run that queues with `--on-busy wait` and no timeout is admitted (or dies),
\* once those ahead of it finish: the poll loop does not lose its turn for good.
WaiterLeavesQueue ==
  \A r \in Run : pc[r] \in {"opening", "trying", "busy"} ~>
                 pc[r] \notin {"opening", "trying", "busy"}

=============================================================================

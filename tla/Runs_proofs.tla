----------------------------- MODULE Runs_proofs -----------------------------
(***************************************************************************)
(* Proofs about runs: the two halves of a run on a target, its lease and   *)
(* its supervised child, and the runs of the workflows that CI renders.    *)
(*                                                                         *)
(* ManagedChild, for any set of descendants and any bounds: what run_child *)
(* owes its child holds at every step, and only the window between reaping *)
(* and interrupt::clear lets an interrupt hit a stranger.                  *)
(*                                                                         *)
(* TargetLease, for every set of runs, inodes and busy policies: the lease *)
(* is exclusive, its record names its holder, a takeover never displaces a *)
(* live run, and the file protocol implements LeaseContract.               *)
(*                                                                         *)
(* CiRuns, for any valid matrices, any contents of the remote and any      *)
(* number of runs: what CI restores, builds on and publishes passed its    *)
(* gates, and a generate leaves the files of one matrix.                   *)
(***************************************************************************)
EXTENDS TargetLease, ManagedChild, CiRuns, NaturalsInduction, WellFoundedInduction, TLAPS

\* The supervised child.

\* The steps at which ACTIVE names the child, and those after it was waited for.
Supervising == {"polling", "waiting", "cleaned", "reaped"}
WaitedFor == {"cleaned", "reaped", "joining", "returned", "overflowed", "timedOut"}

\* Nothing was spawned: nobody is in the group and no cleanup was made.
Unspawned == group = {} /\ proc[Leader] = "unborn" /\ cleanup = "none" /\ stranger = "absent"

\* What the step of run_child says about ACTIVE and about the child.
StepsFitChild ==
  /\ at = "idle" => Unspawned
  /\ at \in Supervising => active
  /\ active => at \in Supervising \cup {"interrupted"}
  /\ at \in {"spawned", "polling", "waiting"} => proc[Leader] \in {"running", "zombie"}
  /\ at \in WaitedFor => proc[Leader] = "reaped"
  /\ at = "failed" => proc[Leader] = "reaped" \/ Unspawned

\* Only processes that exist are in the group; only running ones hold a pipe;
\* the pid is reused only after the child was waited for.
TreeIsReal ==
  /\ \A p \in group : proc[p] # "unborn"
  /\ \A p \in holds : Running(p)
  /\ stranger # "absent" => proc[Leader] = "reaped"

\* Every chunk that was written is unread, kept, or beyond the capture; nobody
\* can write to a capture that was returned.
OutputAddsUp ==
  /\ unread <= written
  /\ ~overflowed => kept + unread = written
  /\ at = "returned" => holds = {} /\ unread = 0 /\ ~overflowed

ChildInv ==
  /\ ChildTypeOK
  /\ StepsFitChild
  /\ TreeIsReal
  /\ OutputAddsUp
  /\ InterruptReachesGroup
  /\ KilledMeansGone

-----------------------------------------------------------------------------
\* The invariant implies the property of the run.
LEMMA InvAccountsForChild == ChildInv => ChildIsAccountedFor
  <1> SUFFICES ASSUME ChildInv PROVE CaptureIsWhole
    BY DEF ChildInv, ChildIsAccountedFor
  <1>1. ChildTypeOK /\ OutputAddsUp
    BY DEF ChildInv
  <1> QED
    BY <1>1, BoundsAssumption DEF ChildTypeOK, OutputAddsUp, CaptureIsWhole

\* Before the child is spawned the invariant holds of nothing.
LEMMA InitHasInv == ChildInit => ChildInv
  <1> SUFFICES ASSUME ChildInit PROVE ChildInv
    OBVIOUS
  <1>0. 0 \in 0..MaxOutput /\ 0 \in 0..CaptureBytes
    BY BoundsAssumption
  <1>1. ChildTypeOK
    BY <1>0 DEF ChildInit, ChildTypeOK, Proc, ChildSteps
  <1>2. StepsFitChild
    BY DEF ChildInit, StepsFitChild, Unspawned, Supervising, WaitedFor, Proc
  <1>3. TreeIsReal /\ OutputAddsUp
    BY DEF ChildInit, TreeIsReal, OutputAddsUp
  <1>4. InterruptReachesGroup /\ KilledMeansGone
    BY DEF ChildInit, InterruptReachesGroup, KilledMeansGone
  <1> QED
    BY <1>1, <1>2, <1>3, <1>4 DEF ChildInv

\* A SIGKILL to a set of processes leaves none of them running, makes nobody
\* run or unborn, and takes their pipes.
LEMMA KillingIsFinal ==
  ASSUME ChildTypeOK, NEW ps \in SUBSET Proc, NEW left \in {"reaped", "dead"}, KillAll(ps, left)
  PROVE  /\ proc' \in [Proc -> {"unborn", "running", "zombie", "reaped", "dead"}]
         /\ \A d \in Desc : proc'[d] \notin {"zombie", "reaped"}
         /\ \A p \in ps \cup {Leader} : proc'[p] # "running"
         /\ \A p \in Proc : proc'[p] = "running" => proc[p] = "running"
         /\ \A p \in Proc : proc'[p] = "unborn" <=> proc[p] = "unborn"
         /\ \A p \in Proc \ (ps \cup {Leader}) : proc'[p] = proc[p]
         /\ proc[Leader] \in {"running", "zombie"} => proc'[Leader] = left
         /\ proc[Leader] \notin {"running", "zombie"} => proc'[Leader] = proc[Leader]
         /\ holds' = holds \ (ps \cup {Leader}) /\ holds' \subseteq Proc
         /\ dying' \subseteq Proc
  BY LeaderAssumption DEF KillAll, ChildTypeOK, Proc, Running

-----------------------------------------------------------------------------

-----------------------------------------------------------------------------
\* Every step keeps the invariant.
LEMMA StepKeepsInv == ASSUME ChildInv, [ChildNext]_childVars PROVE ChildInv'
  <1> USE DEF ChildInv, ChildTypeOK, StepsFitChild, TreeIsReal, OutputAddsUp, InterruptReachesGroup,
              KilledMeansGone, Unspawned, Supervising, WaitedFor, Proc, ChildSteps, Returned, Dead,
              Running, choices, output, tree
  <1> USE LeaderAssumption, BoundsAssumption
  <1>1. CASE Spawn
    BY <1>1 DEF Spawn
  <1>2. CASE SpawnFails
    BY <1>2 DEF SpawnFails
  <1>3. CASE SetActive
    BY <1>3 DEF SetActive
  <1>4. CASE Reap
    BY <1>4 DEF Reap
  <1>5. CASE WaitFails
    BY <1>5 DEF WaitFails
  <1>6. CASE DeadlinePasses
    BY <1>6 DEF DeadlinePasses
  <1>7. CASE TimeOut
    BY <1>7 DEF TimeOut
  <1>8. CASE TimeOutChildOnly
    BY <1>8, KillingIsFinal DEF TimeOutChildOnly
  <1>9. CASE ReapTerminated
    BY <1>9 DEF ReapTerminated
  <1>10. CASE Escalate
    BY <1>10, KillingIsFinal DEF Escalate
  <1>11. CASE ClearTimedOut
    BY <1>11 DEF ClearTimedOut
  <1>12. CASE ClearReaped
    BY <1>12 DEF ClearReaped
  <1>13. CASE Join
    BY <1>13 DEF Join
  <1>14. ASSUME NEW n \in 1..MaxOutput, Read(n) PROVE ChildInv'
    <2>1. /\ kept' \in 0..CaptureBytes /\ unread' \in 0..MaxOutput /\ unread' <= written
          /\ kept + n <= CaptureBytes => kept' + unread' = kept + unread
      BY <1>14 DEF Read
    <2>2. overflowed' \in BOOLEAN /\ (~overflowed' => ~overflowed /\ kept + n <= CaptureBytes)
      <3>1. overflowed' = (overflowed \/ kept + n > CaptureBytes)
        BY <1>14 DEF Read
      <3>2. kept + n <= CaptureBytes \/ kept + n > CaptureBytes
        BY <1>14
      <3> QED
        BY ONLY <3>1, <3>2
    <2>3. unread # 0 /\ at # "returned"
      BY <1>14 DEF Read
    <2> QED
      BY <1>14, <2>1, <2>2, <2>3 DEF Read
  <1>15. ASSUME NEW p \in Proc, Write(p) PROVE ChildInv'
    BY <1>15 DEF Write
  <1>16. ASSUME NEW p \in Proc, Exit(p) PROVE ChildInv'
    BY <1>16 DEF Exit, Remains
  <1>17. ASSUME NEW d \in Desc, Detach(d) PROVE ChildInv'
    BY <1>17 DEF Detach
  <1>18. ASSUME NEW d \in Desc, Redirect(d) PROVE ChildInv'
    BY <1>18 DEF Redirect
  <1>19. ASSUME NEW d \in Desc, NEW p \in Proc, Fork(p, d) PROVE ChildInv'
    BY <1>19 DEF Fork
  <1>20. CASE ReusePid
    BY <1>20 DEF ReusePid
  <1>21. CASE Interrupt
    BY <1>21, KillingIsFinal DEF Interrupt
  <1>22. CASE UNCHANGED childVars
    BY <1>22 DEF childVars
  <1> QED
    BY <1>1, <1>2, <1>3, <1>4, <1>5, <1>6, <1>7, <1>8, <1>9, <1>10, <1>11, <1>12, <1>13, <1>14, <1>15, <1>16, <1>17, <1>18, <1>19, <1>20, <1>21, <1>22 DEF ChildNext, OstStep, ReaderStep, TreeStep

\* The inductive invariant: ACTIVE, the child, its group and its pipes fit the
\* step of run_child, whatever the processes, the readers and the user do.
THEOREM ChildInvHolds == ChildSpec => []ChildInv
  BY InitHasInv, StepKeepsInv, PTL DEF ChildSpec

\* For any tree of descendants: an interrupt before the child is reaped leaves
\* nothing of its group, "process group killed" is and stays true, and the
\* capture that run_child returns is all the tree wrote.
THEOREM ChildAccountedFor == ChildSpec => []ChildIsAccountedFor
  BY ChildInvHolds, InvAccountsForChild, PTL

\* on_signal kills a group that reused the pid only between the reaping of the
\* child and interrupt::clear.
THEOREM StrangersAreSafe == ChildSpec => StrangerOnlyInTheGap
  <1>1. ASSUME ChildInv, [ChildNext]_childVars, stranger = "running", stranger' = "killed"
        PROVE  at \in {"reaped", "cleaned"}
    <2>1. proc[Leader] = "reaped"
      BY <1>1 DEF ChildInv, TreeIsReal
    <2>2. Interrupt /\ active
      BY <1>1 DEF ChildNext, OstStep, ReaderStep, TreeStep, Spawn, SpawnFails, SetActive, Reap,
         WaitFails, DeadlinePasses, TimeOut, TimeOutChildOnly, ReapTerminated, Escalate,
         ClearTimedOut, ClearReaped, Join, Read, Write, Exit, Detach, Redirect, Fork,
         ReusePid, Interrupt, childVars, tree
    <2> QED
      BY <1>1, <2>1, <2>2 DEF ChildInv, StepsFitChild, Supervising, Interrupt, Dead
  <1>2. ChildInv /\ [ChildNext]_childVars =>
          [stranger = "running" /\ stranger' = "killed" => at \in {"reaped", "cleaned"}]_childVars
    BY <1>1
  <1> QED
    BY <1>2, ChildInvHolds, PTL DEF ChildSpec, StrangerOnlyInTheGap

-----------------------------------------------------------------------------
\* The lease.

USE RunAssumption, InodeAssumption, ModeAssumption

\* The initial state of the lease file satisfies the inductive invariant.
LEMMA InitLeaseInv == Init => LeaseInv
<1> SUFFICES ASSUME Init PROVE LeaseInv
  OBVIOUS
<1>1. TypeOK
  <2>1. mode \in [Run -> LeaseMode]
    BY DEF Init
  <2> QED BY <2>1 DEF Init, TypeOK, Steps, Holding, Ended
<1>2. DescriptorsOnPath /\ LocksAreHeld /\ RecordsAreOwned
  BY DEF Init, DescriptorsOnPath, LocksAreHeld, RecordsAreOwned, Holding
<1>3. HolderIsNamed /\ TakeoverFromTheDead /\ RecordTracksHolder
  BY DEF Init, HolderIsNamed, TakeoverFromTheDead, RecordTracksHolder
<1> QED BY <1>1, <1>2, <1>3 DEF LeaseInv

\* Exclusion is a consequence of one inode behind the path and one lock per inode.
LEMMA LeaseInvExcludes == LeaseInv => MutualExclusion
BY DEF LeaseInv, DescriptorsOnPath, LocksAreHeld, MutualExclusion, Holding

\* Every step of acquire, release, drop and crash preserves the invariant.
LEMMA NextLeaseInv == LeaseInv /\ [Next]_vars => LeaseInv'
<1> SUFFICES ASSUME LeaseInv, [Next]_vars PROVE LeaseInv'
  OBVIOUS
<1> USE DEF LeaseInv, TypeOK, DescriptorsOnPath, LocksAreHeld, RecordsAreOwned,
            HolderIsNamed, TakeoverFromTheDead, RecordTracksHolder, Steps, Holding, Ended,
            LeaseMode, ReadOwner, Goto
<1>1. ASSUME NEW r \in Run, AttachReadOnly(r) PROVE LeaseInv'
  BY <1>1 DEF AttachReadOnly
<1>2. ASSUME NEW r \in Run, Begin(r) PROVE LeaseInv'
  BY <1>2 DEF Begin
<1>3. ASSUME NEW r \in Run, OpenFile(r) PROVE LeaseInv'
  BY <1>3 DEF OpenFile, Unused
<1>4. ASSUME NEW r \in Run, LockGranted(r) PROVE LeaseInv'
  BY <1>4 DEF LockGranted
<1>5. ASSUME NEW r \in Run, LockRefused(r) PROVE LeaseInv'
  BY <1>5 DEF LockRefused
<1>6. ASSUME NEW r \in Run, GiveUp(r) PROVE LeaseInv'
  BY <1>6 DEF GiveUp
<1>7. ASSUME NEW r \in Run, PollAgain(r) PROVE LeaseInv'
  BY <1>7 DEF PollAgain
<1>8. ASSUME NEW r \in Run, ReadPrevious(r) PROVE LeaseInv'
  BY <1>8 DEF ReadPrevious
<1>9. ASSUME NEW r \in Run, TruncateRecord(r) PROVE LeaseInv'
  BY <1>9 DEF TruncateRecord
<1>10. ASSUME NEW r \in Run, WriteOwner(r) PROVE LeaseInv'
  BY <1>10 DEF WriteOwner
<1>11. ASSUME NEW r \in Run, WriteOwnerFails(r) PROVE LeaseInv'
  BY <1>11 DEF WriteOwnerFails, Close
<1>12. ASSUME NEW r \in Run, ClearRecord(r) PROVE LeaseInv'
  BY <1>12 DEF ClearRecord
<1>13. ASSUME NEW r \in Run, DropFile(r) PROVE LeaseInv'
  BY <1>13 DEF DropFile, Close
<1>14. ASSUME NEW r \in Run, DropHeld(r) PROVE LeaseInv'
  BY <1>14 DEF DropHeld, Close
<1>15. ASSUME NEW r \in Run, Crash(r) PROVE LeaseInv'
  BY <1>15 DEF Crash, Close
<1>16. CASE UNCHANGED vars
  BY <1>16 DEF vars
<1> QED
  BY <1>1, <1>2, <1>3, <1>4, <1>5, <1>6, <1>7, <1>8, <1>9, <1>10, <1>11, <1>12,
     <1>13, <1>14, <1>15, <1>16 DEF Next, AcquireStep, Release

\* The invariant holds in every reachable state.
THEOREM LeaseInvHolds == Spec => []LeaseInv
BY InitLeaseInv, NextLeaseInv, PTL DEF Spec

\* Two runs never hold one managed target at once (TargetLease::acquire and
\* release), whatever crashes and however many runs poll.
THEOREM LeaseIsExclusive == Spec => []MutualExclusion
BY LeaseInvHolds, LeaseInvExcludes, PTL

\* The record behind the path names the run that holds the lease: no late
\* truncation by an earlier owner lands on it (TargetLease::release).
THEOREM RecordNamesHolder == Spec => []HolderIsNamed
<1>1. LeaseInv => HolderIsNamed
  BY DEF LeaseInv
<1> QED BY LeaseInvHolds, <1>1, PTL

\* A takeover names a run that is gone (classify_stale).
THEOREM TakeoversAreSafe == Spec => []TakeoverFromTheDead
<1>1. LeaseInv => TakeoverFromTheDead
  BY DEF LeaseInv
<1> QED BY LeaseInvHolds, <1>1, PTL

\* Types of the lease state.
THEOREM LeaseTypes == Spec => []TypeOK
<1>1. LeaseInv => TypeOK
  BY DEF LeaseInv
<1> QED BY LeaseInvHolds, <1>1, PTL

-----------------------------------------------------------------------------
\* The refinement: what a step of the files does to the contract's state.

\* No lock, no record: the contract starts free and without evidence.
LEMMA InitContract == Init => Contract!Init
BY DEF Init, Contract!Init, Holder, Evidence, ReadOwner

\* Every step is a step of the contract or invisible to the lease's users.
LEMMA NextContract == LeaseInv /\ [Next]_vars => [Contract!Next]_Contract!vars
<1> SUFFICES ASSUME LeaseInv, [Next]_vars
             PROVE  Contract!Next \/ (Holder' = Holder /\ Evidence' = Evidence)
  BY DEF Contract!vars
<1> USE DEF LeaseInv, TypeOK, DescriptorsOnPath, LocksAreHeld, RecordsAreOwned,
            HolderIsNamed, RecordTracksHolder, Steps, Holding, Ended,
            Holder, Evidence, ReadOwner, Goto
<1> DEFINE Stutter == Holder' = Holder /\ Evidence' = Evidence
<1>1. ASSUME NEW r \in Run,
             AttachReadOnly(r) \/ Begin(r) \/ LockRefused(r) \/ GiveUp(r) \/ PollAgain(r)
      PROVE  Stutter
  BY <1>1 DEF AttachReadOnly, Begin, LockRefused, GiveUp, PollAgain
<1>2. ASSUME NEW r \in Run, OpenFile(r) PROVE Stutter
  BY <1>2 DEF OpenFile, Unused
<1>3. ASSUME NEW r \in Run, LockGranted(r) PROVE Contract!Acquire(r)
  BY <1>3 DEF LockGranted, Contract!Acquire
<1>4. ASSUME NEW r \in Run, ReadPrevious(r) PROVE Stutter
  BY <1>4 DEF ReadPrevious
<1>5. ASSUME NEW r \in Run, TruncateRecord(r) PROVE Stutter
  BY <1>5 DEF TruncateRecord
<1>6. ASSUME NEW r \in Run, WriteOwner(r) PROVE Contract!Claim(r)
  BY <1>6 DEF WriteOwner, Contract!Claim
<1>7. ASSUME NEW r \in Run, WriteOwnerFails(r) PROVE Contract!End(r)
  BY <1>7 DEF WriteOwnerFails, Close, Contract!End
<1>8. ASSUME NEW r \in Run, ClearRecord(r) PROVE Stutter
  BY <1>8 DEF ClearRecord
<1>9. ASSUME NEW r \in Run, DropFile(r) PROVE Contract!End(r)
  BY <1>9 DEF DropFile, Close, Contract!End
<1>10. ASSUME NEW r \in Run, DropHeld(r) PROVE Contract!End(r)
  BY <1>10 DEF DropHeld, Close, Contract!End
<1>11. ASSUME NEW r \in Run, Crash(r) PROVE Stutter \/ Contract!End(r)
  BY <1>11 DEF Crash, Close, Contract!End
<1>12. CASE UNCHANGED vars
  BY <1>12 DEF vars
<1> QED
  BY <1>1, <1>2, <1>3, <1>4, <1>5, <1>6, <1>7, <1>8, <1>9, <1>10, <1>11, <1>12
  DEF Next, AcquireStep, Release, Contract!Next

\* The lease file, its polling and its crashes implement LeaseContract: the
\* promise the commands that write a managed target rely on.
THEOREM LeaseImplementsContract == Spec => ImplementsContract
BY LeaseInvHolds, InitContract, NextContract, PTL DEF Spec, ImplementsContract, Contract!Spec

-----------------------------------------------------------------------------
(* The workflows of CI.                                                    *)

\* A nonempty set of numbers has a smallest.
LEMMA LeastNumber == ASSUME NEW S \in SUBSET Nat, S # {} PROVE \E n \in S : \A m \in S : n <= m
<1>1. PICK n \in S : \A m \in S : ~(<<m, n>> \in OpToRel(<, Nat))
  BY NatLessThanWellFounded, WFMin
<1>2. \A m \in S : ~(m < n)
  BY <1>1 DEF OpToRel
<1> QED
  BY <1>2

\* The order in which the steps of every job come.
Rank(do) ==
  CASE do = "validate" -> 0 [] do = "restore" -> 1 [] do = "fetch" -> 2 [] do = "verify" -> 3
    [] do = "save" -> 4 [] do = "build" -> 5 [] do = "stage" -> 6 [] OTHER -> 7

\* Steps in that order, of ranks from a up to b, with one step for each of D.
IsSequence(s) == \E S : s \in Seq(S)
Program(s, a, b, D) ==
  /\ IsSequence(s)
  /\ \A i \in DOMAIN s : s[i].do \in Effective => a <= Rank(s[i].do) /\ Rank(s[i].do) < b
  /\ \A i, j \in DOMAIN s :
       s[i].do \in Effective /\ s[j].do \in Effective /\ i < j => Rank(s[i].do) < Rank(s[j].do)
  /\ \A d \in D : \E i \in DOMAIN s : s[i].do = d

LEMMA RankIsNat == \A do : Rank(do) \in Nat
  BY DEF Rank

LEMMA Joined ==
  ASSUME NEW s, NEW t, NEW a \in Nat, NEW b \in Nat, NEW c \in Nat, NEW D, NEW E, NEW G,
         Program(s, a, b, D), Program(t, b, c, E), a <= b, b <= c, G \subseteq D \cup E
  PROVE  Program(s \o t, a, c, G)
<1> DEFINE u == s \o t
<1>0. PICK S, T : s \in Seq(S) /\ t \in Seq(T)
  BY DEF Program, IsSequence
<1>1. s \in Seq(S \cup T) /\ t \in Seq(S \cup T)
  BY <1>0
<1>2. /\ u \in Seq(S \cup T) /\ Len(u) = Len(s) + Len(t) /\ DOMAIN u = 1..Len(u)
      /\ DOMAIN s = 1..Len(s) /\ DOMAIN t = 1..Len(t) /\ Len(s) \in Nat /\ Len(t) \in Nat
  BY <1>1
<1>3. \A i \in DOMAIN s : i \in DOMAIN u /\ u[i] = s[i]
  BY <1>1, <1>2
<1>4. \A i \in DOMAIN t : Len(s) + i \in DOMAIN u /\ u[Len(s) + i] = t[i]
  BY <1>1, <1>2
<1>5. \A i \in DOMAIN u : i \in DOMAIN s \/ (i - Len(s) \in DOMAIN t /\ u[i] = t[i - Len(s)])
  BY <1>1, <1>2
<1>6. ASSUME NEW i \in DOMAIN u, u[i].do \in Effective
      PROVE  a <= Rank(u[i].do) /\ Rank(u[i].do) < c
  <2>1. CASE i \in DOMAIN s
    BY <2>1, <1>3, <1>6, RankIsNat DEF Program
  <2>2. CASE i - Len(s) \in DOMAIN t /\ u[i] = t[i - Len(s)]
    BY <2>2, <1>6, RankIsNat DEF Program
  <2> QED
    BY <1>5, <2>1, <2>2
<1>7. ASSUME NEW i \in DOMAIN u, NEW j \in DOMAIN u, u[i].do \in Effective, u[j].do \in Effective, i < j
      PROVE  Rank(u[i].do) < Rank(u[j].do)
  <2>1. CASE i \in DOMAIN s /\ j \in DOMAIN s
    BY <2>1, <1>3, <1>7 DEF Program
  <2>2. CASE i \in DOMAIN s /\ j \notin DOMAIN s
    <3>1. Rank(u[i].do) < b
      BY <2>2, <1>3, <1>7 DEF Program
    <3>2. b <= Rank(u[j].do)
      BY <2>2, <1>5, <1>7 DEF Program
    <3> QED
      BY <3>1, <3>2, RankIsNat
  <2>3. CASE i \notin DOMAIN s
    <3>1. j \notin DOMAIN s
      BY <2>3, <1>2, <1>7
    <3>2. /\ i - Len(s) \in DOMAIN t /\ u[i] = t[i - Len(s)]
          /\ j - Len(s) \in DOMAIN t /\ u[j] = t[j - Len(s)]
      BY <2>3, <3>1, <1>5
    <3>3. i - Len(s) < j - Len(s)
      BY <1>2, <1>7
    <3> HIDE DEF u
    <3> QED
      BY <3>2, <3>3, <1>7 DEF Program
  <2> QED
    BY <2>1, <2>2, <2>3
<1>8. ASSUME NEW d \in G PROVE \E i \in DOMAIN u : u[i].do = d
  <2>1. (\E i \in DOMAIN s : s[i].do = d) \/ (\E i \in DOMAIN t : t[i].do = d)
    BY DEF Program
  <2> HIDE DEF u
  <2> QED
    BY <2>1, <1>3, <1>4
<1> QED
  BY <1>2, <1>6, <1>7, <1>8 DEF Program, IsSequence

\* The same where one of the two does nothing in particular.
LEMMA Followed ==
  ASSUME NEW s, NEW t, NEW a \in Nat, NEW b \in Nat, NEW c \in Nat, NEW D,
         Program(s, a, b, D), Program(t, b, c, {}), a <= b, b <= c
  PROVE  Program(s \o t, a, c, D)
<1>1. D \subseteq D \cup {}
  OBVIOUS
<1> QED
  BY <1>1, Joined
LEMMA Preceded ==
  ASSUME NEW s, NEW t, NEW a \in Nat, NEW b \in Nat, NEW c \in Nat, NEW E,
         Program(s, a, b, {}), Program(t, b, c, E), a <= b, b <= c
  PROVE  Program(s \o t, a, c, E)
<1>1. E \subseteq {} \cup E
  OBVIOUS
<1> QED
  BY <1>1, Joined

\* One step, of the rank it has or of none.
LEMMA OneStep ==
  ASSUME NEW do, NEW reads, NEW a \in Nat, NEW b \in Nat,
         do \in Effective => a <= Rank(do) /\ Rank(do) < b
  PROVE  Program(Step(do, reads), a, b, {do})
<1>1. /\ Step(do, reads) \in Seq({[do |-> do, reads |-> reads]}) /\ DOMAIN Step(do, reads) = {1}
      /\ Step(do, reads)[1].do = do
  BY DEF Step
<1> QED
  BY <1>1 DEF Program, IsSequence

LEMMA PlainStep ==
  ASSUME NEW do, NEW reads, NEW a \in Nat, NEW b \in Nat,
         do \in Effective => a <= Rank(do) /\ Rank(do) < b
  PROVE  Program(Step(do, reads), a, b, {})
<1>1. Program(Step(do, reads), a, b, {do})
  BY OneStep
<1> QED
  BY <1>1 DEF Program

\* A step that the matrix may do without.
LEMMA Optional ==
  ASSUME NEW absent, NEW s, NEW a \in Nat, NEW b \in Nat, NEW D, Program(s, a, b, D)
  PROVE  Program(Unless(absent, s), a, b, {})
<1>1. Program(<<>>, a, b, {})
  BY DEF Program, IsSequence
<1>2. Program(s, a, b, {})
  BY DEF Program
<1> QED
  BY <1>1, <1>2 DEF Unless

LEMMA BootstrapProgram ==
  ASSUME NEW m, NEW exact \in BOOLEAN, NEW a \in Nat, NEW b \in Nat
  PROVE  Program(BootstrapSteps(m, exact), a, b, {}) /\ Program(VersionStep(m), a, b, {})
<1> DEFINE do == IF exact THEN "bootstrap-exact" ELSE "bootstrap"
<1>0. do \notin Effective
  BY DEF Effective
<1> HIDE DEF do
<1>1. Program(Step(do, {"hosted"}), a, b, {})
  BY <1>0, PlainStep
<1>2. Program(BootstrapSteps(m, exact), a, b, {})
  BY <1>1, Optional DEF BootstrapSteps, do
<1>4. Program(VersionStep(m), a, b, {})
  BY PlainStep DEF VersionStep, Effective
<1> QED
  BY <1>2, <1>4

LEMMA PreambleProgram ==
  ASSUME NEW m
  PROVE  Program(CheckoutPreamble(m), 0, 1, {})
<1> DEFINE C == Step("checkout", {})
           B == BootstrapSteps(m, FALSE)
           V == Step("validate", {})
<1>1. Program(C, 0, 0, {})
  BY PlainStep DEF Effective, C
<1>2. Program(B, 0, 0, {})
  BY BootstrapProgram DEF B
<1>3. Program(VersionStep(m), 0, 0, {})
  BY BootstrapProgram
<1>4. Program(V, 0, 1, {})
  BY PlainStep DEF Effective, Rank, V
<1> HIDE DEF C, B, V
<1>5. Program(C \o B, 0, 0, {})
  BY <1>1, <1>2, Followed
<1>6. Program(C \o B \o VersionStep(m), 0, 0, {})
  BY <1>5, <1>3, Followed
<1>7. Program(C \o B \o VersionStep(m) \o V, 0, 1, {})
  BY <1>6, <1>4, Followed
<1> QED
  BY <1>7 DEF CheckoutPreamble, C, B, V

LEMMA FetchProgram ==
  ASSUME NEW m
  PROVE  Program(FetchSteps(m), 1, 3, {"fetch"})
<1>1. Program(Step("restore", {"hosted", "name", "runtime_artifact"}), 1, 2, {"restore"})
  BY OneStep DEF Effective, Rank
<1>2. Program(Unless(m.bootstrap = NONE, Step("restore", {"hosted", "name", "runtime_artifact"})), 1, 2, {})
  BY <1>1, Optional
<1>3. Program(Step("fetch", {"runtime_remote", "runtime_artifact", "evidence_flags", "hosted"} \cup OpenUsdKeys), 2, 3, {"fetch"})
  BY OneStep DEF Effective, Rank
<1> QED
  BY <1>2, <1>3, Preceded DEF FetchSteps

LEMMA SaveProgram ==
  ASSUME NEW m
  PROVE  Program(CacheSaveSteps(m), 4, 5, {})
<1>1. Program(Step("save", {"hosted", "name", "runtime_artifact"}), 4, 5, {"save"})
  BY OneStep DEF Effective, Rank
<1> QED
  BY <1>1, Optional DEF CacheSaveSteps

LEMMA MaterializeProgram == Program(MaterializeSteps, 3, 4, {"verify"})
<1>1. Program(Step("verify", {"runtime_artifact", "minimum_trust", "evidence_flags"} \cup OpenUsdKeys), 3, 4, {"verify"})
  BY OneStep DEF Effective, Rank
<1>2. Program(Step("materialize", Selection \cup {"runtime_artifact"}), 4, 4, {})
  BY PlainStep DEF Effective
<1> QED
  BY <1>1, <1>2, Followed DEF MaterializeSteps

LEMMA PrebuildProgram ==
  ASSUME NEW m, NEW a \in Nat
  PROVE  /\ Program(HostPackagesStep(m), a, a, {}) /\ Program(PrebuildSteps(m), a, a, {})
         /\ Program(LibraryPull, a, a, {})
<1>1. Program(Step("host-packages", {"host_packages_apt", "host_packages_brew"}), a, a, {})
  BY PlainStep DEF Effective
<1>2. Program(HostPackagesStep(m), a, a, {})
  BY <1>1, Optional DEF HostPackagesStep, NeedsHostPackages
<1>3. Program(Step("host-python", {"hosted", "host_python"}), a, a, {})
  BY PlainStep DEF Effective
<1>4. Program(Unless(~NeedsHostPython(m), Step("host-python", {"hosted", "host_python"})), a, a, {})
  BY <1>3, Optional DEF NeedsHostPython
<1>5. Program(HostPackagesStep(m) \o Unless(~NeedsHostPython(m), Step("host-python", {"hosted", "host_python"})), a, a, {})
  BY <1>2, <1>4, Followed
<1>6. Program(Step("runtime-validate", Selection), a, a, {}) /\ Program(LibraryPull, a, a, {})
  BY PlainStep DEF Effective, LibraryPull
<1> QED
  BY <1>2, <1>5, <1>6, Followed DEF PrebuildSteps

LEMMA ChecksProgram ==
  ASSUME NEW checks, NEW reads, NEW a \in Nat
  PROVE  Program(CheckSteps(checks, reads), a, a, {})
<1>1. Program(Step("checks", reads), a, a, {})
  BY PlainStep DEF Effective
<1> QED
  BY <1>1, Optional DEF CheckSteps

LEMMA SourceProgram ==
  ASSUME NEW m
  PROVE  Program(SourcePreamble(m), 0, 5, {"fetch", "verify"})
<1>1. Program(CheckoutPreamble(m), 0, 1, {})
  BY PreambleProgram
<1>2. Program(FetchSteps(m), 1, 3, {"fetch"})
  BY FetchProgram
<1>3. Program(MaterializeSteps, 3, 4, {"verify"})
  BY MaterializeProgram
<1>4. Program(LibraryPull, 4, 4, {})
  BY PrebuildProgram
<1>5. Program(CacheSaveSteps(m), 4, 5, {})
  BY SaveProgram
<1>6. Program(PrebuildSteps(m), 5, 5, {})
  BY PrebuildProgram
<1>7. Program(CheckoutPreamble(m) \o FetchSteps(m), 0, 3, {"fetch"})
  BY <1>1, <1>2, Preceded
<1>8. Program(CheckoutPreamble(m) \o FetchSteps(m) \o MaterializeSteps, 0, 4, {"fetch", "verify"})
  BY <1>7, <1>3, Joined
<1>9. Program(CheckoutPreamble(m) \o FetchSteps(m) \o MaterializeSteps \o LibraryPull, 0, 4, {"fetch", "verify"})
  BY <1>8, <1>4, Followed
<1>10. Program(CheckoutPreamble(m) \o FetchSteps(m) \o MaterializeSteps \o LibraryPull \o CacheSaveSteps(m), 0, 5, {"fetch", "verify"})
  BY <1>9, <1>5, Followed
<1>11. Program(CheckoutPreamble(m) \o FetchSteps(m) \o MaterializeSteps \o LibraryPull \o CacheSaveSteps(m) \o PrebuildSteps(m), 0, 5, {"fetch", "verify"})
  BY <1>10, <1>6, Followed
<1> QED
  BY <1>11 DEF SourcePreamble

LEMMA WorkspaceProgram ==
  ASSUME NEW m
  PROVE  Program(WorkspaceSteps(m), 0, 6, {"fetch", "verify", "build"})
<1> DEFINE G == Step("graph", {})
<1>1. Program(SourcePreamble(m), 0, 5, {"fetch", "verify"})
  BY SourceProgram
<1>2. Program(G, 5, 5, {})
  BY PlainStep DEF Effective, G
<1>3. Program(Step("build", Selection \cup {"intent_flags"}), 5, 6, {"build"})
  BY OneStep DEF Effective, Rank
<1>4. Program(Step("test", Selection \cup {"intent_flags", "verify"}), 6, 6, {})
  BY PlainStep DEF Effective
<1>5. Program(Step("pyramid", Selection \cup {"verify", "up_to"}), 6, 6, {})
  BY PlainStep DEF Effective
<1>6. Program(CheckSteps(m.checks, {"verify"}), 6, 6, {})
  BY ChecksProgram
<1>7. Program(Step("package", Selection \cup {"verify"}), 6, 6, {})
  BY PlainStep DEF Effective
<1> HIDE DEF G
<1>8. Program(SourcePreamble(m) \o G, 0, 5, {"fetch", "verify"})
  BY <1>1, <1>2, Followed
<1>9. Program(SourcePreamble(m) \o G \o Step("build", Selection \cup {"intent_flags"}), 0, 6, {"fetch", "verify", "build"})
  BY <1>8, <1>3, Joined
<1>10. Program(SourcePreamble(m) \o G \o Step("build", Selection \cup {"intent_flags"}) \o Step("test", Selection \cup {"intent_flags", "verify"}), 0, 6, {"fetch", "verify", "build"})
  BY <1>9, <1>4, Followed
<1>11. Program(SourcePreamble(m) \o G \o Step("build", Selection \cup {"intent_flags"}) \o Step("test", Selection \cup {"intent_flags", "verify"}) \o Step("pyramid", Selection \cup {"verify", "up_to"}), 0, 6, {"fetch", "verify", "build"})
  BY <1>10, <1>5, Followed
<1>12. Program(SourcePreamble(m) \o G \o Step("build", Selection \cup {"intent_flags"}) \o Step("test", Selection \cup {"intent_flags", "verify"}) \o Step("pyramid", Selection \cup {"verify", "up_to"}) \o CheckSteps(m.checks, {"verify"}), 0, 6, {"fetch", "verify", "build"})
  BY <1>11, <1>6, Followed
<1>13. Program(SourcePreamble(m) \o G \o Step("build", Selection \cup {"intent_flags"}) \o Step("test", Selection \cup {"intent_flags", "verify"}) \o Step("pyramid", Selection \cup {"verify", "up_to"}) \o CheckSteps(m.checks, {"verify"}) \o Step("package", Selection \cup {"verify"}), 0, 6, {"fetch", "verify", "build"})
  BY <1>12, <1>7, Followed
<1> QED
  BY <1>13 DEF WorkspaceSteps, G

LEMMA BundleProgram ==
  ASSUME NEW m
  PROVE  Program(BundleSteps(m), 0, 6, {"fetch", "verify", "build"})
<1> DEFINE X == CheckSteps(m.checks, {})
<1>1. Program(SourcePreamble(m), 0, 5, {"fetch", "verify"})
  BY SourceProgram
<1>2. Program(Step("build", Selection \cup {"bundle"}), 5, 6, {"build"})
  BY OneStep DEF Effective, Rank
<1>3. Program(Step("pyramid", Selection \cup {"bundle", "up_to"}), 6, 6, {})
  BY PlainStep DEF Effective
<1>4. Program(X, 6, 6, {})
  BY ChecksProgram DEF X
<1>5. Program(Step("package", Selection \cup {"bundle"}), 6, 6, {})
  BY PlainStep DEF Effective
<1> HIDE DEF X
<1>6. Program(SourcePreamble(m) \o Step("build", Selection \cup {"bundle"}), 0, 6, {"fetch", "verify", "build"})
  BY <1>1, <1>2, Joined
<1>7. Program(SourcePreamble(m) \o Step("build", Selection \cup {"bundle"}) \o Step("pyramid", Selection \cup {"bundle", "up_to"}), 0, 6, {"fetch", "verify", "build"})
  BY <1>6, <1>3, Followed
<1>8. Program(SourcePreamble(m) \o Step("build", Selection \cup {"bundle"}) \o Step("pyramid", Selection \cup {"bundle", "up_to"}) \o X, 0, 6, {"fetch", "verify", "build"})
  BY <1>7, <1>4, Followed
<1>9. Program(SourcePreamble(m) \o Step("build", Selection \cup {"bundle"}) \o Step("pyramid", Selection \cup {"bundle", "up_to"}) \o X \o Step("package", Selection \cup {"bundle"}), 0, 6, {"fetch", "verify", "build"})
  BY <1>8, <1>5, Followed
<1> QED
  BY <1>9 DEF BundleSteps, X

LEMMA BareProgram ==
  ASSUME NEW m
  PROVE  Program(RuntimeFreeSteps(m), 0, 1, {}) /\ Program(StepsOf(m, "graph"), 0, 1, {})
<1> DEFINE G == Step("graph", {})
<1>1. Program(CheckoutPreamble(m), 0, 1, {})
  BY PreambleProgram
<1>2. Program(HostPackagesStep(m), 1, 1, {})
  BY PrebuildProgram
<1>3. Program(G, 1, 1, {})
  BY PlainStep DEF Effective, G
<1>4. Program(Step("build-free", Selection \cup {"intent_flags"}), 1, 1, {})
  BY PlainStep DEF Effective
<1>5. Program(Step("test-free", Selection \cup {"intent_flags", "verify"}), 1, 1, {})
  BY PlainStep DEF Effective
<1> HIDE DEF G
<1>6. Program(CheckoutPreamble(m) \o HostPackagesStep(m), 0, 1, {})
  BY <1>1, <1>2, Followed
<1>7. Program(CheckoutPreamble(m) \o HostPackagesStep(m) \o G, 0, 1, {})
  BY <1>6, <1>3, Followed
<1>8. Program(CheckoutPreamble(m) \o HostPackagesStep(m) \o G \o Step("build-free", Selection \cup {"intent_flags"}), 0, 1, {})
  BY <1>7, <1>4, Followed
<1>9. Program(CheckoutPreamble(m) \o HostPackagesStep(m) \o G \o Step("build-free", Selection \cup {"intent_flags"}) \o Step("test-free", Selection \cup {"intent_flags", "verify"}), 0, 1, {})
  BY <1>8, <1>5, Followed
<1>10. Program(CheckoutPreamble(m) \o G, 0, 1, {})
  BY <1>1, <1>3, Followed
<1> QED
  BY <1>9, <1>10 DEF RuntimeFreeSteps, StepsOf, G

LEMMA CandidateProgram ==
  ASSUME NEW m
  PROVE  Program(CandidateSteps(m), 0, 7, {"fetch", "verify", "build", "stage"})
<1> DEFINE C == Step("checkout", {})
           B == BootstrapSteps(m, TRUE)
           V == Step("validate", {})
           X == CheckSteps(m.checks \o m.release.checks, {})
<1>1. Program(C, 0, 0, {})
  BY PlainStep DEF Effective, C
<1>2. Program(B, 0, 0, {})
  BY BootstrapProgram DEF B
<1>3. Program(VersionStep(m), 0, 0, {})
  BY BootstrapProgram
<1>4. Program(Step("tag", {"bundle"}), 0, 0, {})
  BY PlainStep DEF Effective
<1>5. Program(V, 0, 1, {})
  BY PlainStep DEF Effective, Rank, V
<1>6. Program(FetchSteps(m), 1, 3, {"fetch"})
  BY FetchProgram
<1>7. Program(MaterializeSteps, 3, 4, {"verify"})
  BY MaterializeProgram
<1>8. Program(PrebuildSteps(m), 4, 4, {})
  BY PrebuildProgram
<1>9. Program(LibraryPull, 4, 5, {})
  BY PlainStep DEF Effective, LibraryPull
<1>10. Program(Step("build", Selection \cup {"bundle"}), 5, 6, {"build"})
  BY OneStep DEF Effective, Rank
<1>11. Program(Step("pyramid", Selection \cup {"bundle", "up_to"}), 6, 6, {})
  BY PlainStep DEF Effective
<1>12. Program(X, 6, 6, {})
  BY ChecksProgram DEF X
<1>13. Program(Step("package", Selection \cup {"bundle"}), 6, 6, {})
  BY PlainStep DEF Effective
<1>14. Program(Step("stage", Selection \cup {"bundle", "name"}), 6, 7, {"stage"})
  BY OneStep DEF Effective, Rank
<1> HIDE DEF C, B, V, X
<1>15. Program(C \o B, 0, 0, {})
  BY <1>1, <1>2, Followed
<1>16. Program(C \o B \o VersionStep(m), 0, 0, {})
  BY <1>15, <1>3, Followed
<1>17. Program(C \o B \o VersionStep(m) \o Step("tag", {"bundle"}), 0, 0, {})
  BY <1>16, <1>4, Followed
<1>18. Program(C \o B \o VersionStep(m) \o Step("tag", {"bundle"}) \o V, 0, 1, {})
  BY <1>17, <1>5, Followed
<1>19. Program(C \o B \o VersionStep(m) \o Step("tag", {"bundle"}) \o V \o FetchSteps(m), 0, 3, {"fetch"})
  BY <1>18, <1>6, Preceded
<1>20. Program(C \o B \o VersionStep(m) \o Step("tag", {"bundle"}) \o V \o FetchSteps(m) \o MaterializeSteps, 0, 4, {"fetch", "verify"})
  BY <1>19, <1>7, Joined
<1>21. Program(C \o B \o VersionStep(m) \o Step("tag", {"bundle"}) \o V \o FetchSteps(m) \o MaterializeSteps \o PrebuildSteps(m), 0, 4, {"fetch", "verify"})
  BY <1>20, <1>8, Followed
<1>22. Program(C \o B \o VersionStep(m) \o Step("tag", {"bundle"}) \o V \o FetchSteps(m) \o MaterializeSteps \o PrebuildSteps(m) \o LibraryPull, 0, 5, {"fetch", "verify"})
  BY <1>21, <1>9, Followed
<1>23. Program(C \o B \o VersionStep(m) \o Step("tag", {"bundle"}) \o V \o FetchSteps(m) \o MaterializeSteps \o PrebuildSteps(m) \o LibraryPull \o Step("build", Selection \cup {"bundle"}), 0, 6, {"fetch", "verify", "build"})
  BY <1>22, <1>10, Joined
<1>24. Program(C \o B \o VersionStep(m) \o Step("tag", {"bundle"}) \o V \o FetchSteps(m) \o MaterializeSteps \o PrebuildSteps(m) \o LibraryPull \o Step("build", Selection \cup {"bundle"}) \o Step("pyramid", Selection \cup {"bundle", "up_to"}), 0, 6, {"fetch", "verify", "build"})
  BY <1>23, <1>11, Followed
<1>25. Program(C \o B \o VersionStep(m) \o Step("tag", {"bundle"}) \o V \o FetchSteps(m) \o MaterializeSteps \o PrebuildSteps(m) \o LibraryPull \o Step("build", Selection \cup {"bundle"}) \o Step("pyramid", Selection \cup {"bundle", "up_to"}) \o X, 0, 6, {"fetch", "verify", "build"})
  BY <1>24, <1>12, Followed
<1>26. Program(C \o B \o VersionStep(m) \o Step("tag", {"bundle"}) \o V \o FetchSteps(m) \o MaterializeSteps \o PrebuildSteps(m) \o LibraryPull \o Step("build", Selection \cup {"bundle"}) \o Step("pyramid", Selection \cup {"bundle", "up_to"}) \o X \o Step("package", Selection \cup {"bundle"}), 0, 6, {"fetch", "verify", "build"})
  BY <1>25, <1>13, Followed
<1>27. Program(C \o B \o VersionStep(m) \o Step("tag", {"bundle"}) \o V \o FetchSteps(m) \o MaterializeSteps \o PrebuildSteps(m) \o LibraryPull \o Step("build", Selection \cup {"bundle"}) \o Step("pyramid", Selection \cup {"bundle", "up_to"}) \o X \o Step("package", Selection \cup {"bundle"}) \o Step("stage", Selection \cup {"bundle", "name"}), 0, 7, {"fetch", "verify", "build", "stage"})
  BY <1>26, <1>14, Joined
<1> QED
  BY <1>27 DEF CandidateSteps, C, B, V, X

\* The step after the n-th is the next one that matters.
LEMMA AfterIs ==
  ASSUME NEW S, NEW s \in Seq(S), NEW n \in 0..Len(s)
  PROVE  /\ After(s, n) \in 0..Len(s) + 1 /\ n < After(s, n)
         /\ \A i \in DOMAIN s : n < i /\ i < After(s, n) => s[i].do \notin Effective
<1> DEFINE next == {k \in DOMAIN s : k > n /\ s[k].do \in Effective}
<1>1. Len(s) \in Nat /\ DOMAIN s = 1..Len(s)
  OBVIOUS
<1>2. CASE next = {}
  <2>1. After(s, n) = Len(s) + 1
    BY <1>2 DEF After
  <2>2. \A i \in DOMAIN s : i > n => s[i].do \notin Effective
    BY <1>2
  <2> QED
    BY <1>1, <2>1, <2>2
<1>3. CASE next # {}
  <2>1. next \in SUBSET Nat
    BY <1>1
  <2>2. After(s, n) = CHOOSE k \in next : \A j \in next : k <= j
    BY <1>3 DEF After
  <2>3. \E k \in next : \A j \in next : k <= j
    <3> HIDE DEF next
    <3> QED
      BY <2>1, <1>3, LeastNumber
  <2>4. After(s, n) \in next /\ \A j \in next : After(s, n) <= j
    <3> HIDE DEF next
    <3> QED
      BY <2>2, <2>3
  <2>5. \A i \in DOMAIN s : i > n /\ i < After(s, n) => i \notin next
    BY <1>1, <2>1, <2>4
  <2> QED
    BY <1>1, <2>4, <2>5
<1> QED
  BY <1>2, <1>3

-----------------------------------------------------------------------------
\* What an entry of a job says of its cell.
LEMMA EntryName ==
  ASSUME NEW m, NEW c, NEW shape
  PROVE  LET e == Entry(m, c, shape) IN "name" \in DOMAIN e /\ e.name = c.name /\ e["name"] = c.name
  BY DEF Entry, KeyValue, CommonKeys

LEMMA EntryRuntime ==
  ASSUME NEW m, NEW c, NEW shape, ~IsRuntimeFree(c)
  PROVE  LET e == Entry(m, c, shape) IN
         /\ {"runtime_artifact", "minimum_trust", "evidence_flags"} \subseteq DOMAIN e
         /\ e["runtime_artifact"] = c.runtime
         /\ e["minimum_trust"] = MinimumTrust(m, c)
         /\ e["evidence_flags"] = EvidenceFlags(RequireEvidence(m, c))
<1>1. {"runtime_artifact", "minimum_trust", "evidence_flags"} \subseteq DOMAIN Entry(m, c, shape)
  BY DEF Entry, CommonKeys, RuntimeKeys
<1>2. \A key \in {"runtime_artifact", "minimum_trust", "evidence_flags"} :
        Entry(m, c, shape)[key] = KeyValue(m, c, key)
  BY <1>1 DEF Entry
<1>3. KeyValue(m, c, "runtime_artifact") = c.runtime
  BY DEF KeyValue
<1>4. KeyValue(m, c, "minimum_trust") = MinimumTrust(m, c)
  BY DEF KeyValue
<1>5. KeyValue(m, c, "evidence_flags") = EvidenceFlags(RequireEvidence(m, c))
  BY DEF KeyValue
<1> QED
  BY <1>1, <1>2, <1>3, <1>4, <1>5

\* A job has nothing to do with a runtime, or knows the one of its cell, fetches
\* and verifies it.
Bare(steps) == Program(steps, 0, 1, {})
KnowsRuntime(entry, m, c) ==
  /\ c.runtime # NONE
  /\ {"runtime_artifact", "minimum_trust", "evidence_flags"} \subseteq DOMAIN entry
  /\ entry["runtime_artifact"] = c.runtime
  /\ entry["minimum_trust"] = MinimumTrust(m, c)
  /\ entry["evidence_flags"] = EvidenceFlags(RequireEvidence(m, c))

\* An entry of a rendered job is for the cell c of its matrix.
RunsCell(x, c) ==
  LET m == CiMatrices[x.matrix] IN
  /\ x.matrix \in DOMAIN CiMatrices /\ m \in AllMatrices /\ c \in CellsOf(m.cells)
  /\ "name" \in DOMAIN x.entry /\ x.entry["name"] = c.name
  /\ Bare(x.steps) \/ (KnowsRuntime(x.entry, m, c) /\ Program(x.steps, 0, 7, {"fetch", "verify"}))
  /\ x.event # "tag" => Program(x.steps, 0, 6, {})
  /\ x.event = "tag" =>
       /\ c \in CandidateCells(m) /\ x.id = Append(<<"candidates">>, c.name)
       /\ Program(x.steps, 0, 7, {"fetch", "verify", "stage"}) /\ KnowsRuntime(x.entry, m, c)

LEMMA Weaker ==
  ASSUME NEW s, NEW a \in Nat, NEW b \in Nat, NEW c \in Nat, NEW D, NEW E,
         Program(s, a, b, D), E \subseteq D, b <= c
  PROVE  Program(s, a, c, E)
  BY RankIsNat DEF Program

LEMMA CellIsValid ==
  ASSUME NEW m \in AllMatrices, NEW c \in CellsOf(m.cells)
  PROVE  ValidCell(m, c)
<1>1. PICK i \in DOMAIN m.cells : c = m.cells[i]
  BY DEF CellsOf
<1> QED
  BY <1>1, MatrixAssumption DEF ValidMatrix

LEMMA CandidateHasRuntime ==
  ASSUME NEW m \in AllMatrices, NEW c \in CandidateCells(m)
  PROVE  /\ c \in CellsOf(m.cells) /\ c.runtime # NONE /\ c.lane = "main"
         /\ c.trust >= m.trust.release /\ m.release # NONE
<1>1. c \in CellsOf(m.cells) /\ c.publish = "candidate"
  BY DEF CandidateCells
<1>2. ValidCell(m, c)
  BY <1>1, CellIsValid
<1>3. ~IsWorkspace(c)
  BY <1>1, <1>2 DEF ValidCell, ValidWorkspace
<1>4. c.runtime # NONE
  BY <1>2, <1>3 DEF ValidCell, ValidIdentity
<1>5. c.lane = "main" /\ c.trust >= m.trust.release
  BY <1>1, <1>2 DEF ValidCell, ValidPins
<1>6. m.release # NONE
  BY MatrixAssumption DEF ValidMatrix, ValidReleaseBlock
<1> QED
  BY <1>1, <1>4, <1>5, <1>6

LEMMA SourceEntry ==
  ASSUME NEW m \in AllMatrices, NEW lane, NEW shape \in Shapes, NEW c \in ShapedCells(m, lane, shape)
  PROVE  LET e == Entry(m, c, shape) IN
         /\ Program(StepsOf(m, shape), 0, 6, {})
         /\ Bare(StepsOf(m, shape))
            \/ (KnowsRuntime(e, m, c) /\ Program(StepsOf(m, shape), 0, 7, {"fetch", "verify"}))
<1> DEFINE e == Entry(m, c, shape)
<1>1. c \in CellsOf(m.cells) /\ JobShape(c) = shape
  BY DEF ShapedCells
<1>2. CASE shape \in {"graph", "runtime-free"}
  <2>1. Bare(StepsOf(m, shape))
    <3>1. CASE shape = "graph"
      BY <3>1, BareProgram DEF Bare
    <3>2. CASE shape = "runtime-free"
      BY <3>2, BareProgram DEF Bare, StepsOf
    <3> QED
      BY <1>2, <3>1, <3>2
  <2>2. Program(StepsOf(m, shape), 0, 6, {})
    BY <2>1, Weaker DEF Bare
  <2> QED
    BY <2>1, <2>2
<1>3. CASE shape \in {"bundle", "workspace"}
  <2>1. ~IsRuntimeFree(c)
    <3>1. CASE shape = "bundle"
      <4>1. ~IsWorkspace(c)
        BY <3>1, <1>1 DEF JobShape
      <4> QED
        BY <4>1, <1>1, CellIsValid DEF ValidCell, ValidIdentity, IsRuntimeFree
    <3>2. CASE shape = "workspace"
      BY <3>2, <1>1 DEF JobShape
    <3> QED
      BY <1>3, <3>1, <3>2
  <2>2. KnowsRuntime(e, m, c)
    BY <2>1, EntryRuntime DEF KnowsRuntime, IsRuntimeFree
  <2>3. Program(StepsOf(m, shape), 0, 6, {"fetch", "verify", "build"})
    <3>1. CASE shape = "bundle"
      BY <3>1, BundleProgram DEF StepsOf
    <3>2. CASE shape = "workspace"
      BY <3>2, WorkspaceProgram DEF StepsOf
    <3> QED
      BY <1>3, <3>1, <3>2
  <2>4. Program(StepsOf(m, shape), 0, 6, {}) /\ Program(StepsOf(m, shape), 0, 7, {"fetch", "verify"})
    BY <2>3, Weaker
  <2> QED
    BY <2>2, <2>4
<1> QED
  BY <1>2, <1>3 DEF Shapes

\* What a run starts: an entry of a job of its matrix.
LEMMA RenderedIs ==
  ASSUME NEW x
  PROVE  x \in Rendered <=>
           \E i \in DOMAIN CiMatrices, event \in Events : \E j \in JobsOf(i) :
             \E e \in j.entries :
               /\ event \in j.events /\ j.id # <<"publish">> /\ j.workflow # "support"
               /\ x = [matrix |-> i, event |-> event, id |-> Append(j.id, e.name), steps |-> j.steps, entry |-> e]
<1>1. ASSUME NEW event, NEW q
      PROVE  q \in Starts(event) <=>
               \E i \in DOMAIN CiMatrices : \E j \in JobsOf(i) : \E e \in j.entries :
                 /\ event \in j.events /\ j.id # <<"publish">> /\ j.workflow # "support"
                 /\ q = <<i, event, j, e>>
  <2>1. \A p : p \in RenderedJobs <=>
          \E i \in DOMAIN CiMatrices : \E j \in JobsOf(i) : p = <<i, j>>
    BY DEF RenderedJobs
  <2>2. q \in Starts(event) <=>
          \E p \in RenderedJobs : \E e \in p[2].entries :
             /\ event \in p[2].events /\ p[2].id # <<"publish">> /\ p[2].workflow # "support"
             /\ q = <<p[1], event, p[2], e>>
    BY DEF Starts
  <2>3. ASSUME q \in Starts(event)
        PROVE  \E i \in DOMAIN CiMatrices : \E j \in JobsOf(i) : \E e \in j.entries :
                 /\ event \in j.events /\ j.id # <<"publish">> /\ j.workflow # "support"
                 /\ q = <<i, event, j, e>>
    <3>1. PICK p \in RenderedJobs : \E e \in p[2].entries :
             /\ event \in p[2].events /\ p[2].id # <<"publish">> /\ p[2].workflow # "support"
             /\ q = <<p[1], event, p[2], e>>
      BY <2>2, <2>3
    <3>2. PICK i \in DOMAIN CiMatrices : \E j \in JobsOf(i) : p = <<i, j>>
      BY <2>1
    <3>3. p[1] = i /\ p[2] \in JobsOf(i)
      BY <3>2
    <3> QED
      BY <3>1, <3>3
  <2>4. ASSUME NEW i \in DOMAIN CiMatrices, NEW j \in JobsOf(i), NEW e \in j.entries,
               event \in j.events, j.id # <<"publish">>, j.workflow # "support", q = <<i, event, j, e>>
        PROVE  q \in Starts(event)
    <3>1. <<i, j>> \in RenderedJobs /\ <<i, j>>[1] = i /\ <<i, j>>[2] = j
      BY <2>1
    <3> QED
      BY <2>2, <2>4, <3>1
  <2> QED
    BY <2>3, <2>4
<1>2. x \in Rendered <=>
        \E event \in Events : \E q \in Starts(event) :
          x = [matrix |-> q[1], event |-> q[2], id |-> Append(q[3].id, q[4].name), steps |-> q[3].steps,
               entry |-> q[4]]
  BY DEF Rendered
<1>3. ASSUME x \in Rendered
      PROVE  \E i \in DOMAIN CiMatrices, event \in Events : \E j \in JobsOf(i) :
               \E e \in j.entries :
                 /\ event \in j.events /\ j.id # <<"publish">> /\ j.workflow # "support"
                 /\ x = [matrix |-> i, event |-> event, id |-> Append(j.id, e.name), steps |-> j.steps, entry |-> e]
  <2>0. PICK event \in Events : \E q \in Starts(event) :
          x = [matrix |-> q[1], event |-> q[2], id |-> Append(q[3].id, q[4].name), steps |-> q[3].steps,
               entry |-> q[4]]
    BY <1>2, <1>3
  <2>1. PICK q \in Starts(event) :
          x = [matrix |-> q[1], event |-> q[2], id |-> Append(q[3].id, q[4].name), steps |-> q[3].steps,
               entry |-> q[4]]
    BY <2>0
  <2>2. \E i \in DOMAIN CiMatrices : \E j \in JobsOf(i) : \E e \in j.entries :
          /\ event \in j.events /\ j.id # <<"publish">> /\ j.workflow # "support"
          /\ q = <<i, event, j, e>>
    BY <1>1, <2>1
  <2>3. PICK i \in DOMAIN CiMatrices : \E j \in JobsOf(i) : \E e \in j.entries :
          /\ event \in j.events /\ j.id # <<"publish">> /\ j.workflow # "support"
          /\ q = <<i, event, j, e>>
    BY <2>2
  <2>4. PICK j \in JobsOf(i) : \E e \in j.entries :
          /\ event \in j.events /\ j.id # <<"publish">> /\ j.workflow # "support"
          /\ q = <<i, event, j, e>>
    BY <2>3
  <2>5. PICK e \in j.entries :
          /\ event \in j.events /\ j.id # <<"publish">> /\ j.workflow # "support"
          /\ q = <<i, event, j, e>>
    BY <2>4
  <2>6. x = [matrix |-> i, event |-> event, id |-> Append(j.id, e.name), steps |-> j.steps, entry |-> e]
    BY <2>1, <2>5
  <2> QED
    BY <2>5, <2>6
<1>4. ASSUME NEW i \in DOMAIN CiMatrices, NEW event \in Events,
             NEW j \in JobsOf(i),
             NEW e \in j.entries, event \in j.events, j.id # <<"publish">>, j.workflow # "support",
             x = [matrix |-> i, event |-> event, id |-> Append(j.id, e.name), steps |-> j.steps, entry |-> e]
      PROVE  x \in Rendered
  <2>1. <<i, event, j, e>> \in Starts(event)
    BY <1>1, <1>4
  <2> QED
    BY <1>2, <1>4, <2>1
<1> QED
  BY <1>3, <1>4

\* The job of a lane and a shape of the source workflow.
SourceJob(m, reusable, lane, shape) ==
  Job("source", <<lane, shape>>, SourceEvents(lane, reusable), "",
      Entries(m, ShapedCells(m, lane, shape), shape), StepsOf(m, shape))

LEMMA JobKinds ==
  ASSUME NEW i, NEW j \in JobsOf(i), j.id # <<"publish">>, j.workflow # "support"
  PROVE  LET m == CiMatrices[i] IN
         \/ \E lane, reusable : \E shape \in Shapes : j = SourceJob(m, reusable, lane, shape)
         \/ m.release # NONE /\ j = CandidateJob(m)
<1> DEFINE m == CiMatrices[i]
<1>0. PICK reusable : j \in GenerateGithub(m, reusable)
  BY Zenon DEF JobsOf
<1>1. j \in SupportJobs(m) \/ j \in ReleaseJobs(m) \/ j \in SourceJobs(m, reusable)
  BY <1>0 DEF GenerateGithub
<1>2. j \notin SupportJobs(m)
  <2>1. ASSUME j \in SupportJobs(m) PROVE j.workflow = "support"
    <3>1. PICK id, events, entries, steps : j = Job("support", id, events, "", entries, steps)
      BY <2>1, Zenon DEF SupportJobs
    <3> QED
      BY <3>1 DEF Job
  <2> QED
    BY <2>1
<1>3. CASE j \in SourceJobs(m, reusable)
  <2>1. SourceJobs(m, reusable) =
          {job \in {SourceJob(m, reusable, lane, shape) : lane \in {"pull_request", "main"}, shape \in Shapes} :
             job.entries # {}}
    BY DEF SourceJobs, SourceJob
  <2> HIDE DEF m
  <2>2. \E lane \in {"pull_request", "main"}, shape \in Shapes : j = SourceJob(m, reusable, lane, shape)
    BY <2>1, <1>3
  <2> QED
    BY <2>2, Zenon DEF m
<1>4. CASE j \in ReleaseJobs(m)
  <2>1. m.release # NONE /\ (j = CandidateJob(m) \/ j = PublisherJob(m))
    BY <1>4 DEF ReleaseJobs
  <2>2. PICK entries, steps : PublisherJob(m) = Job("release", <<"publish">>, {"tag"}, "candidates", entries, steps)
    BY Zenon DEF PublisherJob
  <2>3. j # PublisherJob(m)
    BY <2>2 DEF Job
  <2> QED
    BY <2>1, <2>3
<1> QED
  BY <1>1, <1>2, <1>3, <1>4

LEMMA AppendTells ==
  ASSUME NEW a, NEW b, NEW c, Append(<<a>>, b) = Append(<<a>>, c)
  PROVE  b = c
<1>1. <<a>> \in Seq({a, b, c}) /\ b \in {a, b, c} /\ c \in {a, b, c} /\ Len(<<a>>) = 1
  OBVIOUS
<1>2. Append(<<a>>, b)[2] = b /\ Append(<<a>>, c)[2] = c
  BY <1>1
<1> QED
  BY <1>2

LEMMA MatrixOf == \A i \in DOMAIN CiMatrices : CiMatrices[i] \in AllMatrices
  BY DEF AllMatrices

LEMMA RenderedRunsCell ==
  ASSUME NEW x \in Rendered
  PROVE  x.event \in Events /\ \E c : RunsCell(x, c)
<1>a. PICK i \in DOMAIN CiMatrices, event \in Events :
        \E j \in JobsOf(i) : \E e \in j.entries :
          /\ event \in j.events /\ j.id # <<"publish">> /\ j.workflow # "support"
          /\ x = [matrix |-> i, event |-> event, id |-> Append(j.id, e.name), steps |-> j.steps, entry |-> e]
  BY RenderedIs
<1>b. PICK j \in JobsOf(i) : \E e \in j.entries :
        /\ event \in j.events /\ j.id # <<"publish">> /\ j.workflow # "support"
        /\ x = [matrix |-> i, event |-> event, id |-> Append(j.id, e.name), steps |-> j.steps, entry |-> e]
  BY <1>a
<1>1. PICK e \in j.entries :
        /\ event \in j.events /\ j.id # <<"publish">> /\ j.workflow # "support"
        /\ x = [matrix |-> i, event |-> event, id |-> Append(j.id, e.name), steps |-> j.steps, entry |-> e]
  BY <1>b
<1> DEFINE m == CiMatrices[i]
<1>2. m \in AllMatrices
  BY MatrixOf
<1>3. x.matrix = i /\ x.event = event /\ x.id = Append(j.id, e.name) /\ x.steps = j.steps /\ x.entry = e
  BY <1>1
<1>4. ASSUME NEW lane, NEW reusable, NEW shape \in Shapes,
             j = SourceJob(m, reusable, lane, shape)
      PROVE  \E c : RunsCell(x, c)
  <2>1. /\ j.entries = Entries(m, ShapedCells(m, lane, shape), shape) /\ j.steps = StepsOf(m, shape)
        /\ "tag" \notin j.events
    <3>1. j.events \subseteq {LaneEvent(lane), "workflow_dispatch"}
      BY <1>4 DEF SourceEvents, Job, SourceJob
    <3>2. LaneEvent(lane) # "tag"
      BY DEF LaneEvent
    <3>3. j.entries = Entries(m, ShapedCells(m, lane, shape), shape) /\ j.steps = StepsOf(m, shape)
      BY <1>4 DEF Job, SourceJob
    <3> QED
      BY <3>1, <3>2, <3>3
  <2>2. PICK c \in ShapedCells(m, lane, shape) : e = Entry(m, c, shape)
    BY <1>1, <2>1 DEF Entries
  <2>3. event # "tag"
    BY <1>1, <2>1
  <2>4. c \in CellsOf(m.cells)
    BY DEF ShapedCells
  <2>5. "name" \in DOMAIN e /\ e["name"] = c.name
    BY <2>2, EntryName
  <2>6. /\ Program(j.steps, 0, 6, {})
        /\ Bare(j.steps) \/ (KnowsRuntime(e, m, c) /\ Program(j.steps, 0, 7, {"fetch", "verify"}))
    BY <1>2, <2>1, <2>2, SourceEntry
  <2> QED
    BY <1>2, <1>3, <2>3, <2>4, <2>5, <2>6 DEF RunsCell
<1>5. ASSUME m.release # NONE, j = CandidateJob(m)
      PROVE  \E c : RunsCell(x, c)
  <2>1. /\ j.entries = Entries(m, CandidateCells(m), "bundle") /\ j.steps = CandidateSteps(m)
        /\ j.events = {"tag"} /\ j.id = <<"candidates">>
    BY <1>5 DEF CandidateJob, Job
  <2>2. PICK c \in CandidateCells(m) : e = Entry(m, c, "bundle")
    BY <1>1, <2>1 DEF Entries
  <2>3. event = "tag"
    BY <1>1, <2>1
  <2>4. c \in CellsOf(m.cells) /\ c.runtime # NONE
    BY <1>2, CandidateHasRuntime
  <2>5. "name" \in DOMAIN e /\ e["name"] = c.name /\ e.name = c.name
    BY <2>2, EntryName
  <2>6. KnowsRuntime(e, m, c)
    BY <2>2, <2>4, EntryRuntime DEF KnowsRuntime, IsRuntimeFree
  <2>7. Program(j.steps, 0, 7, {"fetch", "verify", "stage"}) /\ Program(j.steps, 0, 7, {"fetch", "verify"})
    <3>1. /\ {"fetch", "verify", "stage"} \subseteq {"fetch", "verify", "build", "stage"}
          /\ {"fetch", "verify"} \subseteq {"fetch", "verify", "build", "stage"}
      OBVIOUS
    <3>2. Program(j.steps, 0, 7, {"fetch", "verify", "build", "stage"})
      BY <2>1, CandidateProgram
    <3> QED
      BY <3>1, <3>2, Weaker
  <2>8. x.id = Append(<<"candidates">>, c.name)
    BY <1>3, <2>1, <2>5
  <2> QED
    BY <1>2, <1>3, <2>3, <2>4, <2>5, <2>6, <2>7, <2>8 DEF RunsCell
<1>6. \E c : RunsCell(x, c)
  <2>1. \/ \E lane, reusable : \E shape \in Shapes :
             j = SourceJob(m, reusable, lane, shape)
        \/ m.release # NONE /\ j = CandidateJob(m)
    BY <1>1, JobKinds
  <2> QED
    BY <2>1, <1>4, <1>5
<1> QED
  BY <1>3, <1>6

\* Every candidate of a release has an entry.
LEMMA CandidateIsRendered ==
  ASSUME NEW i \in DOMAIN CiMatrices, NEW c \in CandidateCells(CiMatrices[i])
  PROVE  \E x \in Rendered : x.matrix = i /\ x.event = "tag" /\ x.id = Append(<<"candidates">>, c.name)
<1> DEFINE m == CiMatrices[i]
           j == CandidateJob(m)
           e == Entry(m, c, "bundle")
           x == [matrix |-> i, event |-> "tag", id |-> Append(j.id, e.name), steps |-> j.steps, entry |-> e]
<1>1. m.release # NONE
  BY MatrixOf, CandidateHasRuntime
<1>2. j \in JobsOf(i)
  <2>1. j \in ReleaseJobs(m)
    BY <1>1 DEF ReleaseJobs
  <2>2. \A reusable : ReleaseJobs(m) \subseteq GenerateGithub(m, reusable)
    BY DEF GenerateGithub
  <2> QED
    BY <2>1, <2>2, Zenon DEF JobsOf
<1>3. /\ e \in j.entries /\ "tag" \in j.events /\ j.id = <<"candidates">> /\ j.workflow # "support"
  BY DEF CandidateJob, Job, Entries
<1>4. "tag" \in Events /\ <<"candidates">> # <<"publish">>
  BY DEF Events
<1>5. e.name = c.name
  BY EntryName
<1>7. x.matrix = i /\ x.event = "tag" /\ x.id = Append(<<"candidates">>, c.name)
  BY <1>3, <1>5
<1>6. x \in Rendered
  <2> HIDE DEF j, e
  <2> QED
    BY <1>2, <1>3, <1>4, RenderedIs
<1> QED
  BY <1>6, <1>7

-----------------------------------------------------------------------------
\* The policy of a matrix, if it has one: its levels of trust are among the five.
PolicyTyped(policy) ==
  policy # NONE =>
    /\ policy.minimum \in TrustLevel
    /\ \E P : policy.publishers \in Seq(P)
    /\ \A i \in DOMAIN policy.publishers : policy.publishers[i].trust \in TrustLevel

LEMMA MatrixPolicy ==
  ASSUME NEW m \in AllMatrices
  PROVE  PolicyTyped(m.trust.policy)
<1>1. SUFFICES ASSUME m.trust.policy # NONE
               PROVE  /\ m.trust.policy.minimum \in TrustLevel
                      /\ \E P : m.trust.policy.publishers \in Seq(P)
                      /\ \A i \in DOMAIN m.trust.policy.publishers :
                           m.trust.policy.publishers[i].trust \in TrustLevel
  BY DEF PolicyTyped
<1> DEFINE publishers == m.trust.policy.publishers
<1>2. /\ m.trust.policy.minimum \in TrustLevel
      /\ publishers \in Seq(CellsOf(publishers))
      /\ \A p \in CellsOf(publishers) : p.trust \in TrustLevel
  BY <1>1, MatrixAssumption
<1>3. \A i \in DOMAIN publishers : publishers[i] \in CellsOf(publishers)
  BY DEF CellsOf
<1> HIDE DEF publishers
<1>4. /\ \E P : publishers \in Seq(P)
      /\ \A i \in DOMAIN publishers : publishers[i].trust \in TrustLevel
  BY <1>2, <1>3
<1> QED
  BY <1>2, <1>4 DEF publishers

\* The publisher a matched builder goes by is one of the policy's.
LEMMA PublisherTrust ==
  ASSUME NEW policy, policy # NONE, PolicyTyped(policy), NEW i \in DOMAIN policy.publishers
  PROVE  PublisherOf(policy, policy.publishers[i].id).trust \in TrustLevel
<1> DEFINE seq == policy.publishers
           hits == {k \in DOMAIN seq : seq[k].id = seq[i].id}
<1>1. hits # {} /\ hits \in SUBSET Nat
  BY DEF PolicyTyped
<1>2. PublisherOf(policy, seq[i].id) = seq[CHOOSE k \in hits : \A j \in hits : k <= j]
  BY <1>1 DEF PublisherOf, FirstWith
<1>3. \E k \in hits : \A j \in hits : k <= j
  <2> HIDE DEF hits
  <2> QED
    BY <1>1, LeastNumber
<1>4. (CHOOSE k \in hits : \A j \in hits : k <= j) \in hits
  <2> HIDE DEF hits
  <2> QED
    BY <1>3
<1> QED
  BY <1>2, <1>4 DEF PolicyTyped

\* What the provenance of an artifact says of its builder, under a policy or none.
LEMMA BuilderTrust ==
  ASSUME NEW provenance, NEW manifest, NEW policy, PolicyTyped(policy)
  PROVE  LET p == VerifyProvenance(provenance, manifest, policy).publisher IN
         p # NONE => policy # NONE /\ PublisherOf(policy, p).trust \in TrustLevel
<1> DEFINE answer == VerifyProvenance(provenance, manifest, policy)
           statement == FirstWith(provenance, LAMBDA s : manifest.digest \in s.subjects)
           found == FirstWith(policy.publishers, LAMBDA q : PublisherMatches(q, statement.identity))
<1>1. \/ answer = Rejected
      \/ policy = NONE /\ answer = Accepted(NONE)
      \/ policy # NONE /\ found # NONE /\ answer = Accepted(found.id)
  BY DEF VerifyProvenance
<1>2. ASSUME policy # NONE, found # NONE
      PROVE  \E i \in DOMAIN policy.publishers : found = policy.publishers[i]
  <2> DEFINE seq == policy.publishers
             hits == {k \in DOMAIN seq : PublisherMatches(seq[k], statement.identity)}
  <2>1. found = IF hits = {} THEN NONE ELSE seq[CHOOSE k \in hits : \A j \in hits : k <= j]
    BY DEF FirstWith
  <2>a. hits # {}
    <3> HIDE DEF hits, found
    <3> QED
      BY <2>1, <1>2
  <2>b. DOMAIN seq \subseteq Nat
    BY <1>2 DEF PolicyTyped
  <2>2. hits # {} /\ hits \in SUBSET Nat
    BY <2>a, <2>b
  <2>3. \E k \in hits : \A j \in hits : k <= j
    <3> HIDE DEF hits
    <3> QED
      BY <2>2, LeastNumber
  <2>4. (CHOOSE k \in hits : \A j \in hits : k <= j) \in hits
    <3> HIDE DEF hits
    <3> QED
      BY <2>3
  <2>5. found = seq[CHOOSE k \in hits : \A j \in hits : k <= j]
    BY <2>1, <2>2
  <2>6. (CHOOSE k \in hits : \A j \in hits : k <= j) \in DOMAIN seq
    BY <2>4
  <2> HIDE DEF hits, found
  <2> QED
    BY <2>5, <2>6
<1> HIDE DEF found, answer
<1>3. Rejected.publisher = NONE /\ \A x : Accepted(x).publisher = x
  BY DEF Rejected, Accepted
<1>4. ASSUME answer.publisher # NONE
      PROVE  policy # NONE /\ PublisherOf(policy, answer.publisher).trust \in TrustLevel
  <2>1. policy # NONE /\ found # NONE /\ answer.publisher = found.id
    BY <1>1, <1>3, <1>4
  <2>2. PICK i \in DOMAIN policy.publishers : found = policy.publishers[i]
    BY <1>2, <2>1
  <2> QED
    BY <2>1, <2>2, PublisherTrust
<1> QED
  BY <1>4 DEF answer

\* Two gates that ask the same of the builder judge an artifact alike: it passes
\* the one that asks for no more trust, and whose SBOM flag it meets.
LEMMA SameJudgement ==
  ASSUME NEW a, a.trust \in TrustLevel, NEW g, NEW h, PolicyTyped(g.policy),
         g.minimum \in TrustLevel, h.minimum \in TrustLevel,
         h.policy = g.policy, h.provenance = g.provenance, h.minimum <= g.minimum,
         VerifyStored(a, g).passed, SbomOk(a, h)
  PROVE  VerifyStored(a, h).passed
<1> DEFINE Check(x) == ProvenanceCheck(a, x, IF x.provenance THEN x.policy ELSE NONE)
<1>1. Check(h) = Check(g)
  BY DEF ProvenanceCheck
<1>2. /\ Check(g).ok /\ AtLeast(a.trust, EvidenceTrust(a, g, Check(g))) >= Required(g) /\ SbomOk(a, g)
  BY DEF VerifyStored
<1>3. VerifyStored(a, h).passed =
        (SbomOk(a, h) /\ Check(h).ok /\ AtLeast(a.trust, EvidenceTrust(a, h, Check(h))) >= Required(h))
  BY DEF VerifyStored
<1>4. EvidenceTrust(a, h, Check(h)) = EvidenceTrust(a, g, Check(g))
  <2> DEFINE c == Check(g)
  <2>1. a.sbom # NONE => (SbomOk(a, h) <=> SbomOk(a, g))
    BY DEF SbomOk
  <2>2. EvidenceTrust(a, h, c) = EvidenceTrust(a, g, c)
    <3> HIDE DEF c
    <3>1. CASE a.sbom = NONE
      BY <3>1 DEF EvidenceTrust
    <3>2. CASE a.sbom # NONE
      BY <3>2, <2>1, <1>2 DEF EvidenceTrust
    <3> QED
      BY <3>1, <3>2
  <2> QED
    BY <2>2, <1>1
<1>5. EvidenceTrust(a, g, Check(g)) \in TrustLevel
  <2> DEFINE c == Check(g)
             policy == IF g.provenance THEN g.policy ELSE NONE
  <2>1. PolicyTyped(policy)
    BY DEF PolicyTyped
  <2>2. a.provenance # NONE /\ c.publisher # NONE =>
          policy # NONE /\ PublisherOf(policy, c.publisher).trust \in TrustLevel
    <3>1. a.provenance # NONE => c = VerifyProvenance(a.provenance, a.manifest, policy)
      BY DEF ProvenanceCheck
    <3> HIDE DEF policy, c
    <3> QED
      BY <2>1, <3>1, BuilderTrust
  <2>3. policy # NONE => policy = g.policy
    OBVIOUS
  <2>5. a.provenance # NONE /\ c.publisher # NONE => PublisherOf(g.policy, c.publisher).trust \in TrustLevel
    <3> HIDE DEF policy, c
    <3> QED
      BY <2>2, <2>3
  <2> HIDE DEF c, policy
  <2>4. EvidenceTrust(a, g, c) \in TrustLevel
    BY <2>5 DEF EvidenceTrust, AtLeast, TrustLevel, Local, Attested, Trusted
  <2> QED
    BY <2>4 DEF c
<1>6. Required(g) \in Int /\ Required(h) \in Int /\ Required(h) <= Required(g)
  BY DEF Required, AtLeast, PolicyMinimum, PolicyTyped, TrustLevel, Local, Trusted
<1>7. AtLeast(a.trust, EvidenceTrust(a, g, Check(g))) \in Int
  <2> HIDE DEF Check
  <2> QED
    BY <1>5 DEF AtLeast, TrustLevel, Local, Trusted
<1>8. AtLeast(a.trust, EvidenceTrust(a, h, Check(h))) >= Required(h)
  <2> HIDE DEF Check
  <2> QED
    BY <1>2, <1>4, <1>6, <1>7
<1>9. Check(h).ok
  BY <1>1, <1>2
<1> QED
  BY <1>3, <1>8, <1>9

-----------------------------------------------------------------------------
\* The steps that a place in a job has behind it.
Behind(s, n, do) == \E i \in DOMAIN s : i < n /\ s[i].do = do

LEMMA BehindFirst ==
  ASSUME NEW s, NEW a, NEW b, NEW D, Program(s, a, b, D), NEW do \in Effective
  PROVE  ~Behind(s, After(s, 0), do)
<1>1. PICK S : s \in Seq(S)
  BY DEF Program, IsSequence
<1>2. \A i \in DOMAIN s : 0 < i /\ i < After(s, 0) => s[i].do \notin Effective
  BY <1>1, AfterIs
<1>3. \A i \in DOMAIN s : 0 < i
  BY <1>1
<1> QED
  BY <1>2, <1>3 DEF Behind

LEMMA BehindNext ==
  ASSUME NEW s, NEW a, NEW b, NEW D, Program(s, a, b, D), NEW n \in DOMAIN s, NEW do \in Effective
  PROVE  /\ Behind(s, After(s, n), do) <=> Behind(s, n, do) \/ s[n].do = do
         /\ After(s, n) \in 0..Len(s) + 1 /\ After(s, n) # 0
<1>1. PICK S : s \in Seq(S)
  BY DEF Program, IsSequence
<1>2. n \in 0..Len(s) /\ DOMAIN s \subseteq Nat
  BY <1>1
<1>3. /\ After(s, n) \in 0..Len(s) + 1 /\ n < After(s, n)
      /\ \A i \in DOMAIN s : n < i /\ i < After(s, n) => s[i].do \notin Effective
  BY <1>1, <1>2, AfterIs
<1>4. \A i \in DOMAIN s : i < After(s, n) <=> (i < n \/ i = n \/ (n < i /\ i < After(s, n)))
  BY <1>1, <1>2, <1>3
<1>5. ASSUME Behind(s, After(s, n), do) PROVE Behind(s, n, do) \/ s[n].do = do
  <2>1. PICK i \in DOMAIN s : i < After(s, n) /\ s[i].do = do
    BY <1>5 DEF Behind
  <2>2. i < n \/ i = n
    BY <2>1, <1>3, <1>4
  <2> QED
    BY <2>1, <2>2 DEF Behind
<1>6. ASSUME Behind(s, n, do) \/ s[n].do = do PROVE Behind(s, After(s, n), do)
  BY <1>6, <1>3, <1>4 DEF Behind
<1>7. After(s, n) # 0
  BY <1>1, <1>2, <1>3
<1> QED
  BY <1>3, <1>5, <1>6, <1>7

LEMMA BehindRank ==
  ASSUME NEW s, NEW a, NEW b, NEW D, Program(s, a, b, D), NEW n \in DOMAIN s, s[n].do \in Effective,
         NEW do \in Effective
  PROVE  /\ Behind(s, n, do) => Rank(do) < Rank(s[n].do)
         /\ do \in D /\ Rank(do) < Rank(s[n].do) => Behind(s, n, do)
<1>1. DOMAIN s \subseteq Int
  BY DEF Program, IsSequence
<1>2. ASSUME Behind(s, n, do) PROVE Rank(do) < Rank(s[n].do)
  BY <1>2 DEF Behind, Program
<1>3. ASSUME do \in D, Rank(do) < Rank(s[n].do) PROVE Behind(s, n, do)
  <2>1. PICK i \in DOMAIN s : s[i].do = do
    BY <1>3 DEF Program
  <2>2. i # n
    BY <2>1, <1>3, RankIsNat
  <2>3. ~(n < i)
    <3>1. SUFFICES ASSUME n < i PROVE FALSE
      OBVIOUS
    <3>2. Rank(s[n].do) < Rank(s[i].do)
      BY <2>1, <3>1 DEF Program
    <3> QED
      BY <2>1, <3>2, <1>3, RankIsNat
  <2>4. i < n
    BY <1>1, <2>2, <2>3
  <2> QED
    BY <2>1, <2>4 DEF Behind
<1> QED
  BY <1>2, <1>3

LEMMA BehindEnd ==
  ASSUME NEW s, NEW a, NEW b, NEW D, Program(s, a, b, D), NEW do \in D
  PROVE  Behind(s, Len(s) + 1, do)
<1>1. PICK i \in DOMAIN s : s[i].do = do
  BY DEF Program
<1>2. i < Len(s) + 1
  BY DEF Program, IsSequence
<1> QED
  BY <1>1, <1>2 DEF Behind

LEMMA Ranks ==
  /\ Rank("validate") = 0 /\ Rank("restore") = 1 /\ Rank("fetch") = 2 /\ Rank("verify") = 3
  /\ Rank("save") = 4 /\ Rank("build") = 5 /\ Rank("stage") = 6
  BY DEF Rank

-----------------------------------------------------------------------------
(* The inductive invariant.                                                *)

Passed(r, e, do) == Behind(JobSteps(r, e), jobs[r][e].pc, do)
Verifies(r, e) == \E i \in DOMAIN JobSteps(r, e) : JobSteps(r, e)[i].do = "verify"
Digest(r, e) == Get(r, e, "runtime_artifact")
RemoteOf(r, e) == Get(r, e, "runtime_remote")

\* A job of the runtime's key verified the registry S.
Origin(k, S) ==
  \E q \in DOMAIN runs : \E f \in DOMAIN jobs[q] :
    KeyOf(q, f) = k /\ jobs[q][f].used # NONE /\ jobs[q][f].used \in S

\* A runner's registry, or the cache's: the one runtime of its digest, if any.
Single(S, digest) ==
  /\ S \in SUBSET Triples
  /\ \A n, m \in S : n = m
  /\ \A n \in S : DigestOf(n) = digest

RunsOK ==
  /\ runs \in Seq([event : Events, rendered : DOMAIN CiMatrices, checkout : DOMAIN CiMatrices])
  /\ IsSequence(jobs) /\ Len(jobs) = Len(runs)
  /\ IsSequence(publisher) /\ Len(publisher) = Len(runs) /\ Len(runs) <= MaxRuns
  /\ \A r \in DOMAIN runs :
       DOMAIN jobs[r] = {x.id : x \in {x \in Rendered : x.matrix = runs[r].rendered /\ x.event = runs[r].event}}

JobTyped(r, e) ==
  /\ jobs[r][e] = [pc |-> jobs[r][e].pc, store |-> jobs[r][e].store, hit |-> jobs[r][e].hit, used |-> jobs[r][e].used]
  /\ jobs[r][e].pc \in 0..Finished(r, e)

\* A hosted runner's registry is empty, just pulled, or restored from what an
\* earlier job of the same key verified.
StoreOK(r, e) ==
  Hosted(r, e) =>
    /\ Single(jobs[r][e].store, Digest(r, e))
    /\ jobs[r][e].hit => jobs[r][e].pc = Failed \/ Passed(r, e, "restore")
    /\ \/ jobs[r][e].store \in {{}, {Pushed(RemoteOf(r, e))}}
       \/ jobs[r][e].hit /\ runs[r].event # "tag" /\ Origin(KeyOf(r, e), jobs[r][e].store)
    /\ Passed(r, e, "fetch") =>
         \/ RemoteOf(r, e) = NONE
         \/ jobs[r][e].store = {Pushed(RemoteOf(r, e))}
         \/ Present(r, e, CachedGates(r, e))

\* What a job uses it verified, for as long as it runs.
UsedOK(r, e) ==
  /\ jobs[r][e].used # NONE =>
       /\ jobs[r][e].used \in Triples
       /\ Verifies(r, e)
       /\ DigestOf(jobs[r][e].used) = Digest(r, e)
       /\ VerifyStored(Artifact(jobs[r][e].used), EntryGates(r, e)).passed
       /\ Hosted(r, e) => jobs[r][e].used \in jobs[r][e].store
       /\ jobs[r][e].pc = Failed \/ Passed(r, e, "verify")
  /\ Passed(r, e, "verify") => jobs[r][e].used # NONE
  /\ Passed(r, e, "stage") => <<r, Cell(r, e)>> \in staged

JobOK(r, e) == JobTyped(r, e) /\ StoreOK(r, e) /\ UsedOK(r, e)
JobsOK == \A r \in DOMAIN runs : \A e \in DOMAIN jobs[r] : JobOK(r, e)

CacheOK ==
  /\ DOMAIN cache = Keys
  /\ \A k \in Keys : cache[k] # NONE => Single(cache[k], k[2]) /\ Origin(k, cache[k])

RegistryOK ==
  /\ registry \in SUBSET Triples
  /\ \A n, m \in registry : DigestOf(n) = DigestOf(m) => n = m

StagedOK ==
  \A s \in staged : \E r \in DOMAIN runs : \E e \in DOMAIN jobs[r] :
    s = <<r, Cell(r, e)>> /\ runs[r].event = "tag" /\ jobs[r][e].used # NONE

ReleaseIn(t) == \E r \in DOMAIN runs :
  /\ destination[t] = r /\ runs[r].event = "tag" /\ Succeeded(r)
  /\ VerifyStored(Built[t[2]], ReleaseGates(RenderedBy(r))).passed
PublisherOK ==
  /\ \A r \in DOMAIN runs :
       /\ publisher[r] \in {"waiting", "publishing", "published"} => runs[r].event = "tag"
       /\ publisher[r] \in {"publishing", "published"} => Succeeded(r)
       /\ publisher[r] = "published" => \A c \in CandidateCells(RenderedBy(r)) :
            destination[<<RenderedBy(r).release.version, c.name>>] # NONE
  /\ DOMAIN destination = Tags
  /\ \A t \in Tags : destination[t] # NONE => ReleaseIn(t)

\* Until it is done, a generate has written or will write every file of its
\* matrix; one that is gone was removed under a later matrix.
Wrote(p) == files[p] = rendering \/ (files[p] = NONE /\ rendering < ciFile)
WillWrite(p) == \E i \in DOMAIN pending : pending[i] = p
FilesOK ==
  /\ ciFile \in DOMAIN CiMatrices
  /\ files \in [Paths -> DOMAIN CiMatrices \cup {NONE, Torn}]
  /\ pending \in Seq(Paths)
  /\ rendering \in DOMAIN CiMatrices \cup {0} /\ rendering <= ciFile
  /\ rendering = 0 => pending = <<>>
  /\ rendering # 0 => \A p \in RenderedPaths(rendering) : Wrote(p) \/ WillWrite(p)

CiInv == FilesOK /\ RunsOK /\ JobsOK /\ CacheOK /\ RegistryOK /\ StagedOK /\ PublisherOK

-----------------------------------------------------------------------------
\* The job e of the run r is for the cell c, and knows its runtime if it uses one.
Knows(r, e, c) ==
  /\ c.runtime # NONE
  /\ Digest(r, e) = c.runtime /\ KeyOf(r, e) = <<c.name, c.runtime>>
  /\ EntryGates(r, e) = GatesOf(RenderedBy(r), c)
JobFor(r, e, c) ==
  /\ RenderedBy(r) \in AllMatrices /\ c \in CellsOf(RenderedBy(r).cells) /\ Cell(r, e) = c.name
  /\ Bare(JobSteps(r, e)) \/ (Knows(r, e, c) /\ Program(JobSteps(r, e), 0, 7, {"fetch", "verify"}))
  /\ runs[r].event # "tag" => Program(JobSteps(r, e), 0, 6, {})
  /\ runs[r].event = "tag" =>
       /\ c \in CandidateCells(RenderedBy(r)) /\ e = Append(<<"candidates">>, c.name)
       /\ Program(JobSteps(r, e), 0, 7, {"fetch", "verify", "stage"}) /\ Knows(r, e, c)

LEMMA RunFields ==
  ASSUME RunsOK, NEW r \in DOMAIN runs
  PROVE  /\ runs[r].rendered \in DOMAIN CiMatrices /\ runs[r].event \in Events
         /\ RenderedBy(r) = CiMatrices[runs[r].rendered] /\ RenderedBy(r) \in AllMatrices
         /\ r \in DOMAIN jobs /\ r \in DOMAIN publisher /\ r \in Nat
<1> DEFINE R == [event : Events, rendered : DOMAIN CiMatrices, checkout : DOMAIN CiMatrices]
<1>0. runs \in Seq(R)
  BY DEF RunsOK
<1>1. runs[r] \in [event : Events, rendered : DOMAIN CiMatrices, checkout : DOMAIN CiMatrices]
  <2>1. runs[r] \in R
    <3> HIDE DEF R
    <3> QED
      BY <1>0
  <2> QED
    BY <2>1
<1>2. r \in DOMAIN jobs /\ r \in DOMAIN publisher /\ r \in Nat
  BY DEF RunsOK, IsSequence
<1> QED
  BY <1>1, <1>2, MatrixOf DEF RenderedBy

LEMMA EntryIs ==
  ASSUME RunsOK, NEW r \in DOMAIN runs, NEW e \in DOMAIN jobs[r]
  PROVE  /\ EntryOf(r, e) \in Rendered /\ EntryOf(r, e).id = e
         /\ EntryOf(r, e).matrix = runs[r].rendered /\ EntryOf(r, e).event = runs[r].event
<1>1. \E x \in Rendered : x.matrix = runs[r].rendered /\ x.event = runs[r].event /\ x.id = e
  BY DEF RunsOK
<1> QED
  BY <1>1 DEF EntryOf, EntryIn

LEMMA EveryJobFor ==
  ASSUME RunsOK, NEW r \in DOMAIN runs, NEW e \in DOMAIN jobs[r]
  PROVE  \E c : JobFor(r, e, c)
<1> DEFINE x == EntryOf(r, e)
<1>1. /\ x \in Rendered /\ x.id = e
      /\ x.matrix = runs[r].rendered /\ x.event = runs[r].event
  BY EntryIs
<1>2. PICK c : RunsCell(x, c)
  BY <1>1, RenderedRunsCell
<1>3. RenderedBy(r) = CiMatrices[x.matrix]
  BY <1>1 DEF RenderedBy
<1> DEFINE m == RenderedBy(r)
<1>4. /\ m \in AllMatrices /\ c \in CellsOf(m.cells) /\ Cell(r, e) = c.name
  BY <1>2, <1>3 DEF RunsCell, Cell, Get
<1>5. JobSteps(r, e) = x.steps
  BY DEF JobSteps
<1>6. ASSUME KnowsRuntime(x.entry, m, c) PROVE Knows(r, e, c)
  <2>1. \A key \in {"runtime_artifact", "minimum_trust", "evidence_flags"} : Get(r, e, key) = x.entry[key]
    BY <1>6 DEF KnowsRuntime, Get
  <2>2. /\ Get(r, e, "runtime_artifact") = c.runtime /\ Get(r, e, "minimum_trust") = MinimumTrust(m, c)
        /\ Get(r, e, "evidence_flags") = EvidenceFlags(RequireEvidence(m, c)) /\ c.runtime # NONE
    BY <1>6, <2>1 DEF KnowsRuntime
  <2>3. Digest(r, e) = c.runtime /\ KeyOf(r, e) = <<c.name, c.runtime>>
    BY <1>4, <2>2 DEF Digest, KeyOf
  <2>4. EntryGates(r, e) = GatesOf(m, c)
    BY <2>2 DEF EntryGates, JobGates, GatesOf
  <2> QED
    BY <2>2, <2>3, <2>4, Zenon DEF Knows
<1>7. /\ Bare(x.steps) \/ (KnowsRuntime(x.entry, m, c) /\ Program(x.steps, 0, 7, {"fetch", "verify"}))
      /\ x.event # "tag" => Program(x.steps, 0, 6, {})
      /\ x.event = "tag" =>
           /\ c \in CandidateCells(m) /\ x.id = Append(<<"candidates">>, c.name)
           /\ Program(x.steps, 0, 7, {"fetch", "verify", "stage"}) /\ KnowsRuntime(x.entry, m, c)
  BY <1>2, <1>3 DEF RunsCell
<1>8. JobFor(r, e, c)
  <2> HIDE DEF x, m
  <2> QED
    BY <1>1, <1>4, <1>5, <1>6, <1>7 DEF JobFor, m
<1> QED
  BY <1>8

-----------------------------------------------------------------------------
(* What a step leaves as it was.                                           *)

\* What a job is does not change.
LEMMA SameRun ==
  ASSUME NEW r, NEW e, runs'[r] = runs[r]
  PROVE  /\ JobSteps(r, e)' = JobSteps(r, e) /\ Finished(r, e)' = Finished(r, e)
         /\ Hosted(r, e)' = Hosted(r, e) /\ Cell(r, e)' = Cell(r, e) /\ Digest(r, e)' = Digest(r, e)
         /\ RemoteOf(r, e)' = RemoteOf(r, e) /\ KeyOf(r, e)' = KeyOf(r, e)
         /\ RenderedBy(r)' = RenderedBy(r)
         /\ CachedGates(r, e)' = CachedGates(r, e) /\ EntryGates(r, e)' = EntryGates(r, e)
         /\ Verifies(r, e)' <=> Verifies(r, e)
<1>1. EntryOf(r, e)' = EntryOf(r, e)
  BY DEF EntryOf
<1>2. RenderedBy(r)' = RenderedBy(r)
  BY DEF RenderedBy
<1>3. JobSteps(r, e)' = JobSteps(r, e)
  BY <1>1 DEF JobSteps
<1>4. \A key : Get(r, e, key)' = Get(r, e, key)
  BY <1>1 DEF Get
<1>5. /\ Hosted(r, e)' = Hosted(r, e) /\ Cell(r, e)' = Cell(r, e) /\ Digest(r, e)' = Digest(r, e)
      /\ RemoteOf(r, e)' = RemoteOf(r, e)
  BY <1>4 DEF Hosted, Cell, Digest, RemoteOf
<1>6. KeyOf(r, e)' = KeyOf(r, e)
  BY <1>4, <1>5 DEF KeyOf
<1>7. \A a, b : JobGates(r, e, a, b)' = JobGates(r, e, a, b)
  BY <1>4 DEF JobGates
<1>8. CachedGates(r, e)' = CachedGates(r, e) /\ EntryGates(r, e)' = EntryGates(r, e)
  BY <1>2, <1>4, <1>7 DEF CachedGates, EntryGates
<1>9. (Verifies(r, e)' <=> Verifies(r, e)) /\ Finished(r, e)' = Finished(r, e)
  BY <1>3 DEF Verifies, Finished
<1> QED
  BY <1>2, <1>3, <1>5, <1>6, <1>8, <1>9

\* Runs and their jobs stay, and what was used and staged.
Grows ==
  /\ \A r \in DOMAIN runs :
       /\ r \in DOMAIN runs' /\ runs'[r] = runs[r] /\ DOMAIN jobs'[r] = DOMAIN jobs[r]
       /\ \A e \in DOMAIN jobs[r] : jobs[r][e].used # NONE => jobs'[r][e].used = jobs[r][e].used
  /\ staged \subseteq staged'

LEMMA OriginKept ==
  ASSUME Grows, NEW k, NEW S, Origin(k, S)
  PROVE  \E q \in DOMAIN runs' : \E f \in DOMAIN jobs'[q] :
           KeyOf(q, f)' = k /\ jobs'[q][f].used # NONE /\ jobs'[q][f].used \in S
<1>1. PICK q \in DOMAIN runs : \E f \in DOMAIN jobs[q] :
        KeyOf(q, f) = k /\ jobs[q][f].used # NONE /\ jobs[q][f].used \in S
  BY DEF Origin
<1>2. PICK f \in DOMAIN jobs[q] :
        KeyOf(q, f) = k /\ jobs[q][f].used # NONE /\ jobs[q][f].used \in S
  BY <1>1
<1>3. q \in DOMAIN runs' /\ runs'[q] = runs[q] /\ f \in DOMAIN jobs'[q] /\ jobs'[q][f].used = jobs[q][f].used
  BY <1>2 DEF Grows
<1>4. KeyOf(q, f)' = KeyOf(q, f)
  BY <1>3, SameRun
<1> QED
  BY <1>2, <1>3, <1>4

LEMMA JobKept ==
  ASSUME Grows, NEW r \in DOMAIN runs, NEW e \in DOMAIN jobs[r], JobOK(r, e), jobs'[r][e] = jobs[r][e]
  PROVE  JobOK(r, e)'
<1>1. runs'[r] = runs[r] /\ staged \subseteq staged'
  BY DEF Grows
<1>2. /\ JobSteps(r, e)' = JobSteps(r, e) /\ Finished(r, e)' = Finished(r, e)
      /\ Hosted(r, e)' = Hosted(r, e) /\ Cell(r, e)' = Cell(r, e) /\ Digest(r, e)' = Digest(r, e)
      /\ RemoteOf(r, e)' = RemoteOf(r, e) /\ KeyOf(r, e)' = KeyOf(r, e)
      /\ CachedGates(r, e)' = CachedGates(r, e) /\ EntryGates(r, e)' = EntryGates(r, e)
      /\ Verifies(r, e)' <=> Verifies(r, e)
  BY <1>1, SameRun
<1>3. \A do : Passed(r, e, do)' <=> Passed(r, e, do)
  BY <1>2 DEF Passed
<1>4. JobTyped(r, e)'
  BY <1>2 DEF JobOK, JobTyped
<1>5. StoreOK(r, e)'
  <2>1. SUFFICES ASSUME Hosted(r, e) PROVE StoreOK(r, e)'
    BY <1>2 DEF StoreOK
  <2>2. Single(jobs[r][e].store, Digest(r, e))' <=> Single(jobs[r][e].store, Digest(r, e))
    BY <1>2 DEF Single
  <2>3. Origin(KeyOf(r, e), jobs[r][e].store) => Origin(KeyOf(r, e), jobs[r][e].store)'
    <3>1. SUFFICES ASSUME Origin(KeyOf(r, e), jobs[r][e].store)
                   PROVE  Origin(KeyOf(r, e), jobs[r][e].store)'
      OBVIOUS
    <3>2. \E q \in DOMAIN runs' : \E f \in DOMAIN jobs'[q] :
             KeyOf(q, f)' = KeyOf(r, e) /\ jobs'[q][f].used # NONE /\ jobs'[q][f].used \in jobs[r][e].store
      BY <3>1, OriginKept
    <3> QED
      BY <3>2, <1>2 DEF Origin
  <2>4. Present(r, e, CachedGates(r, e))' <=> Present(r, e, CachedGates(r, e))
    BY <2>1, <1>2 DEF Present, StoreOf, Digest
  <2> QED
    BY <1>1, <1>2, <1>3, <2>1, <2>2, <2>3, <2>4 DEF JobOK, StoreOK
<1>6. UsedOK(r, e)'
  BY <1>1, <1>2, <1>3 DEF JobOK, UsedOK
<1> QED
  BY <1>4, <1>5, <1>6 DEF JobOK

-----------------------------------------------------------------------------
(* A step of a job.                                                        *)

LEMMA ProgramOf ==
  ASSUME RunsOK, NEW r \in DOMAIN runs, NEW e \in DOMAIN jobs[r]
  PROVE  Program(JobSteps(r, e), 0, 7, {})
<1>1. PICK c : JobFor(r, e, c)
  BY EveryJobFor
<1>2. {} \subseteq {"fetch", "verify"}
  OBVIOUS
<1>3. CASE Bare(JobSteps(r, e))
  BY <1>3, Weaker DEF Bare
<1>4. CASE Program(JobSteps(r, e), 0, 7, {"fetch", "verify"})
  BY <1>2, <1>4, Weaker
<1> QED
  BY <1>1, <1>3, <1>4 DEF JobFor

\* A job that is at a step has the earlier kinds of steps behind it and no
\* later ones; past its first it knows its runtime.
LEMMA AtFacts ==
  ASSUME RunsOK, NEW r \in DOMAIN runs, NEW e \in DOMAIN jobs[r], NEW do \in Effective, At(r, e, do)
  PROVE  /\ \A d \in Effective : Passed(r, e, d) => Rank(d) < Rank(do)
         /\ jobs[r][e].pc \in DOMAIN JobSteps(r, e) /\ jobs[r][e].pc # Failed
         /\ do # "validate" =>
              /\ KeyOf(r, e) \in Keys /\ KeyOf(r, e)[2] = Digest(r, e)
              /\ \A d \in {"fetch", "verify"} : Rank(d) < Rank(do) => Passed(r, e, d)
         /\ do = "stage" => runs[r].event = "tag"
<1> DEFINE s == JobSteps(r, e)
           n == jobs[r][e].pc
<1>1. n \in DOMAIN s /\ s[n].do = do
  BY DEF At
<1>2. Program(s, 0, 7, {})
  BY ProgramOf
<1>3. \A d \in Effective : Passed(r, e, d) => Rank(d) < Rank(do)
  <2> HIDE DEF s, n
  <2>1. \A d \in Effective : Behind(s, n, d) => Rank(d) < Rank(do)
    BY <1>1, <1>2, BehindRank
  <2> QED
    BY <2>1 DEF s, n, Passed
<1>4. n # Failed
  BY <1>1, <1>2 DEF Program, IsSequence, Failed
<1>5. PICK c : JobFor(r, e, c)
  BY EveryJobFor
<1>6. ASSUME do # "validate"
      PROVE  /\ KeyOf(r, e) \in Keys /\ KeyOf(r, e)[2] = Digest(r, e)
             /\ \A d \in {"fetch", "verify"} : Rank(d) < Rank(do) => Passed(r, e, d)
  <2>1. ~Bare(s)
    <3>1. SUFFICES ASSUME Bare(s) PROVE FALSE
      OBVIOUS
    <3>2. Rank(do) < 1
      BY <1>1, <3>1 DEF Bare, Program
    <3> QED
      BY <3>2, <1>6 DEF Rank, Effective
  <2>2. Knows(r, e, c) /\ Program(s, 0, 7, {"fetch", "verify"})
    BY <1>5, <2>1 DEF JobFor
  <2>3. KeyOf(r, e) = <<c.name, c.runtime>> /\ Digest(r, e) = c.runtime
    BY <2>2 DEF Knows
  <2>4. <<c.name, c.runtime>> \in Keys
    <3>1. RenderedBy(r) \in AllMatrices /\ c \in CellsOf(RenderedBy(r).cells)
      BY <1>5 DEF JobFor
    <3>2. c \in UNION {CellsOf(m.cells) : m \in AllMatrices}
      BY <3>1
    <3> QED
      BY <3>2 DEF Keys
  <2>5. \A d \in {"fetch", "verify"} : Rank(d) < Rank(do) => Passed(r, e, d)
    <3>1. {"fetch", "verify"} \subseteq Effective
      BY DEF Effective
    <3> HIDE DEF s, n
    <3>2. \A d \in {"fetch", "verify"} : Rank(d) < Rank(do) => Behind(s, n, d)
      BY <1>1, <2>2, <3>1, BehindRank
    <3> QED
      BY <3>2 DEF s, n, Passed
  <2> QED
    BY <2>3, <2>4, <2>5
<1>7. ASSUME do = "stage" PROVE runs[r].event = "tag"
  <2>1. SUFFICES ASSUME runs[r].event # "tag" PROVE FALSE
    OBVIOUS
  <2>2. Program(s, 0, 6, {})
    BY <1>5, <2>1 DEF JobFor
  <2>3. Rank(do) < 6
    BY <1>1, <2>2 DEF Program
  <2> QED
    BY <2>3, <1>7, Ranks
<1> QED
  BY <1>1, <1>3, <1>4, <1>6, <1>7

\* A job that moves on has the step behind it as well.
LEMMA PassedNow ==
  ASSUME RunsOK, NEW r \in DOMAIN runs, NEW e \in DOMAIN jobs[r], NEW do \in Effective, At(r, e, do),
         runs'[r] = runs[r], jobs'[r][e].pc = After(JobSteps(r, e), jobs[r][e].pc)
  PROVE  /\ \A d \in Effective : Passed(r, e, d)' <=> (Passed(r, e, d) \/ d = do)
         /\ jobs'[r][e].pc \in 0..Finished(r, e)' /\ jobs'[r][e].pc # Failed
<1> DEFINE s == JobSteps(r, e)
           n == jobs[r][e].pc
<1>1. n \in DOMAIN s /\ s[n].do = do
  BY DEF At
<1>2. Program(s, 0, 7, {})
  BY ProgramOf
<1>3. JobSteps(r, e)' = JobSteps(r, e) /\ Finished(r, e)' = Finished(r, e)
  BY SameRun
<1>4. /\ \A d \in Effective : Behind(s, After(s, n), d) <=> Behind(s, n, d) \/ s[n].do = d
      /\ After(s, n) \in 0..Len(s) + 1 /\ After(s, n) # 0
  <2> HIDE DEF s, n
  <2>1. "fetch" \in Effective
    BY DEF Effective
  <2> QED
    BY <1>1, <1>2, <2>1, BehindNext
<1>5. \A d \in Effective : Passed(r, e, d)' <=> (Passed(r, e, d) \/ d = do)
  BY <1>1, <1>3, <1>4 DEF Passed
<1> QED
  BY <1>3, <1>4, <1>5 DEF Finished, Failed

\* A failed job keeps what it has.
LEMMA FailsOK ==
  ASSUME RunsOK, Grows, NEW r \in DOMAIN runs, NEW e \in DOMAIN jobs[r], JobOK(r, e), jobs'[r][e] = Fail(r, e)
  PROVE  JobOK(r, e)'
<1>1. runs'[r] = runs[r] /\ staged \subseteq staged'
  BY DEF Grows
<1>2. /\ JobSteps(r, e)' = JobSteps(r, e) /\ Finished(r, e)' = Finished(r, e)
      /\ Hosted(r, e)' = Hosted(r, e) /\ Cell(r, e)' = Cell(r, e) /\ Digest(r, e)' = Digest(r, e)
      /\ RemoteOf(r, e)' = RemoteOf(r, e) /\ KeyOf(r, e)' = KeyOf(r, e)
      /\ CachedGates(r, e)' = CachedGates(r, e) /\ EntryGates(r, e)' = EntryGates(r, e)
      /\ Verifies(r, e)' <=> Verifies(r, e)
  BY <1>1, SameRun
<1>3. /\ jobs'[r][e].pc = Failed /\ jobs'[r][e].store = jobs[r][e].store /\ jobs'[r][e].hit = jobs[r][e].hit
      /\ jobs'[r][e].used = jobs[r][e].used
      /\ jobs'[r][e] = [pc |-> jobs'[r][e].pc, store |-> jobs'[r][e].store, hit |-> jobs'[r][e].hit,
                        used |-> jobs'[r][e].used]
  BY DEF JobOK, JobTyped, Fail
<1>4. PICK S : JobSteps(r, e) \in Seq(S)
  BY ProgramOf DEF Program, IsSequence
<1>5. \A do : ~Passed(r, e, do)'
  BY <1>2, <1>3, <1>4 DEF Passed, Behind, Failed
<1>6. JobTyped(r, e)'
  BY <1>2, <1>3, <1>4 DEF JobTyped, Finished, Failed
<1>7. StoreOK(r, e)'
  <2>1. SUFFICES ASSUME Hosted(r, e) PROVE StoreOK(r, e)'
    BY <1>2 DEF StoreOK
  <2>2. Single(jobs[r][e].store, Digest(r, e))' <=> Single(jobs[r][e].store, Digest(r, e))
    BY <1>2, <1>3 DEF Single
  <2>3. Origin(KeyOf(r, e), jobs[r][e].store) => Origin(KeyOf(r, e), jobs[r][e].store)'
    <3>1. SUFFICES ASSUME Origin(KeyOf(r, e), jobs[r][e].store)
                   PROVE  Origin(KeyOf(r, e), jobs[r][e].store)'
      OBVIOUS
    <3>2. \E q \in DOMAIN runs' : \E f \in DOMAIN jobs'[q] :
             KeyOf(q, f)' = KeyOf(r, e) /\ jobs'[q][f].used # NONE /\ jobs'[q][f].used \in jobs[r][e].store
      BY <3>1, OriginKept
    <3> QED
      BY <3>2, <1>2, <1>3 DEF Origin
  <2> QED
    BY <1>1, <1>2, <1>3, <1>5, <2>1, <2>2, <2>3 DEF JobOK, StoreOK
<1>8. UsedOK(r, e)'
  BY <1>1, <1>2, <1>3, <1>5 DEF JobOK, UsedOK
<1> QED
  BY <1>6, <1>7, <1>8 DEF JobOK

\* So does one that moves on from a step that touches neither.
LEMMA AdvancesOK ==
  ASSUME RunsOK, Grows, NEW r \in DOMAIN runs, NEW e \in DOMAIN jobs[r], JobOK(r, e),
         NEW do \in {"validate", "save", "build", "stage"}, At(r, e, do), jobs'[r][e] = Advance(r, e),
         do = "stage" => <<r, Cell(r, e)>> \in staged'
  PROVE  JobOK(r, e)'
<1>1. runs'[r] = runs[r] /\ staged \subseteq staged'
  BY DEF Grows
<1>2. /\ JobSteps(r, e)' = JobSteps(r, e) /\ Finished(r, e)' = Finished(r, e)
      /\ Hosted(r, e)' = Hosted(r, e) /\ Cell(r, e)' = Cell(r, e) /\ Digest(r, e)' = Digest(r, e)
      /\ RemoteOf(r, e)' = RemoteOf(r, e) /\ KeyOf(r, e)' = KeyOf(r, e)
      /\ CachedGates(r, e)' = CachedGates(r, e) /\ EntryGates(r, e)' = EntryGates(r, e)
      /\ Verifies(r, e)' <=> Verifies(r, e)
  BY <1>1, SameRun
<1>3. /\ jobs'[r][e].pc = After(JobSteps(r, e), jobs[r][e].pc)
      /\ jobs'[r][e].store = jobs[r][e].store /\ jobs'[r][e].hit = jobs[r][e].hit
      /\ jobs'[r][e].used = jobs[r][e].used
      /\ jobs'[r][e] = [pc |-> jobs'[r][e].pc, store |-> jobs'[r][e].store, hit |-> jobs'[r][e].hit,
                        used |-> jobs'[r][e].used]
  BY DEF JobOK, JobTyped, Advance
<1>4. {"validate", "save", "build", "stage", "restore", "fetch", "verify"} = Effective
  BY DEF Effective
<1>5. /\ \A d \in Effective : Passed(r, e, d)' <=> (Passed(r, e, d) \/ d = do)
      /\ jobs'[r][e].pc \in 0..Finished(r, e)' /\ jobs'[r][e].pc # Failed
  BY <1>1, <1>3, <1>4, PassedNow
<1>6. /\ Passed(r, e, "restore")' <=> Passed(r, e, "restore")
      /\ Passed(r, e, "fetch")' <=> Passed(r, e, "fetch")
      /\ Passed(r, e, "verify")' <=> Passed(r, e, "verify")
      /\ Passed(r, e, "stage")' => Passed(r, e, "stage") \/ do = "stage"
  BY <1>4, <1>5
<1>a. jobs[r][e].pc # Failed
  BY <1>4, AtFacts
<1>7. JobTyped(r, e)'
  BY <1>2, <1>3, <1>5 DEF JobTyped
<1>8. StoreOK(r, e)'
  <2>1. SUFFICES ASSUME Hosted(r, e) PROVE StoreOK(r, e)'
    BY <1>2 DEF StoreOK
  <2>2. Single(jobs[r][e].store, Digest(r, e))' <=> Single(jobs[r][e].store, Digest(r, e))
    BY <1>2, <1>3 DEF Single
  <2>3. Origin(KeyOf(r, e), jobs[r][e].store) => Origin(KeyOf(r, e), jobs[r][e].store)'
    <3>1. SUFFICES ASSUME Origin(KeyOf(r, e), jobs[r][e].store)
                   PROVE  Origin(KeyOf(r, e), jobs[r][e].store)'
      OBVIOUS
    <3>2. \E q \in DOMAIN runs' : \E f \in DOMAIN jobs'[q] :
             KeyOf(q, f)' = KeyOf(r, e) /\ jobs'[q][f].used # NONE /\ jobs'[q][f].used \in jobs[r][e].store
      BY <3>1, OriginKept
    <3> QED
      BY <3>2, <1>2, <1>3 DEF Origin
  <2>4. Present(r, e, CachedGates(r, e))' <=> Present(r, e, CachedGates(r, e))
    BY <2>1, <1>2, <1>3 DEF Present, StoreOf, Digest
  <2> QED
    BY <1>1, <1>2, <1>3, <1>6, <1>a, <2>1, <2>2, <2>3, <2>4 DEF JobOK, StoreOK
<1>9. UsedOK(r, e)'
  BY <1>1, <1>2, <1>3, <1>6, <1>a DEF JobOK, UsedOK
<1> QED
  BY <1>7, <1>8, <1>9 DEF JobOK

\* What a job has not reached yet.
LEMMA NotYet ==
  ASSUME RunsOK, NEW r \in DOMAIN runs, NEW e \in DOMAIN jobs[r], JobOK(r, e),
         NEW do \in {"restore", "fetch", "verify"}, At(r, e, do)
  PROVE  /\ jobs[r][e].used = NONE /\ ~Passed(r, e, "verify") /\ ~Passed(r, e, "stage")
         /\ do # "verify" => ~Passed(r, e, "fetch")
         /\ do = "restore" => ~Passed(r, e, "restore")
<1>1. {"validate", "save", "build", "stage", "restore", "fetch", "verify"} = Effective
  BY DEF Effective
<1>2. /\ \A d \in Effective : Passed(r, e, d) => Rank(d) < Rank(do)
      /\ jobs[r][e].pc # Failed
  BY <1>1, AtFacts
<1>3. Rank(do) <= 3 /\ (do # "verify" => Rank(do) <= 2) /\ (do = "restore" => Rank(do) = 1)
  BY Ranks
<1>4. ~Passed(r, e, "verify") /\ ~Passed(r, e, "stage")
  BY <1>1, <1>2, <1>3, Ranks
<1>5. do # "verify" => ~Passed(r, e, "fetch")
  BY <1>1, <1>2, <1>3, Ranks
<1>6. do = "restore" => ~Passed(r, e, "restore")
  BY <1>1, <1>2, <1>3, Ranks
<1>7. jobs[r][e].used = NONE
  BY <1>2, <1>4 DEF JobOK, UsedOK
<1> QED
  BY <1>4, <1>5, <1>6, <1>7

\* Restoring: what the cache holds for the key was verified under it.
LEMMA RestoresOK ==
  ASSUME RunsOK, CacheOK, Grows, NEW r \in DOMAIN runs, NEW e \in DOMAIN jobs[r], JobOK(r, e),
         At(r, e, "restore"), NEW hit, NEW store,
         jobs'[r][e] = [pc |-> After(JobSteps(r, e), jobs[r][e].pc), store |-> store, hit |-> hit,
                        used |-> jobs[r][e].used],
         \/ store = jobs[r][e].store
         \/ store = cache[KeyOf(r, e)] /\ store # NONE /\ runs[r].event # "tag" /\ hit
  PROVE  JobOK(r, e)'
<1>1. runs'[r] = runs[r] /\ staged \subseteq staged'
  BY DEF Grows
<1>2. /\ JobSteps(r, e)' = JobSteps(r, e) /\ Finished(r, e)' = Finished(r, e)
      /\ Hosted(r, e)' = Hosted(r, e) /\ Cell(r, e)' = Cell(r, e) /\ Digest(r, e)' = Digest(r, e)
      /\ RemoteOf(r, e)' = RemoteOf(r, e) /\ KeyOf(r, e)' = KeyOf(r, e)
      /\ CachedGates(r, e)' = CachedGates(r, e) /\ EntryGates(r, e)' = EntryGates(r, e)
      /\ Verifies(r, e)' <=> Verifies(r, e)
  BY <1>1, SameRun
<1>4. /\ jobs'[r][e].pc = After(JobSteps(r, e), jobs[r][e].pc)
      /\ jobs'[r][e].store = store /\ jobs'[r][e].hit = hit /\ jobs'[r][e].used = jobs[r][e].used
      /\ jobs'[r][e] = [pc |-> jobs'[r][e].pc, store |-> jobs'[r][e].store, hit |-> jobs'[r][e].hit,
                        used |-> jobs'[r][e].used]
  OBVIOUS
<1>5. {"validate", "save", "build", "stage", "restore", "fetch", "verify"} = Effective
  BY DEF Effective
<1>6. /\ \A d \in Effective : Passed(r, e, d)' <=> (Passed(r, e, d) \/ d = "restore")
      /\ jobs'[r][e].pc \in 0..Finished(r, e)' /\ jobs'[r][e].pc # Failed
  BY <1>1, <1>4, <1>5, PassedNow
<1>7. /\ jobs[r][e].used = NONE /\ ~Passed(r, e, "verify") /\ ~Passed(r, e, "stage") /\ ~Passed(r, e, "fetch")
      /\ ~Passed(r, e, "restore")
  BY NotYet
<1>8. /\ Passed(r, e, "restore")' /\ ~Passed(r, e, "fetch")' /\ ~Passed(r, e, "verify")' /\ ~Passed(r, e, "stage")'
  BY <1>5, <1>6, <1>7
<1>9. JobTyped(r, e)'
  BY <1>4, <1>6 DEF JobTyped
<1>10. UsedOK(r, e)'
  BY <1>4, <1>7, <1>8 DEF UsedOK
<1>11. StoreOK(r, e)'
  <2>1. SUFFICES ASSUME Hosted(r, e) PROVE StoreOK(r, e)'
    BY <1>2 DEF StoreOK
  <2>2. jobs[r][e].pc # Failed /\ KeyOf(r, e) \in Keys /\ KeyOf(r, e)[2] = Digest(r, e)
    BY <1>5, AtFacts
  <2>3. CASE store = cache[KeyOf(r, e)] /\ store # NONE /\ runs[r].event # "tag" /\ hit
    <3>2. Single(store, Digest(r, e)) /\ Origin(KeyOf(r, e), store)
      BY <2>2, <2>3 DEF CacheOK
    <3>3. Single(jobs[r][e].store, Digest(r, e))'
      BY <3>2, <1>2, <1>4 DEF Single
    <3>4. \E q \in DOMAIN runs' : \E f \in DOMAIN jobs'[q] :
             KeyOf(q, f)' = KeyOf(r, e) /\ jobs'[q][f].used # NONE /\ jobs'[q][f].used \in store
      BY <3>2, OriginKept
    <3>5. Origin(KeyOf(r, e), jobs[r][e].store)'
      BY <3>4, <1>2, <1>4 DEF Origin
    <3> QED
      BY <1>1, <1>4, <1>8, <2>3, <3>3, <3>5 DEF StoreOK
  <2>4. CASE store = jobs[r][e].store
    <3>2. ~jobs[r][e].hit
      BY <2>1, <2>2, <1>7 DEF JobOK, StoreOK
    <3>3. Single(store, Digest(r, e)) /\ store \in {{}, {Pushed(RemoteOf(r, e))}}
      BY <2>1, <2>4, <3>2 DEF JobOK, StoreOK
    <3>4. Single(jobs[r][e].store, Digest(r, e))'
      BY <3>3, <1>2, <1>4 DEF Single
    <3>5. jobs'[r][e].store \in {{}, {Pushed(RemoteOf(r, e)')}}
      BY <3>3, <1>2, <1>4
    <3> QED
      BY <1>1, <1>4, <1>8, <3>4, <3>5 DEF StoreOK
  <2> QED
    BY <2>3, <2>4
<1> QED
  BY <1>9, <1>10, <1>11 DEF JobOK

\* Fetching: what is kept passed the flags of the entry, what is pulled is the
\* remote's.
LEMMA FetchesOK ==
  ASSUME RunsOK, Grows, NEW r \in DOMAIN runs, NEW e \in DOMAIN jobs[r], JobOK(r, e),
         At(r, e, "fetch"),
         \/ /\ jobs'[r][e] = Advance(r, e)
            /\ Hosted(r, e) => RemoteOf(r, e) = NONE \/ Present(r, e, CachedGates(r, e))
         \/ /\ jobs'[r][e] = [Advance(r, e) EXCEPT !.store = {Pushed(RemoteOf(r, e))}]
            /\ PullAccepts(r, e)
  PROVE  JobOK(r, e)'
<1>1. runs'[r] = runs[r] /\ staged \subseteq staged'
  BY DEF Grows
<1>2. /\ JobSteps(r, e)' = JobSteps(r, e) /\ Finished(r, e)' = Finished(r, e)
      /\ Hosted(r, e)' = Hosted(r, e) /\ Cell(r, e)' = Cell(r, e) /\ Digest(r, e)' = Digest(r, e)
      /\ RemoteOf(r, e)' = RemoteOf(r, e) /\ KeyOf(r, e)' = KeyOf(r, e)
      /\ CachedGates(r, e)' = CachedGates(r, e) /\ EntryGates(r, e)' = EntryGates(r, e)
      /\ Verifies(r, e)' <=> Verifies(r, e)
  BY <1>1, SameRun
<1> DEFINE pulled == {Pushed(RemoteOf(r, e))}
<1>3. /\ jobs'[r][e].pc = After(JobSteps(r, e), jobs[r][e].pc)
      /\ jobs'[r][e].hit = jobs[r][e].hit /\ jobs'[r][e].used = jobs[r][e].used
      /\ jobs'[r][e] = [pc |-> jobs'[r][e].pc, store |-> jobs'[r][e].store, hit |-> jobs'[r][e].hit,
                        used |-> jobs'[r][e].used]
      /\ \/ /\ jobs'[r][e].store = jobs[r][e].store
            /\ Hosted(r, e) => RemoteOf(r, e) = NONE \/ Present(r, e, CachedGates(r, e))
         \/ jobs'[r][e].store = pulled /\ PullAccepts(r, e)
  <2> HIDE DEF pulled
  <2>1. \/ /\ jobs'[r][e] = Advance(r, e)
           /\ Hosted(r, e) => RemoteOf(r, e) = NONE \/ Present(r, e, CachedGates(r, e))
        \/ /\ jobs'[r][e] = [Advance(r, e) EXCEPT !.store = pulled]
           /\ PullAccepts(r, e)
    BY DEF pulled
  <2> QED
    BY <2>1 DEF JobOK, JobTyped, Advance
<1>4. {"validate", "save", "build", "stage", "restore", "fetch", "verify"} = Effective
  BY DEF Effective
<1>5. /\ \A d \in Effective : Passed(r, e, d)' <=> (Passed(r, e, d) \/ d = "fetch")
      /\ jobs'[r][e].pc \in 0..Finished(r, e)' /\ jobs'[r][e].pc # Failed
  BY <1>1, <1>3, <1>4, PassedNow
<1>6. /\ jobs[r][e].used = NONE /\ ~Passed(r, e, "verify") /\ ~Passed(r, e, "stage")
  BY NotYet
<1>7. /\ Passed(r, e, "restore")' <=> Passed(r, e, "restore")
      /\ ~Passed(r, e, "verify")' /\ ~Passed(r, e, "stage")'
  BY <1>4, <1>5, <1>6
<1>8. JobTyped(r, e)'
  BY <1>3, <1>5 DEF JobTyped
<1>9. UsedOK(r, e)'
  BY <1>3, <1>6, <1>7 DEF UsedOK
<1>10. StoreOK(r, e)'
  <2>1. SUFFICES ASSUME Hosted(r, e) PROVE StoreOK(r, e)'
    BY <1>2 DEF StoreOK
  <2>2. jobs[r][e].pc # Failed
    BY <1>4, AtFacts
  <2>3. jobs'[r][e].hit => Passed(r, e, "restore")'
    BY <2>1, <2>2, <1>3, <1>7 DEF JobOK, StoreOK
  <2>4. CASE /\ jobs'[r][e].store = jobs[r][e].store
             /\ RemoteOf(r, e) = NONE \/ Present(r, e, CachedGates(r, e))
    <3>1. Single(jobs[r][e].store, Digest(r, e))' <=> Single(jobs[r][e].store, Digest(r, e))
      BY <1>2, <2>4 DEF Single
    <3>2. Origin(KeyOf(r, e), jobs[r][e].store) => Origin(KeyOf(r, e), jobs[r][e].store)'
      <4>1. SUFFICES ASSUME Origin(KeyOf(r, e), jobs[r][e].store)
                     PROVE  Origin(KeyOf(r, e), jobs[r][e].store)'
        OBVIOUS
      <4>2. \E q \in DOMAIN runs' : \E f \in DOMAIN jobs'[q] :
               KeyOf(q, f)' = KeyOf(r, e) /\ jobs'[q][f].used # NONE /\ jobs'[q][f].used \in jobs[r][e].store
        BY <4>1, OriginKept
      <4> QED
        BY <4>2, <1>2, <2>4 DEF Origin
    <3>3. Present(r, e, CachedGates(r, e))' <=> Present(r, e, CachedGates(r, e))
      BY <2>1, <2>4, <1>2 DEF Present, StoreOf, Digest
    <3> QED
      BY <1>1, <1>2, <1>3, <2>1, <2>3, <2>4, <3>1, <3>2, <3>3 DEF JobOK, StoreOK
  <2>5. CASE jobs'[r][e].store = pulled /\ PullAccepts(r, e)
    <3> DEFINE o == RemoteOf(r, e)
    <3>1. o \in Names /\ Contents[o].manifest.digest = Digest(r, e)
      BY <2>5 DEF PullAccepts, RemoteOf, Digest
    <3>2. Pushed(o) \in Triples /\ DigestOf(Pushed(o)) = Digest(r, e)
      <4> HIDE DEF o
      <4> QED
        BY <3>1 DEF Pushed, Triples, DigestOf
    <3>3. Single(jobs[r][e].store, Digest(r, e))'
      BY <1>2, <2>5, <3>2 DEF Single
    <3> HIDE DEF pulled
    <3>4. jobs'[r][e].store = {Pushed(RemoteOf(r, e)')}
      BY <1>2, <2>5 DEF pulled
    <3> QED
      BY <2>3, <3>3, <3>4 DEF StoreOK
  <2> QED
    BY <1>3, <2>1, <2>4, <2>5
<1> QED
  BY <1>8, <1>9, <1>10 DEF JobOK

\* A registry keeps one artifact of a digest.
LEMMA ImportKeeps ==
  ASSUME RegistryOK, NEW n \in Triples
  PROVE  /\ Import(registry, n) \in SUBSET Triples
         /\ \A a, b \in Import(registry, n) : DigestOf(a) = DigestOf(b) => a = b
<1> DEFINE New(b) ==
      IF DigestOf(b) # DigestOf(n) THEN b
      ELSE <<IF b[3] = NONE /\ n[3] # NONE THEN n[1] ELSE b[1],
             IF b[2] = NONE THEN n[2] ELSE b[2], IF b[3] = NONE THEN n[3] ELSE b[3]>>
<1>1. CASE StoredAs(registry, DigestOf(n)) = {}
  <2>1. Import(registry, n) = registry \cup {n}
    BY <1>1 DEF Import
  <2>2. \A b \in registry : DigestOf(b) # DigestOf(n)
    BY <1>1 DEF StoredAs
  <2> QED
    BY <2>1, <2>2 DEF RegistryOK
<1>2. CASE StoredAs(registry, DigestOf(n)) # {}
  <2>1. Import(registry, n) = {New(b) : b \in registry}
    BY <1>2 DEF Import
  <2>2. ASSUME NEW b \in registry PROVE New(b) \in Triples /\ DigestOf(New(b)) = DigestOf(b)
    <3>1. b \in Triples
      BY DEF RegistryOK
    <3>2. CASE DigestOf(b) # DigestOf(n)
      BY <3>1, <3>2
    <3>3. CASE DigestOf(b) = DigestOf(n)
      <4> DEFINE x == IF b[3] = NONE /\ n[3] # NONE THEN n[1] ELSE b[1]
                 y == IF b[2] = NONE THEN n[2] ELSE b[2]
                 z == IF b[3] = NONE THEN n[3] ELSE b[3]
      <4>1. x \in {n[1], b[1]} /\ y \in {n[2], b[2]} /\ z \in {n[3], b[3]}
        OBVIOUS
      <4>2. New(b) = <<x, y, z>>
        BY <3>3
      <4> HIDE DEF x, y, z, New
      <4> QED
        BY <3>1, <3>3, <4>1, <4>2 DEF Triples, DigestOf
    <3> QED
      BY <3>2, <3>3
  <2> HIDE DEF New
  <2>3. \A a \in Import(registry, n) : \E b \in registry : a = New(b)
    BY <2>1
  <2>4. ASSUME NEW a \in Import(registry, n), NEW b \in Import(registry, n), DigestOf(a) = DigestOf(b)
        PROVE  a = b
    <3>1. PICK x \in registry : a = New(x)
      BY <2>3
    <3>2. PICK y \in registry : b = New(y)
      BY <2>3
    <3>3. x = y
      BY <2>2, <2>4, <3>1, <3>2 DEF RegistryOK
    <3> QED
      BY <3>1, <3>2, <3>3
  <2> QED
    BY <2>2, <2>3, <2>4
<1> QED
  BY <1>1, <1>2

\* Verifying: the runtime of the digest is the one that passed.
LEMMA VerifiesOK ==
  ASSUME RunsOK, RegistryOK, Grows, NEW r \in DOMAIN runs, NEW e \in DOMAIN jobs[r], JobOK(r, e),
         At(r, e, "verify"), Present(r, e, EntryGates(r, e)),
         NEW n, n = CHOOSE x \in StoredAs(StoreOf(r, e), Get(r, e, "runtime_artifact")) : TRUE,
         jobs'[r][e] = [Advance(r, e) EXCEPT !.used = n]
  PROVE  JobOK(r, e)' /\ n # NONE
<1>1. runs'[r] = runs[r] /\ staged \subseteq staged'
  BY DEF Grows
<1>2. /\ JobSteps(r, e)' = JobSteps(r, e) /\ Finished(r, e)' = Finished(r, e)
      /\ Hosted(r, e)' = Hosted(r, e) /\ Cell(r, e)' = Cell(r, e) /\ Digest(r, e)' = Digest(r, e)
      /\ RemoteOf(r, e)' = RemoteOf(r, e) /\ KeyOf(r, e)' = KeyOf(r, e)
      /\ CachedGates(r, e)' = CachedGates(r, e) /\ EntryGates(r, e)' = EntryGates(r, e)
      /\ Verifies(r, e)' <=> Verifies(r, e)
  BY <1>1, SameRun
<1>3. /\ jobs'[r][e].pc = After(JobSteps(r, e), jobs[r][e].pc)
      /\ jobs'[r][e].store = jobs[r][e].store /\ jobs'[r][e].hit = jobs[r][e].hit
      /\ jobs'[r][e].used = n
      /\ jobs'[r][e] = [pc |-> jobs'[r][e].pc, store |-> jobs'[r][e].store, hit |-> jobs'[r][e].hit,
                        used |-> jobs'[r][e].used]
  BY DEF JobOK, JobTyped, Advance
<1>4. {"validate", "save", "build", "stage", "restore", "fetch", "verify"} = Effective
  BY DEF Effective
<1>5. /\ \A d \in Effective : Passed(r, e, d)' <=> (Passed(r, e, d) \/ d = "verify")
      /\ jobs'[r][e].pc \in 0..Finished(r, e)' /\ jobs'[r][e].pc # Failed
  BY <1>1, <1>3, <1>4, PassedNow
<1>6. ~Passed(r, e, "stage") /\ jobs[r][e].pc # Failed
  BY <1>4, NotYet, AtFacts
<1>7. /\ Passed(r, e, "restore")' <=> Passed(r, e, "restore")
      /\ Passed(r, e, "fetch")' <=> Passed(r, e, "fetch")
      /\ Passed(r, e, "verify")' /\ ~Passed(r, e, "stage")'
  BY <1>4, <1>5, <1>6
<1>8. /\ n \in StoreOf(r, e) /\ n \in Triples /\ DigestOf(n) = Digest(r, e)
      /\ VerifyStored(Artifact(n), EntryGates(r, e)).passed
  <2> DEFINE S == StoredAs(StoreOf(r, e), Digest(r, e))
  <2>1. PICK x \in S : VerifyStored(Artifact(x), EntryGates(r, e)).passed
    BY DEF Present, Digest
  <2>2. n \in S
    <3>1. n = CHOOSE y \in S : TRUE
      BY DEF Digest
    <3> HIDE DEF S
    <3> QED
      BY <2>1, <3>1
  <2>3. /\ x \in StoreOf(r, e) /\ DigestOf(x) = Digest(r, e)
        /\ n \in StoreOf(r, e) /\ DigestOf(n) = Digest(r, e)
    BY <2>1, <2>2 DEF StoredAs
  <2>4. n = x /\ n \in Triples
    <3>1. CASE Hosted(r, e)
      BY <2>3, <3>1 DEF StoreOf, JobOK, StoreOK, Single
    <3>2. CASE ~Hosted(r, e)
      BY <2>3, <3>2 DEF StoreOf, RegistryOK
    <3> QED
      BY <3>1, <3>2
  <2> QED
    BY <2>1, <2>3, <2>4
<1>9. n # NONE
  BY <1>8, CiAssumption
<1>10. JobTyped(r, e)'
  BY <1>3, <1>5 DEF JobTyped
<1>11. StoreOK(r, e)'
  <2>1. SUFFICES ASSUME Hosted(r, e) PROVE StoreOK(r, e)'
    BY <1>2 DEF StoreOK
  <2>2. Single(jobs[r][e].store, Digest(r, e))' <=> Single(jobs[r][e].store, Digest(r, e))
    BY <1>2, <1>3 DEF Single
  <2>3. Origin(KeyOf(r, e), jobs[r][e].store) => Origin(KeyOf(r, e), jobs[r][e].store)'
    <3>1. SUFFICES ASSUME Origin(KeyOf(r, e), jobs[r][e].store)
                   PROVE  Origin(KeyOf(r, e), jobs[r][e].store)'
      OBVIOUS
    <3>2. \E q \in DOMAIN runs' : \E f \in DOMAIN jobs'[q] :
             KeyOf(q, f)' = KeyOf(r, e) /\ jobs'[q][f].used # NONE /\ jobs'[q][f].used \in jobs[r][e].store
      BY <3>1, OriginKept
    <3> QED
      BY <3>2, <1>2, <1>3 DEF Origin
  <2>4. Present(r, e, CachedGates(r, e))' <=> Present(r, e, CachedGates(r, e))
    BY <2>1, <1>2, <1>3 DEF Present, StoreOf, Digest
  <2> QED
    BY <1>1, <1>2, <1>3, <1>6, <1>7, <2>1, <2>2, <2>3, <2>4 DEF JobOK, StoreOK
<1>12. UsedOK(r, e)'
  <2>1. Verifies(r, e)
    BY DEF At, Verifies
  <2>2. Hosted(r, e) => n \in jobs[r][e].store
    BY <1>8 DEF StoreOf
  <2> QED
    BY <1>2, <1>3, <1>7, <1>8, <1>9, <2>1, <2>2 DEF UsedOK
<1> QED
  BY <1>9, <1>10, <1>11, <1>12 DEF JobOK

-----------------------------------------------------------------------------
(* What one job's step leaves of the others.                               *)

LEMMA Updated ==
  ASSUME NEW S, NEW s \in Seq(S), NEW i \in DOMAIN s, NEW v \in S
  PROVE  [s EXCEPT ![i] = v] \in Seq(S) /\ Len([s EXCEPT ![i] = v]) = Len(s)
<1> DEFINE t == [s EXCEPT ![i] = v]
<1>1. DOMAIN t = 1..Len(s) /\ Len(s) \in Nat /\ \A k \in 1..Len(s) : t[k] \in S
  OBVIOUS
<1>2. t = [k \in 1..Len(s) |-> t[k]]
  OBVIOUS
<1> HIDE DEF t
<1>3. t \in Seq(S) /\ Len(t) = Len(s)
  BY <1>1, <1>2
<1> QED
  BY <1>3 DEF t

LEMMA JobsMove ==
  ASSUME RunsOK, NEW r \in DOMAIN runs, NEW e \in DOMAIN jobs[r], NEW J, SetJob(r, e, J)
  PROVE  /\ IsSequence(jobs') /\ Len(jobs') = Len(jobs) /\ jobs'[r][e] = J
         /\ \A q \in DOMAIN runs :
              /\ DOMAIN jobs'[q] = DOMAIN jobs[q]
              /\ \A f \in DOMAIN jobs[q] : q # r \/ f # e => jobs'[q][f] = jobs[q][f]
<1>1. PICK S : jobs \in Seq(S)
  BY DEF RunsOK, IsSequence
<1>2. DOMAIN runs = DOMAIN jobs
  BY <1>1 DEF RunsOK
<1> DEFINE new == [jobs[r] EXCEPT ![e] = J]
<1>3. jobs' = [jobs EXCEPT ![r] = new]
  BY DEF SetJob
<1>4. /\ DOMAIN new = DOMAIN jobs[r] /\ new[e] = J /\ \A f \in DOMAIN jobs[r] : f # e => new[f] = jobs[r][f]
  OBVIOUS
<1> HIDE DEF new
<1>5. jobs \in Seq(S \cup {new})
  BY <1>1
<1>6. jobs' \in Seq(S \cup {new}) /\ Len(jobs') = Len(jobs)
  BY <1>2, <1>3, <1>5, Updated
<1>7. jobs'[r] = new /\ \A q \in DOMAIN runs : q # r => jobs'[q] = jobs[q]
  BY <1>2, <1>3
<1> QED
  BY <1>4, <1>6, <1>7 DEF IsSequence

LEMMA StepGrows ==
  ASSUME RunsOK, NEW r \in DOMAIN runs, NEW e \in DOMAIN jobs[r], NEW J, SetJob(r, e, J), runs' = runs,
         staged \subseteq staged', jobs[r][e].used = NONE \/ J.used = jobs[r][e].used
  PROVE  Grows
<1>1. /\ jobs'[r][e] = J
      /\ \A q \in DOMAIN runs :
           /\ DOMAIN jobs'[q] = DOMAIN jobs[q]
           /\ \A f \in DOMAIN jobs[q] : q # r \/ f # e => jobs'[q][f] = jobs[q][f]
  BY JobsMove
<1> QED
  BY <1>1 DEF Grows

\* What a step of a job must show for itself: its new job, and what it adds to
\* the cache, the registry and the handoffs.
LEMMA StepKeeps ==
  ASSUME CiInv, NEW r \in DOMAIN runs, NEW e \in DOMAIN jobs[r], NEW J, SetJob(r, e, J), Grows,
         UNCHANGED <<ciFile, files, rendering, pending, runs, destination, publisher>>,
         jobs[r][e].pc \in DOMAIN JobSteps(r, e), JobOK(r, e)',
         cache' = cache \/ CacheOK', registry' = registry \/ RegistryOK', staged' = staged \/ StagedOK'
  PROVE  CiInv'
<1>1. /\ IsSequence(jobs') /\ Len(jobs') = Len(jobs) /\ jobs'[r][e] = J
      /\ \A q \in DOMAIN runs :
           /\ DOMAIN jobs'[q] = DOMAIN jobs[q]
           /\ \A f \in DOMAIN jobs[q] : q # r \/ f # e => jobs'[q][f] = jobs[q][f]
  BY JobsMove DEF CiInv
<1>2. FilesOK'
  BY DEF CiInv, FilesOK, Wrote, WillWrite
<1>3. RunsOK'
  BY <1>1 DEF CiInv, RunsOK
<1>4. JobsOK'
  <2>1. SUFFICES ASSUME NEW q \in DOMAIN runs, NEW f \in DOMAIN jobs[q] PROVE JobOK(q, f)'
    BY <1>1 DEF JobsOK
  <2>2. CASE q = r /\ f = e
    BY <2>2
  <2>3. CASE q # r \/ f # e
    BY <2>3, <1>1, JobKept DEF CiInv, JobsOK
  <2> QED
    BY <2>2, <2>3
<1>5. CacheOK'
  <2>1. SUFFICES ASSUME cache' = cache PROVE CacheOK'
    OBVIOUS
  <2>2. DOMAIN cache' = Keys
    BY <2>1 DEF CiInv, CacheOK
  <2>3. ASSUME NEW k \in Keys, cache[k] # NONE PROVE (Single(cache[k], k[2]) /\ Origin(k, cache[k]))'
    <3>1. Single(cache[k], k[2]) /\ Origin(k, cache[k])
      BY <2>3 DEF CiInv, CacheOK
    <3>2. \E q \in DOMAIN runs' : \E f \in DOMAIN jobs'[q] :
             KeyOf(q, f)' = k /\ jobs'[q][f].used # NONE /\ jobs'[q][f].used \in cache[k]
      BY <3>1, OriginKept
    <3> QED
      BY <2>1, <3>1, <3>2 DEF Single, Origin
  <2> QED
    BY <2>1, <2>2, <2>3 DEF CacheOK
<1>6. RegistryOK'
  <2>1. SUFFICES ASSUME registry' = registry PROVE RegistryOK'
    OBVIOUS
  <2> QED
    BY <2>1 DEF CiInv, RegistryOK
<1>7. StagedOK'
  <2>1. SUFFICES ASSUME staged' = staged, NEW s \in staged
                 PROVE  \E q \in DOMAIN runs : \E f \in DOMAIN jobs'[q] :
                          s = <<q, Cell(q, f)'>> /\ runs[q].event = "tag" /\ jobs'[q][f].used # NONE
    BY DEF StagedOK
  <2>2. PICK q \in DOMAIN runs : \E f \in DOMAIN jobs[q] :
          s = <<q, Cell(q, f)>> /\ runs[q].event = "tag" /\ jobs[q][f].used # NONE
    BY DEF CiInv, StagedOK
  <2>3. PICK f \in DOMAIN jobs[q] :
          s = <<q, Cell(q, f)>> /\ runs[q].event = "tag" /\ jobs[q][f].used # NONE
    BY <2>2
  <2>4. Cell(q, f)' = Cell(q, f)
    BY SameRun
  <2>5. jobs'[q][f].used = jobs[q][f].used /\ f \in DOMAIN jobs'[q]
    BY <2>3, <1>1 DEF Grows
  <2> QED
    BY <2>3, <2>4, <2>5
<1>8. PublisherOK'
  <2>1. ASSUME NEW q \in DOMAIN runs, Succeeded(q) PROVE Succeeded(q)'
    <3>1. q # r
      <4>1. SUFFICES ASSUME q = r PROVE FALSE
        OBVIOUS
      <4>2. jobs[r][e].pc = Len(JobSteps(r, e)) + 1
        BY <2>1, <4>1 DEF Succeeded, Finished
      <4>3. Len(JobSteps(r, e)) + 1 \notin DOMAIN JobSteps(r, e)
        BY ProgramOf DEF CiInv, Program, IsSequence
      <4> QED
        BY <4>2, <4>3
    <3>2. \A f \in DOMAIN jobs'[q] : f \in DOMAIN jobs[q] /\ jobs'[q][f] = jobs[q][f]
      BY <1>1, <3>1
    <3>3. \A f : Finished(q, f)' = Finished(q, f)
      BY SameRun
    <3> QED
      BY <2>1, <3>2, <3>3 DEF Succeeded
  <2>2. \A q \in DOMAIN runs : RenderedBy(q)' = RenderedBy(q)
    BY SameRun
  <2>3. \A t \in Tags : ReleaseIn(t) => ReleaseIn(t)'
    BY <2>1, <2>2 DEF ReleaseIn
  <2> QED
    BY <2>1, <2>2, <2>3 DEF CiInv, PublisherOK
<1> QED
  BY <1>2, <1>3, <1>4, <1>5, <1>6, <1>7, <1>8 DEF CiInv

-----------------------------------------------------------------------------
(* The steps.                                                              *)

LEMMA EffectiveSteps ==
  Effective = {"validate", "restore", "fetch", "verify", "save", "build", "stage"}
  BY DEF Effective

LEMMA AdvanceFields ==
  ASSUME NEW r, NEW e, JobTyped(r, e)
  PROVE  /\ Advance(r, e) = [pc |-> After(JobSteps(r, e), jobs[r][e].pc), store |-> jobs[r][e].store,
                             hit |-> jobs[r][e].hit, used |-> jobs[r][e].used]
         /\ Advance(r, e).used = jobs[r][e].used /\ Fail(r, e).used = jobs[r][e].used
  BY DEF JobTyped, Advance, Fail

\* A step that only passes or fails.
LEMMA PlainStepKeeps ==
  ASSUME CiInv, NEW r \in DOMAIN runs, NEW e \in DOMAIN jobs[r],
         NEW do \in {"validate", "restore", "fetch", "verify", "save", "build", "stage"}, At(r, e, do),
         \/ SetJob(r, e, Fail(r, e))
         \/ SetJob(r, e, Advance(r, e)) /\ do \in {"validate", "build"},
         UNCHANGED <<ciFile, files, rendering, pending, runs, destination, publisher, cache, registry, staged>>
  PROVE  CiInv'
<1>1. RunsOK /\ JobOK(r, e)
  BY DEF CiInv, JobsOK
<1>2. jobs[r][e].pc \in DOMAIN JobSteps(r, e)
  BY DEF At
<1>3. CASE SetJob(r, e, Fail(r, e))
  <2>1. Grows
    BY <1>1, <1>3, AdvanceFields, StepGrows DEF JobOK
  <2>2. jobs'[r][e] = Fail(r, e)
    BY <1>1, <1>3, JobsMove
  <2>3. JobOK(r, e)'
    BY <1>1, <2>1, <2>2, FailsOK
  <2> QED
    BY <1>2, <1>3, <2>1, <2>3, StepKeeps
<1>4. CASE SetJob(r, e, Advance(r, e)) /\ do \in {"validate", "build"}
  <2>1. Grows
    BY <1>1, <1>4, AdvanceFields, StepGrows DEF JobOK
  <2>2. jobs'[r][e] = Advance(r, e)
    BY <1>1, <1>4, JobsMove
  <2>3. JobOK(r, e)'
    BY <1>1, <1>4, <2>1, <2>2, AdvancesOK
  <2> QED
    BY <1>2, <1>4, <2>1, <2>3, StepKeeps
<1> QED
  BY <1>3, <1>4

LEMMA ValidateKeeps ==
  ASSUME CiInv, NEW r \in DOMAIN runs, NEW e \in DOMAIN jobs[r], Validate(r, e)
  PROVE  CiInv'
<1>1. /\ At(r, e, "validate")
      /\ SetJob(r, e, Fail(r, e)) \/ SetJob(r, e, Advance(r, e))
      /\ UNCHANGED <<ciFile, files, rendering, pending, runs, destination, publisher, cache, registry, staged>>
  BY DEF Validate
<1> QED
  BY <1>1, PlainStepKeeps

LEMMA BuildKeeps ==
  ASSUME CiInv, NEW r \in DOMAIN runs, NEW e \in DOMAIN jobs[r], Build(r, e)
  PROVE  CiInv'
<1>1. /\ At(r, e, "build")
      /\ SetJob(r, e, Fail(r, e)) \/ SetJob(r, e, Advance(r, e))
      /\ UNCHANGED <<ciFile, files, rendering, pending, runs, destination, publisher, cache, registry, staged>>
  BY DEF Build
<1> QED
  BY <1>1, PlainStepKeeps

LEMMA RestoreKeeps ==
  ASSUME CiInv, NEW r \in DOMAIN runs, NEW e \in DOMAIN jobs[r], Restore(r, e)
  PROVE  CiInv'
<1>1. RunsOK /\ JobOK(r, e) /\ CacheOK
  BY DEF CiInv, JobsOK
<1>2. At(r, e, "restore") /\ jobs[r][e].pc \in DOMAIN JobSteps(r, e)
  BY DEF Restore, At
<1> DEFINE found == IF Hosted(r, e) THEN cache[KeyOf(r, e)] ELSE NONE
           hit == found # NONE
           restored == found # NONE /\ runs[r].event # "tag"
           store == IF restored THEN found ELSE jobs[r][e].store
           looked == [Advance(r, e) EXCEPT !.hit = hit]
           J == IF restored THEN [looked EXCEPT !.store = found] ELSE looked
           place == After(JobSteps(r, e), jobs[r][e].pc)
           used == jobs[r][e].used
<1>3. /\ SetJob(r, e, J)
      /\ UNCHANGED <<ciFile, files, rendering, pending, runs, cache, registry, staged, destination, publisher>>
  BY Zenon DEF Restore
<1>4. J = [pc |-> place, store |-> store, hit |-> hit, used |-> used]
  <2>1. Advance(r, e) = [pc |-> place, store |-> jobs[r][e].store, hit |-> jobs[r][e].hit, used |-> used]
    BY <1>1, AdvanceFields DEF JobOK
  <2> HIDE DEF place, hit, used, found, restored
  <2>2. looked = [pc |-> place, store |-> jobs[r][e].store, hit |-> hit, used |-> used]
    BY <2>1
  <2> HIDE DEF looked
  <2>3. CASE restored
    BY <2>2, <2>3
  <2>4. CASE ~restored
    BY <2>2, <2>4
  <2> QED
    BY <2>3, <2>4
<1>5. \/ store = jobs[r][e].store
      \/ store = cache[KeyOf(r, e)] /\ store # NONE /\ runs[r].event # "tag" /\ hit
  OBVIOUS
<1> HIDE DEF found, hit, restored, store, looked, J
<1>6. jobs'[r][e] = J /\ J.used = jobs[r][e].used
  BY <1>1, <1>3, <1>4, JobsMove
<1>7. Grows
  BY <1>1, <1>3, <1>6, StepGrows
<1>8. JobOK(r, e)'
  BY <1>1, <1>2, <1>4, <1>5, <1>6, <1>7, RestoresOK
<1> QED
  BY <1>2, <1>3, <1>7, <1>8, StepKeeps

LEMMA FetchKeeps ==
  ASSUME CiInv, NEW r \in DOMAIN runs, NEW e \in DOMAIN jobs[r], Fetch(r, e)
  PROVE  CiInv'
<1>1. RunsOK /\ JobOK(r, e) /\ RegistryOK
  BY DEF CiInv, JobsOK
<1>2. /\ At(r, e, "fetch") /\ jobs[r][e].pc \in DOMAIN JobSteps(r, e)
      /\ UNCHANGED <<ciFile, files, rendering, pending, runs, cache, staged, destination, publisher>>
  BY DEF Fetch, At
<1> DEFINE o == RemoteOf(r, e)
           pulled == [Advance(r, e) EXCEPT !.store = {Pushed(o)}]
<1>3. \/ /\ SetJob(r, e, Advance(r, e)) /\ UNCHANGED registry
         /\ o = NONE \/ Present(r, e, CachedGates(r, e))
      \/ SetJob(r, e, Fail(r, e)) /\ UNCHANGED registry
      \/ Hosted(r, e) /\ PullAccepts(r, e) /\ SetJob(r, e, pulled) /\ UNCHANGED registry
      \/ /\ ~Hosted(r, e) /\ PullAccepts(r, e) /\ SetJob(r, e, Advance(r, e))
         /\ registry' = Import(registry, Pushed(o))
  BY Zenon DEF Fetch, RemoteOf
<1>4. CASE SetJob(r, e, Fail(r, e)) /\ UNCHANGED registry
  BY <1>2, <1>4, PlainStepKeeps
<1>5. CASE /\ SetJob(r, e, Advance(r, e)) /\ UNCHANGED registry
           /\ o = NONE \/ Present(r, e, CachedGates(r, e))
  <2>1. jobs'[r][e] = Advance(r, e)
    BY <1>1, <1>5, JobsMove
  <2>2. Grows
    BY <1>1, <1>2, <1>5, AdvanceFields, StepGrows DEF JobOK
  <2>3. JobOK(r, e)'
    BY <1>1, <1>2, <1>5, <2>1, <2>2, FetchesOK
  <2> QED
    BY <1>2, <1>5, <2>2, <2>3, StepKeeps
<1>6. CASE Hosted(r, e) /\ PullAccepts(r, e) /\ SetJob(r, e, pulled) /\ UNCHANGED registry
  <2>1. jobs'[r][e] = pulled
    BY <1>1, <1>6, JobsMove
  <2>2. pulled.used = jobs[r][e].used
    <3> DEFINE S == {Pushed(o)}
    <3> HIDE DEF S
    <3>1. [Advance(r, e) EXCEPT !.store = S].used = jobs[r][e].used
      BY <1>1, AdvanceFields DEF JobOK
    <3> QED
      BY <3>1 DEF S
  <2> HIDE DEF pulled
  <2>3. Grows
    BY <1>1, <1>2, <1>6, <2>2, StepGrows
  <2>4. JobOK(r, e)'
    BY <1>1, <1>2, <1>6, <2>1, <2>3, FetchesOK DEF pulled
  <2> QED
    BY <1>2, <1>6, <2>3, <2>4, StepKeeps
<1>7. CASE /\ ~Hosted(r, e) /\ PullAccepts(r, e) /\ SetJob(r, e, Advance(r, e))
           /\ registry' = Import(registry, Pushed(o))
  <2>1. jobs'[r][e] = Advance(r, e)
    BY <1>1, <1>7, JobsMove
  <2>2. Grows
    BY <1>1, <1>2, <1>7, AdvanceFields, StepGrows DEF JobOK
  <2>3. JobOK(r, e)'
    BY <1>1, <1>2, <1>7, <2>1, <2>2, FetchesOK
  <2>4. Pushed(o) \in Triples
    <3>1. o \in Names
      BY <1>7 DEF PullAccepts, RemoteOf
    <3> HIDE DEF o
    <3> QED
      BY <3>1 DEF Pushed, Triples
  <2>5. RegistryOK'
    BY <1>1, <1>7, <2>4, ImportKeeps DEF RegistryOK
  <2> QED
    BY <1>2, <1>7, <2>2, <2>3, <2>5, StepKeeps
<1> QED
  BY <1>3, <1>4, <1>5, <1>6, <1>7

LEMMA VerifyKeeps ==
  ASSUME CiInv, NEW r \in DOMAIN runs, NEW e \in DOMAIN jobs[r], VerifyAndMaterialize(r, e)
  PROVE  CiInv'
<1>1. RunsOK /\ JobOK(r, e) /\ RegistryOK
  BY DEF CiInv, JobsOK
<1> DEFINE n == CHOOSE x \in StoredAs(StoreOf(r, e), Get(r, e, "runtime_artifact")) : TRUE
           J == [Advance(r, e) EXCEPT !.used = n]
<1>2. /\ At(r, e, "verify") /\ jobs[r][e].pc \in DOMAIN JobSteps(r, e)
      /\ UNCHANGED <<ciFile, files, rendering, pending, runs, cache, registry, staged, destination, publisher>>
  BY DEF VerifyAndMaterialize, At
<1>3. \/ SetJob(r, e, Fail(r, e))
      \/ Present(r, e, EntryGates(r, e)) /\ SetJob(r, e, J)
  BY Zenon DEF VerifyAndMaterialize
<1>4. CASE SetJob(r, e, Fail(r, e))
  BY <1>2, <1>4, PlainStepKeeps
<1>5. CASE Present(r, e, EntryGates(r, e)) /\ SetJob(r, e, J)
  <2>1. jobs'[r][e] = J
    BY <1>1, <1>5, JobsMove
  <2>2. jobs[r][e].used = NONE
    BY <1>1, <1>2, NotYet
  <2> HIDE DEF J
  <2>3. Grows
    BY <1>1, <1>2, <1>5, <2>2, StepGrows
  <2>4. JobOK(r, e)'
    <3>1. jobs'[r][e] = [Advance(r, e) EXCEPT !.used = n]
      BY <2>1 DEF J
    <3>2. n = CHOOSE x \in StoredAs(StoreOf(r, e), Get(r, e, "runtime_artifact")) : TRUE
      OBVIOUS
    <3> HIDE DEF n
    <3> QED
      BY <1>1, <1>2, <1>5, <2>3, <3>1, <3>2, VerifiesOK
  <2> QED
    BY <1>2, <1>5, <2>3, <2>4, StepKeeps
<1> QED
  BY <1>3, <1>4, <1>5

LEMMA SaveKeeps ==
  ASSUME CiInv, NEW r \in DOMAIN runs, NEW e \in DOMAIN jobs[r], Save(r, e)
  PROVE  CiInv'
<1>1. RunsOK /\ JobOK(r, e) /\ CacheOK
  BY DEF CiInv, JobsOK
<1>2. /\ At(r, e, "save") /\ jobs[r][e].pc \in DOMAIN JobSteps(r, e) /\ SetJob(r, e, Advance(r, e))
      /\ cache' = cache \/ (Hosted(r, e) /\ cache' = [cache EXCEPT ![KeyOf(r, e)] = jobs[r][e].store])
      /\ UNCHANGED <<ciFile, files, rendering, pending, runs, registry, staged, destination, publisher>>
  BY DEF Save, At
<1>3. jobs'[r][e] = Advance(r, e)
  BY <1>1, <1>2, JobsMove
<1>4. Grows
  BY <1>1, <1>2, AdvanceFields, StepGrows DEF JobOK
<1>5. JobOK(r, e)'
  BY <1>1, <1>2, <1>3, <1>4, AdvancesOK
<1>6. ASSUME Hosted(r, e), cache' = [cache EXCEPT ![KeyOf(r, e)] = jobs[r][e].store]
      PROVE  CacheOK'
  <2> DEFINE key == KeyOf(r, e)
             S == jobs[r][e].store
  <2>1. key \in Keys /\ key[2] = Digest(r, e) /\ Passed(r, e, "verify")
    BY <1>1, <1>2, EffectiveSteps, AtFacts, Ranks
  <2>2. Single(S, key[2])
    BY <1>1, <1>6, <2>1 DEF JobOK, StoreOK
  <2>3. Origin(key, S)
    <3>1. jobs[r][e].used # NONE /\ jobs[r][e].used \in S
      BY <1>1, <1>6, <2>1 DEF JobOK, UsedOK
    <3> QED
      BY <3>1 DEF Origin
  <2>4. ASSUME NEW k \in Keys, cache'[k] # NONE
        PROVE  Single(cache'[k], k[2]) /\ Origin(k, cache'[k])
    <3>1. CASE k = key
      BY <1>1, <1>6, <2>1, <2>2, <2>3, <3>1 DEF CacheOK
    <3>2. CASE k # key
      <4>1. cache'[k] = cache[k]
        BY <1>1, <1>6, <3>2 DEF CacheOK
      <4> QED
        BY <1>1, <2>4, <4>1 DEF CacheOK
    <3> QED
      BY <3>1, <3>2
  <2>5. ASSUME NEW k \in Keys, cache'[k] # NONE
        PROVE  Single(cache'[k], k[2]) /\ Origin(k, cache[k])'
    <3>1. Single(cache'[k], k[2]) /\ Origin(k, cache'[k])
      BY <2>4, <2>5
    <3>2. \E q \in DOMAIN runs' : \E f \in DOMAIN jobs'[q] :
             KeyOf(q, f)' = k /\ jobs'[q][f].used # NONE /\ jobs'[q][f].used \in cache'[k]
      BY <1>4, <3>1, OriginKept
    <3> QED
      BY <3>1, <3>2 DEF Origin
  <2>6. DOMAIN cache' = Keys
    BY <1>1, <1>6 DEF CacheOK
  <2> QED
    BY <2>5, <2>6 DEF CacheOK, Single
<1> QED
  BY <1>2, <1>4, <1>5, <1>6, StepKeeps

LEMMA StageKeeps ==
  ASSUME CiInv, NEW r \in DOMAIN runs, NEW e \in DOMAIN jobs[r], StageCandidate(r, e)
  PROVE  CiInv'
<1>1. RunsOK /\ JobOK(r, e)
  BY DEF CiInv, JobsOK
<1>2. /\ At(r, e, "stage") /\ jobs[r][e].pc \in DOMAIN JobSteps(r, e)
      /\ \/ staged' = staged \cup {<<r, Cell(r, e)>>} /\ SetJob(r, e, Advance(r, e))
         \/ SetJob(r, e, Fail(r, e)) /\ UNCHANGED staged
      /\ UNCHANGED <<ciFile, files, rendering, pending, runs, cache, registry, destination, publisher>>
  BY DEF StageCandidate, At
<1>3. CASE SetJob(r, e, Fail(r, e)) /\ UNCHANGED staged
  BY <1>2, <1>3, PlainStepKeeps
<1>4. CASE staged' = staged \cup {<<r, Cell(r, e)>>} /\ SetJob(r, e, Advance(r, e))
  <2>1. jobs'[r][e] = Advance(r, e)
    BY <1>1, <1>4, JobsMove
  <2>2. Grows
    BY <1>1, <1>2, <1>4, AdvanceFields, StepGrows DEF JobOK
  <2>3. JobOK(r, e)'
    BY <1>1, <1>2, <1>4, <2>1, <2>2, AdvancesOK
  <2>4. runs[r].event = "tag" /\ Passed(r, e, "verify")
    BY <1>1, <1>2, EffectiveSteps, AtFacts, Ranks
  <2>5. jobs[r][e].used # NONE /\ jobs'[r][e].used # NONE
    BY <1>1, <2>1, <2>4, AdvanceFields DEF JobOK, UsedOK
  <2>6. StagedOK'
    <3>1. SUFFICES ASSUME NEW s \in staged'
                   PROVE  \E q \in DOMAIN runs : \E f \in DOMAIN jobs'[q] :
                            s = <<q, Cell(q, f)'>> /\ runs[q].event = "tag" /\ jobs'[q][f].used # NONE
      BY <1>2 DEF StagedOK
    <3>2. CASE s \in staged
      <4>1. PICK q \in DOMAIN runs : \E f \in DOMAIN jobs[q] :
              s = <<q, Cell(q, f)>> /\ runs[q].event = "tag" /\ jobs[q][f].used # NONE
        BY <3>2 DEF CiInv, StagedOK
      <4>2. PICK f \in DOMAIN jobs[q] :
              s = <<q, Cell(q, f)>> /\ runs[q].event = "tag" /\ jobs[q][f].used # NONE
        BY <4>1
      <4>3. Cell(q, f)' = Cell(q, f)
        BY <1>2, SameRun
      <4>4. jobs'[q][f].used = jobs[q][f].used /\ f \in DOMAIN jobs'[q]
        BY <4>2, <2>2 DEF Grows
      <4> QED
        BY <4>2, <4>3, <4>4
    <3>3. CASE s = <<r, Cell(r, e)>>
      <4>1. Cell(r, e)' = Cell(r, e) /\ e \in DOMAIN jobs'[r]
        BY <1>2, <2>2, SameRun DEF Grows
      <4> QED
        BY <2>4, <2>5, <3>3, <4>1
    <3> QED
      BY <1>4, <3>2, <3>3
  <2> QED
    BY <1>2, <1>4, <2>2, <2>3, <2>6, StepKeeps
<1> QED
  BY <1>2, <1>3, <1>4

\* What a step that touches no job leaves.
LEMMA QuietKeeps ==
  ASSUME CiInv, UNCHANGED <<runs, jobs, staged>>
  PROVE  /\ JobsOK' /\ StagedOK'
         /\ \A q \in DOMAIN runs : (Succeeded(q)' <=> Succeeded(q)) /\ RenderedBy(q)' = RenderedBy(q)
         /\ DOMAIN cache' = Keys /\ (\A k \in Keys : cache'[k] \in {NONE, cache[k]}) => CacheOK'
<1>1. Grows
  BY DEF Grows
<1>2. JobsOK'
  BY <1>1, JobKept DEF CiInv, JobsOK
<1>3. StagedOK'
  <2>1. SUFFICES ASSUME NEW s \in staged
                 PROVE  \E q \in DOMAIN runs : \E f \in DOMAIN jobs[q] :
                          s = <<q, Cell(q, f)'>> /\ runs[q].event = "tag" /\ jobs[q][f].used # NONE
    BY DEF StagedOK
  <2>2. \A q, f : Cell(q, f)' = Cell(q, f)
    BY SameRun
  <2> QED
    BY <2>2 DEF CiInv, StagedOK
<1>4. ASSUME NEW q \in DOMAIN runs PROVE (Succeeded(q)' <=> Succeeded(q)) /\ RenderedBy(q)' = RenderedBy(q)
  <2>1. \A f : Finished(q, f)' = Finished(q, f)
    BY SameRun
  <2>2. RenderedBy(q)' = RenderedBy(q)
    BY SameRun
  <2> QED
    BY <2>1, <2>2 DEF Succeeded
<1>5. ASSUME DOMAIN cache' = Keys, \A k \in Keys : cache'[k] \in {NONE, cache[k]}
      PROVE  CacheOK'
  <2>1. ASSUME NEW k \in Keys, cache'[k] # NONE
        PROVE  Single(cache'[k], k[2]) /\ Origin(k, cache[k])'
    <3>1. cache'[k] = cache[k]
      BY <1>5, <2>1
    <3>2. Single(cache[k], k[2]) /\ Origin(k, cache[k])
      BY <2>1, <3>1 DEF CiInv, CacheOK
    <3>3. \E q \in DOMAIN runs' : \E f \in DOMAIN jobs'[q] :
             KeyOf(q, f)' = k /\ jobs'[q][f].used # NONE /\ jobs'[q][f].used \in cache[k]
      BY <1>1, <3>2, OriginKept
    <3> QED
      BY <3>1, <3>2, <3>3 DEF Origin
  <2> QED
    BY <1>5, <2>1 DEF CacheOK, Single
<1> QED
  BY <1>2, <1>3, <1>4, <1>5

LEMMA QuietPublisher ==
  ASSUME CiInv, UNCHANGED <<runs, jobs, staged, destination, publisher>>
  PROVE  RunsOK' /\ PublisherOK'
<1>1. \A q \in DOMAIN runs : (Succeeded(q)' <=> Succeeded(q)) /\ RenderedBy(q)' = RenderedBy(q)
  BY QuietKeeps
<1>2. \A t \in Tags : ReleaseIn(t) => ReleaseIn(t)'
  BY <1>1 DEF ReleaseIn
<1>3. PublisherOK'
  BY <1>1, <1>2 DEF CiInv, PublisherOK
<1>4. RunsOK'
  BY DEF CiInv, RunsOK
<1> QED
  BY <1>3, <1>4

-----------------------------------------------------------------------------
(* The repository, the cache's owner and the operator.                     *)

LEMMA FilesKeep ==
  ASSUME CiInv, FilesOK', UNCHANGED <<runs, jobs, cache, registry, staged, destination, publisher>>
  PROVE  CiInv'
<1>1. DOMAIN cache' = Keys /\ (\A k \in Keys : cache'[k] \in {NONE, cache[k]})
  BY DEF CiInv, CacheOK
<1>2. JobsOK' /\ StagedOK' /\ CacheOK' /\ RunsOK' /\ PublisherOK'
  BY <1>1, QuietKeeps, QuietPublisher
<1>3. RegistryOK'
  BY DEF CiInv, RegistryOK
<1> QED
  BY <1>2, <1>3 DEF CiInv

LEMMA EvictKeeps ==
  ASSUME CiInv, NEW key \in Keys, Evict(key)
  PROVE  CiInv'
<1>1. /\ cache' = [cache EXCEPT ![key] = NONE]
      /\ UNCHANGED <<ciFile, files, rendering, pending, runs, jobs, registry, staged, destination, publisher>>
  BY DEF Evict
<1>2. DOMAIN cache' = Keys /\ (\A k \in Keys : cache'[k] \in {NONE, cache[k]})
  BY <1>1 DEF CiInv, CacheOK
<1>3. JobsOK' /\ StagedOK' /\ CacheOK' /\ RunsOK' /\ PublisherOK'
  BY <1>1, <1>2, QuietKeeps, QuietPublisher
<1>4. RegistryOK' /\ FilesOK'
  BY <1>1 DEF CiInv, RegistryOK, FilesOK, Wrote, WillWrite
<1> QED
  BY <1>3, <1>4 DEF CiInv

LEMMA OperatorImportsKeeps ==
  ASSUME CiInv, OperatorImports
  PROVE  CiInv'
<1>1. /\ \E o \in Imports : registry' = Import(registry, Pushed(o))
      /\ UNCHANGED <<ciFile, files, rendering, pending, runs, jobs, cache, staged, destination, publisher>>
  BY DEF OperatorImports
<1>2. PICK o \in Imports : registry' = Import(registry, Pushed(o))
  BY <1>1
<1>3. Pushed(o) \in Triples
  BY CiAssumption DEF Pushed, Triples
<1>4. RegistryOK'
  BY <1>2, <1>3, ImportKeeps DEF CiInv, RegistryOK
<1>5. DOMAIN cache' = Keys /\ (\A k \in Keys : cache'[k] \in {NONE, cache[k]})
  BY <1>1 DEF CiInv, CacheOK
<1>6. JobsOK' /\ StagedOK' /\ CacheOK' /\ RunsOK' /\ PublisherOK'
  BY <1>1, <1>5, QuietKeeps, QuietPublisher
<1>7. FilesOK'
  BY <1>1 DEF CiInv, FilesOK, Wrote, WillWrite
<1> QED
  BY <1>4, <1>6, <1>7 DEF CiInv

\* What a generate has to write, in its order.
LEMMA OnePath ==
  ASSUME NEW p \in Paths, NEW absent
  PROVE  Unless(absent, <<p>>) \in Seq(Paths) /\ (~absent => Unless(absent, <<p>>) = <<p>>)
  BY DEF Unless
LEMMA InOrderIs ==
  ASSUME NEW paths
  PROVE  /\ InOrder(paths) \in Seq(Paths)
         /\ \A p \in Paths \cap paths : \E i \in DOMAIN InOrder(paths) : InOrder(paths)[i] = p
<1> DEFINE a == Unless("support" \notin paths, <<"support">>)
           b == Unless("source" \notin paths, <<"source">>)
           c == Unless("release" \notin paths, <<"release">>)
<1>1. /\ a \in Seq(Paths) /\ b \in Seq(Paths) /\ c \in Seq(Paths)
      /\ "support" \in paths => a = <<"support">>
      /\ "source" \in paths => b = <<"source">>
      /\ "release" \in paths => c = <<"release">>
  <2> DEFINE d == "support" \notin paths
             e == "source" \notin paths
             f == "release" \notin paths
  <2>1. {"support", "source", "release"} = Paths
    BY DEF Paths
  <2> HIDE DEF d, e, f
  <2>2. /\ Unless(d, <<"support">>) \in Seq(Paths) /\ (~d => Unless(d, <<"support">>) = <<"support">>)
        /\ Unless(e, <<"source">>) \in Seq(Paths) /\ (~e => Unless(e, <<"source">>) = <<"source">>)
        /\ Unless(f, <<"release">>) \in Seq(Paths) /\ (~f => Unless(f, <<"release">>) = <<"release">>)
    BY <2>1, OnePath
  <2> QED
    BY <2>2, Zenon DEF d, e, f
<1>2. InOrder(paths) = (a \o b) \o c
  BY DEF InOrder
<1> HIDE DEF a, b, c
<1> DEFINE ab == a \o b
           abc == ab \o c
<1>3. /\ ab \in Seq(Paths) /\ Len(ab) = Len(a) + Len(b)
      /\ \A i \in DOMAIN a : i \in DOMAIN ab /\ ab[i] = a[i]
      /\ \A i \in DOMAIN b : Len(a) + i \in DOMAIN ab /\ ab[Len(a) + i] = b[i]
  BY <1>1
<1> HIDE DEF ab
<1>4. /\ abc \in Seq(Paths)
      /\ \A i \in DOMAIN ab : i \in DOMAIN abc /\ abc[i] = ab[i]
      /\ \A i \in DOMAIN c : Len(ab) + i \in DOMAIN abc /\ abc[Len(ab) + i] = c[i]
  BY <1>1, <1>3
<1>5. \A x : DOMAIN <<x>> = {1} /\ <<x>>[1] = x
  OBVIOUS
<1> HIDE DEF abc
<1>6. "support" \in paths => \E i \in DOMAIN abc : abc[i] = "support"
  BY <1>1, <1>3, <1>4, <1>5
<1>7. "source" \in paths => \E i \in DOMAIN abc : abc[i] = "source"
  BY <1>1, <1>3, <1>4, <1>5
<1>8. "release" \in paths => \E i \in DOMAIN abc : abc[i] = "release"
  BY <1>1, <1>3, <1>4, <1>5
<1>9. InOrder(paths) = abc
  BY <1>2 DEF abc, ab
<1> QED
  BY <1>4, <1>6, <1>7, <1>8, <1>9 DEF Paths

LEMMA RepositoryKeeps ==
  ASSUME CiInv, EditMatrix \/ Generate \/ WriteWorkflow \/ GenerateStops \/ GenerateEnds \/ RemoveStale
  PROVE  CiInv'
<1>0. /\ ciFile \in DOMAIN CiMatrices /\ rendering \in DOMAIN CiMatrices \cup {0}
      /\ DOMAIN CiMatrices \subseteq Nat /\ ciFile \in Nat /\ rendering \in Nat /\ rendering <= ciFile
      /\ files \in [Paths -> DOMAIN CiMatrices \cup {NONE, Torn}] /\ pending \in Seq(Paths)
      /\ rendering = 0 => pending = <<>>
      /\ rendering # 0 => \A p \in RenderedPaths(rendering) : Wrote(p) \/ WillWrite(p)
      /\ 0 \notin DOMAIN CiMatrices
  BY CiAssumption DEF CiInv, FilesOK
<1>1. CASE EditMatrix
  <2>1. /\ ciFile + 1 \in DOMAIN CiMatrices /\ ciFile' = ciFile + 1
        /\ UNCHANGED <<files, rendering, pending, runs, jobs, cache, registry, staged, destination, publisher>>
    BY <1>1 DEF EditMatrix
  <2>2. RenderedPaths(rendering)' = RenderedPaths(rendering)
    BY <2>1
  <2>3. FilesOK'
    BY <1>0, <2>1, <2>2 DEF FilesOK, Wrote, WillWrite
  <2> QED
    BY <2>1, <2>3, FilesKeep
<1>2. CASE Generate
  <2>1. /\ rendering' = ciFile /\ pending' = InOrder(RenderedPaths(ciFile))
        /\ UNCHANGED <<ciFile, files, runs, jobs, cache, registry, staged, destination, publisher>>
    BY <1>2 DEF Generate
  <2>2. RenderedPaths(ciFile) \subseteq Paths
    BY DEF RenderedPaths
  <2>3. /\ pending' \in Seq(Paths)
        /\ \A p \in RenderedPaths(ciFile) : \E i \in DOMAIN pending' : pending'[i] = p
    BY <2>1, <2>2, InOrderIs
  <2>4. RenderedPaths(rendering)' = RenderedPaths(ciFile)
    BY <2>1
  <2>5. FilesOK'
    BY <1>0, <2>1, <2>3, <2>4 DEF FilesOK, WillWrite
  <2> QED
    BY <2>1, <2>5, FilesKeep
<1>3. CASE WriteWorkflow
  <2>1. /\ pending # <<>> /\ files' = [files EXCEPT ![Head(pending)] = rendering] /\ pending' = Tail(pending)
        /\ UNCHANGED <<ciFile, rendering, runs, jobs, cache, registry, staged, destination, publisher>>
        /\ rendering # 0 /\ rendering \in DOMAIN CiMatrices
    BY <1>0, <1>3 DEF WriteWorkflow
  <2>2. \A p \in RenderedPaths(rendering) : Wrote(p) \/ WillWrite(p)
    BY <1>0, <2>1
  <2>3. /\ pending' \in Seq(Paths) /\ Head(pending) = pending[1] /\ Head(pending) \in Paths
        /\ \A i \in DOMAIN pending : i = 1 \/ (i - 1 \in DOMAIN pending' /\ pending'[i - 1] = pending[i])
    BY <1>0, <2>1
  <2>4. files' \in [Paths -> DOMAIN CiMatrices \cup {NONE, Torn}]
    BY <1>0, <2>1
  <2>5. ASSUME NEW p \in RenderedPaths(rendering)
        PROVE  \/ files'[p] = rendering \/ (files'[p] = NONE /\ rendering < ciFile)
               \/ \E i \in DOMAIN pending' : pending'[i] = p
    <3>1. p \in Paths
      BY DEF RenderedPaths
    <3>2. CASE Wrote(p) \/ p = Head(pending)
      BY <1>0, <2>1, <3>1, <3>2 DEF Wrote
    <3>3. ASSUME NEW i \in DOMAIN pending, pending[i] = p
          PROVE  p = Head(pending) \/ \E k \in DOMAIN pending' : pending'[k] = p
      BY <2>3, <3>3
    <3> QED
      BY <2>2, <3>2, <3>3 DEF WillWrite
  <2>6. RenderedPaths(rendering)' = RenderedPaths(rendering)
    BY <2>1
  <2>7. FilesOK'
    BY <1>0, <2>1, <2>3, <2>4, <2>5, <2>6 DEF FilesOK, Wrote, WillWrite
  <2> QED
    BY <2>1, <2>7, FilesKeep
<1>4. CASE GenerateStops \/ GenerateEnds
  <2>1. /\ rendering' = 0 /\ pending' = <<>>
        /\ UNCHANGED <<ciFile, runs, jobs, cache, registry, staged, destination, publisher>>
        /\ files' = files \/ (pending # <<>> /\ files' = [files EXCEPT ![Head(pending)] = Torn])
    BY <1>4 DEF GenerateStops, GenerateEnds
  <2>2. FilesOK'
    BY <1>0, <2>1 DEF FilesOK
  <2> QED
    BY <2>1, <2>2, FilesKeep
<1>5. CASE RemoveStale
  <2>1. UNCHANGED <<ciFile, rendering, pending, runs, jobs, cache, registry, staged, destination, publisher>>
    BY <1>5 DEF RemoveStale
  <2>2. PICK gone \in SUBSET (Paths \ RenderedPaths(ciFile)) :
          files' = [p \in Paths |-> IF p \in gone THEN NONE ELSE files[p]]
    BY <1>5 DEF RemoveStale
  <2>3. files' \in [Paths -> DOMAIN CiMatrices \cup {NONE, Torn}]
    BY <1>0, <2>2
  <2>4. ASSUME rendering # 0, NEW p \in RenderedPaths(rendering)
        PROVE  \/ files'[p] = rendering \/ (files'[p] = NONE /\ rendering < ciFile)
               \/ \E i \in DOMAIN pending : pending[i] = p
    <3>1. p \in Paths /\ (p \in gone => rendering # ciFile)
      BY <2>2, <2>4 DEF RenderedPaths
    <3> QED
      BY <1>0, <2>2, <2>4, <3>1 DEF Wrote, WillWrite
  <2>5. RenderedPaths(rendering)' = RenderedPaths(rendering)
    BY <2>1
  <2>6. FilesOK'
    BY <1>0, <2>1, <2>3, <2>4, <2>5 DEF FilesOK, Wrote, WillWrite
  <2> QED
    BY <2>1, <2>6, FilesKeep
<1> QED
  BY <1>1, <1>2, <1>3, <1>4, <1>5

-----------------------------------------------------------------------------
(* Runs start.                                                             *)

LEMMA RenderedProgram ==
  ASSUME NEW x \in Rendered
  PROVE  Program(x.steps, 0, 7, {})
<1>1. PICK c : RunsCell(x, c)
  BY RenderedRunsCell
<1>2. {} \subseteq {"fetch", "verify"}
  OBVIOUS
<1>3. CASE Bare(x.steps)
  BY <1>3, Weaker DEF Bare
<1>4. CASE Program(x.steps, 0, 7, {"fetch", "verify"})
  BY <1>2, <1>4, Weaker
<1> QED
  BY <1>1, <1>3, <1>4 DEF RunsCell

LEMMA Appended ==
  ASSUME NEW s, IsSequence(s), NEW v
  PROVE  /\ IsSequence(Append(s, v)) /\ Len(Append(s, v)) = Len(s) + 1 /\ Append(s, v)[Len(s) + 1] = v
         /\ \A i \in 1..Len(s) : Append(s, v)[i] = s[i]
         /\ Len(s) \in Nat /\ DOMAIN s = 1..Len(s) /\ DOMAIN Append(s, v) = 1..(Len(s) + 1)
<1>1. PICK S : s \in Seq(S)
  BY DEF IsSequence
<1>2. s \in Seq(S \cup {v}) /\ v \in S \cup {v}
  BY <1>1
<1> QED
  BY <1>2 DEF IsSequence

\* The run that starts: its jobs are at their first step, with nothing yet.
StartedJob(rendered, event, e) ==
  [pc |-> After(EntryIn(rendered, event, e).steps, 0), store |-> {}, hit |-> FALSE, used |-> NONE]

LEMMA FreshJobOK ==
  ASSUME NEW r, NEW e, NEW rendered, NEW event,
         runs'[r].rendered = rendered, runs'[r].event = event,
         \E x \in Rendered : x.matrix = rendered /\ x.event = event /\ x.id = e,
         jobs'[r][e] = StartedJob(rendered, event, e)
  PROVE  JobOK(r, e)'
<1> DEFINE x == EntryIn(rendered, event, e)
           s == x.steps
<1>1. x \in Rendered
  BY DEF EntryIn
<1>2. Program(s, 0, 7, {})
  BY <1>1, RenderedProgram
<1>3. JobSteps(r, e)' = s
  BY DEF JobSteps, EntryOf
<1> HIDE DEF x, s
<1> DEFINE no == FALSE
<1>4. jobs'[r][e] = [pc |-> After(s, 0), store |-> {}, hit |-> no, used |-> NONE]
  BY Zenon DEF StartedJob, s, x
<1>5. ~no
  OBVIOUS
<1> HIDE DEF no
<1>6. /\ jobs'[r][e].pc = After(s, 0) /\ jobs'[r][e].store = {} /\ ~jobs'[r][e].hit /\ jobs'[r][e].used = NONE
      /\ jobs'[r][e] = [pc |-> jobs'[r][e].pc, store |-> jobs'[r][e].store, hit |-> jobs'[r][e].hit,
                        used |-> jobs'[r][e].used]
  BY <1>4, <1>5
<1>7. After(s, 0) \in 0..Len(s) + 1
  <2>1. PICK S : s \in Seq(S)
    BY <1>2 DEF Program, IsSequence
  <2> QED
    BY <2>1, AfterIs
<1>8. \A d \in Effective : ~Passed(r, e, d)'
  BY <1>2, <1>3, <1>6, BehindFirst DEF Passed
<1>9. ~Passed(r, e, "fetch")' /\ ~Passed(r, e, "verify")' /\ ~Passed(r, e, "stage")'
  BY <1>8, EffectiveSteps
<1>10. JobTyped(r, e)'
  BY <1>3, <1>6, <1>7 DEF JobTyped, Finished
<1>11. StoreOK(r, e)'
  <2>1. Single(jobs[r][e].store, Digest(r, e))'
    BY <1>6 DEF Single
  <2> QED
    BY <1>6, <1>9, <2>1 DEF StoreOK
<1>12. UsedOK(r, e)'
  BY <1>6, <1>9 DEF UsedOK
<1> QED
  BY <1>10, <1>11, <1>12 DEF JobOK

LEMMA StartRunKeeps ==
  ASSUME CiInv, NEW event \in Events, StartRun(event)
  PROVE  CiInv'
<1> DEFINE rendered == files[Workflow(event)]
           entries == {x.id : x \in {x \in Rendered : x.matrix = rendered /\ x.event = event}}
           n == Len(runs) + 1
           run == [event |-> event, rendered |-> rendered, checkout |-> ciFile]
           started == [e \in entries |-> StartedJob(rendered, event, e)]
           waiting == IF event = "tag" /\ CiMatrices[rendered].release.mode = "publish" THEN "waiting" ELSE "none"
<1>1. /\ Len(runs) < MaxRuns /\ rendered # NONE /\ rendered # Torn
      /\ runs' = Append(runs, run) /\ jobs' = Append(jobs, started) /\ publisher' = Append(publisher, waiting)
      /\ UNCHANGED <<ciFile, files, rendering, pending, cache, registry, staged, destination>>
  BY Zenon DEF StartRun, Open, StartedJob
<1>2. ciFile \in DOMAIN CiMatrices /\ rendered \in DOMAIN CiMatrices
  <2>1. Workflow(event) \in Paths
    BY DEF Workflow, Paths
  <2> QED
    BY <1>1, <2>1 DEF CiInv, FilesOK, Wrote, WillWrite
<1> DEFINE R == [event : Events, rendered : DOMAIN CiMatrices, checkout : DOMAIN CiMatrices]
<1>3. run \in R /\ runs \in Seq(R) /\ run.event = event /\ run.rendered = rendered
  BY <1>2 DEF CiInv, RunsOK
<1>4. IsSequence(runs) /\ IsSequence(jobs) /\ IsSequence(publisher) /\ Len(jobs) = Len(runs) /\ Len(publisher) = Len(runs)
  BY <1>3 DEF CiInv, RunsOK, IsSequence
<1> HIDE DEF run, started, waiting, R
<1>5. /\ Len(runs) \in Nat /\ DOMAIN runs = 1..Len(runs) /\ DOMAIN runs' = 1..n
      /\ runs'[n] = run /\ jobs'[n] = started /\ publisher'[n] = waiting
      /\ \A r \in DOMAIN runs : runs'[r] = runs[r] /\ jobs'[r] = jobs[r] /\ publisher'[r] = publisher[r]
      /\ IsSequence(jobs') /\ Len(jobs') = n /\ IsSequence(publisher') /\ Len(publisher') = n /\ Len(runs') = n
  BY <1>1, <1>4, Appended
<1>6. Grows
  BY <1>1, <1>5 DEF Grows
<1>7. runs' \in Seq(R)
  BY <1>1, <1>3
<1>8. RunsOK'
  <2>1. n <= MaxRuns
    BY <1>1, <1>5, CiAssumption
  <2>2. ASSUME NEW r \in DOMAIN runs'
        PROVE  DOMAIN jobs'[r] =
                 {x.id : x \in {x \in Rendered : x.matrix = runs'[r].rendered /\ x.event = runs'[r].event}}
    <3>1. CASE r \in DOMAIN runs
      BY <3>1, <1>5 DEF CiInv, RunsOK
    <3>2. CASE r = n
      <4>1. runs'[r].rendered = rendered /\ runs'[r].event = event /\ jobs'[r] = started
        BY <1>3, <1>5, <3>2
      <4>2. DOMAIN jobs'[r] = entries
        BY <4>1 DEF started
      <4> QED
        BY <4>1, <4>2
    <3> QED
      BY <1>5, <3>1, <3>2
  <2> QED
    BY <1>5, <1>7, <2>1, <2>2 DEF RunsOK, R
<1>9. JobsOK'
  <2>1. ASSUME NEW r \in DOMAIN runs', NEW e \in DOMAIN jobs'[r] PROVE JobOK(r, e)'
    <3>1. CASE r \in DOMAIN runs
      BY <3>1, <1>5, <1>6, JobKept DEF CiInv, JobsOK
    <3>2. CASE r = n
      <4>1. runs'[r].rendered = rendered /\ runs'[r].event = event /\ jobs'[r] = started
        BY <1>3, <1>5, <3>2
      <4>2. e \in entries /\ jobs'[r][e] = StartedJob(rendered, event, e)
        BY <4>1 DEF started
      <4>3. \E x \in Rendered : x.matrix = rendered /\ x.event = event /\ x.id = e
        BY <4>2
      <4> QED
        BY <4>1, <4>2, <4>3, FreshJobOK
    <3> QED
      BY <1>5, <3>1, <3>2
  <2> QED
    BY <2>1 DEF JobsOK
<1>10. CacheOK'
  <2>1. ASSUME NEW k \in Keys, cache[k] # NONE
        PROVE  Single(cache[k], k[2]) /\ Origin(k, cache[k])'
    <3>1. Single(cache[k], k[2]) /\ Origin(k, cache[k])
      BY <2>1 DEF CiInv, CacheOK
    <3>2. \E q \in DOMAIN runs' : \E f \in DOMAIN jobs'[q] :
             KeyOf(q, f)' = k /\ jobs'[q][f].used # NONE /\ jobs'[q][f].used \in cache[k]
      BY <1>6, <3>1, OriginKept
    <3> QED
      BY <1>1, <3>1, <3>2 DEF Origin
  <2> QED
    BY <1>1, <2>1 DEF CiInv, CacheOK, Single
<1>11. StagedOK'
  <2>1. ASSUME NEW s \in staged
        PROVE  \E q \in DOMAIN runs' : \E f \in DOMAIN jobs'[q] :
                 s = <<q, Cell(q, f)'>> /\ runs'[q].event = "tag" /\ jobs'[q][f].used # NONE
    <3>1. PICK q \in DOMAIN runs : \E f \in DOMAIN jobs[q] :
            s = <<q, Cell(q, f)>> /\ runs[q].event = "tag" /\ jobs[q][f].used # NONE
      BY DEF CiInv, StagedOK
    <3>2. PICK f \in DOMAIN jobs[q] :
            s = <<q, Cell(q, f)>> /\ runs[q].event = "tag" /\ jobs[q][f].used # NONE
      BY <3>1
    <3>3. runs'[q] = runs[q] /\ jobs'[q] = jobs[q] /\ q \in DOMAIN runs'
      BY <1>5
    <3>4. Cell(q, f)' = Cell(q, f)
      BY <3>3, SameRun
    <3> QED
      BY <3>2, <3>3, <3>4
  <2> QED
    BY <1>1, <2>1 DEF StagedOK
<1>12. PublisherOK'
  <2>1. ASSUME NEW q \in DOMAIN runs PROVE (Succeeded(q) => Succeeded(q)') /\ RenderedBy(q)' = RenderedBy(q)
    <3>1. runs'[q] = runs[q] /\ jobs'[q] = jobs[q]
      BY <1>5
    <3>2. \A f : Finished(q, f)' = Finished(q, f)
      BY <3>1, SameRun
    <3>3. RenderedBy(q)' = RenderedBy(q)
      BY <3>1, SameRun
    <3> QED
      BY <3>1, <3>2, <3>3 DEF Succeeded
  <2>2. \A t \in Tags : ReleaseIn(t) => ReleaseIn(t)'
    BY <1>1, <1>5, <2>1 DEF ReleaseIn
  <2>3. waiting \in {"waiting", "none"} /\ (waiting = "waiting" => event = "tag")
    BY DEF waiting
  <2>4. ASSUME NEW r \in DOMAIN runs'
        PROVE  /\ publisher'[r] \in {"waiting", "publishing", "published"} => runs'[r].event = "tag"
               /\ publisher'[r] \in {"publishing", "published"} => Succeeded(r)'
               /\ publisher'[r] = "published" => \A c \in CandidateCells(RenderedBy(r)') :
                    destination'[<<RenderedBy(r)'.release.version, c.name>>] # NONE
    <3>1. CASE r \in DOMAIN runs
      BY <1>1, <1>5, <2>1, <3>1 DEF CiInv, PublisherOK
    <3>2. CASE r = n
      BY <1>3, <1>5, <2>3, <3>2
    <3> QED
      BY <1>5, <3>1, <3>2
  <2> QED
    BY <1>1, <2>2, <2>4 DEF CiInv, PublisherOK
<1>13. RegistryOK' /\ FilesOK'
  BY <1>1 DEF CiInv, RegistryOK, FilesOK, Wrote, WillWrite
<1> QED
  BY <1>8, <1>9, <1>10, <1>11, <1>12, <1>13 DEF CiInv

-----------------------------------------------------------------------------
(* The publisher.                                                          *)

\* The entry of a candidate, in a run of its tag.
LEMMA CandidateEntry ==
  ASSUME RunsOK, NEW r \in DOMAIN runs, runs[r].event = "tag", NEW c \in CandidateCells(RenderedBy(r))
  PROVE  /\ Append(<<"candidates">>, c.name) \in DOMAIN jobs[r]
         /\ Cell(r, Append(<<"candidates">>, c.name)) = c.name
         /\ <<RenderedBy(r).release.version, c.name>> \in Tags
<1> DEFINE e == Append(<<"candidates">>, c.name)
           i == runs[r].rendered
<1>1. i \in DOMAIN CiMatrices /\ RenderedBy(r) = CiMatrices[i] /\ RenderedBy(r) \in AllMatrices
  BY RunFields
<1>2. \E x \in Rendered : x.matrix = i /\ x.event = "tag" /\ x.id = e
  BY <1>1, CandidateIsRendered
<1>3. e \in DOMAIN jobs[r]
  <2>1. DOMAIN jobs[r] = {x.id : x \in {x \in Rendered : x.matrix = i /\ x.event = "tag"}}
    BY DEF RunsOK
  <2> HIDE DEF e, i
  <2> QED
    BY <1>2, <2>1
<1>4. PICK d : JobFor(r, e, d)
  BY <1>3, EveryJobFor
<1>5. e = Append(<<"candidates">>, d.name) /\ Cell(r, e) = d.name
  BY <1>4 DEF JobFor
<1>6. d.name = c.name
  BY <1>5, AppendTells
<1>7. RenderedBy(r).release # NONE
  BY <1>1, CandidateHasRuntime
<1>8. <<RenderedBy(r).release.version, c.name>> \in Tags
  BY <1>1, <1>7 DEF Tags
<1> QED
  BY <1>3, <1>5, <1>6, <1>8

\* A release run of which every job succeeded has staged every candidate.
LEMMA AllStaged ==
  ASSUME RunsOK, JobsOK, NEW r \in DOMAIN runs, runs[r].event = "tag", Succeeded(r),
         NEW c \in CandidateCells(RenderedBy(r))
  PROVE  <<r, c.name>> \in staged
<1> DEFINE e == Append(<<"candidates">>, c.name)
<1>1. e \in DOMAIN jobs[r] /\ Cell(r, e) = c.name
  BY CandidateEntry
<1> HIDE DEF e
<1>2. PICK d : JobFor(r, e, d)
  BY <1>1, EveryJobFor
<1>3. Program(JobSteps(r, e), 0, 7, {"fetch", "verify", "stage"})
  BY <1>2 DEF JobFor
<1>4. Behind(JobSteps(r, e), Len(JobSteps(r, e)) + 1, "stage")
  BY <1>3, BehindEnd
<1>5. Passed(r, e, "stage")
  BY <1>1, <1>4 DEF Passed, Succeeded, Finished
<1> QED
  BY <1>1, <1>5 DEF JobsOK, JobOK, UsedOK

\* A step of the publisher leaves the runs and their jobs.
LEMMA PublisherKeeps ==
  ASSUME CiInv, RunsOK', PublisherOK',
         UNCHANGED <<ciFile, files, rendering, pending, runs, jobs, cache, registry, staged>>
  PROVE  CiInv'
<1>1. DOMAIN cache' = Keys /\ (\A k \in Keys : cache'[k] \in {NONE, cache[k]})
  BY DEF CiInv, CacheOK
<1>2. JobsOK' /\ StagedOK' /\ CacheOK'
  BY <1>1, QuietKeeps
<1>3. RegistryOK' /\ FilesOK'
  BY DEF CiInv, RegistryOK, FilesOK, Wrote, WillWrite
<1> QED
  BY <1>2, <1>3 DEF CiInv

LEMMA PublisherMoves ==
  ASSUME CiInv, NEW r \in DOMAIN runs, NEW v, publisher' = [publisher EXCEPT ![r] = v],
         UNCHANGED <<ciFile, files, rendering, pending, runs, jobs, cache, registry, staged, destination>>,
         v \in {"publishing", "published"} => runs[r].event = "tag" /\ Succeeded(r),
         v = "published" => \A c \in CandidateCells(RenderedBy(r)) :
            destination[<<RenderedBy(r).release.version, c.name>>] # NONE,
         v # "waiting"
  PROVE  CiInv'
<1>0. RunsOK /\ PublisherOK
  BY DEF CiInv
<1>1. PICK S : publisher \in Seq(S)
  BY <1>0 DEF RunsOK, IsSequence
<1>2. publisher \in Seq(S \cup {v}) /\ r \in DOMAIN publisher
  BY <1>0, <1>1, RunFields
<1>3. publisher' \in Seq(S \cup {v}) /\ Len(publisher') = Len(publisher)
  BY <1>2, Updated
<1>4. RunsOK'
  BY <1>0, <1>3 DEF RunsOK, IsSequence
<1>5. \A q \in DOMAIN runs : publisher'[q] = IF q = r THEN v ELSE publisher[q]
  BY <1>0, RunFields
<1>6. \A q \in DOMAIN runs : (Succeeded(q)' <=> Succeeded(q)) /\ RenderedBy(q)' = RenderedBy(q)
  BY QuietKeeps
<1>7. \A t \in Tags : ReleaseIn(t) => ReleaseIn(t)'
  BY <1>6 DEF ReleaseIn
<1>8. ASSUME NEW q \in DOMAIN runs
      PROVE  /\ publisher'[q] \in {"waiting", "publishing", "published"} => runs[q].event = "tag"
             /\ publisher'[q] \in {"publishing", "published"} => Succeeded(q)
             /\ publisher'[q] = "published" => \A c \in CandidateCells(RenderedBy(q)) :
                  destination[<<RenderedBy(q).release.version, c.name>>] # NONE
  <2>1. CASE q = r
    BY <2>1, <1>5
  <2>2. CASE q # r
    BY <2>2, <1>0, <1>5 DEF PublisherOK
  <2> QED
    BY <2>1, <2>2
<1>9. PublisherOK'
  BY <1>0, <1>6, <1>7, <1>8 DEF PublisherOK
<1> QED
  BY <1>4, <1>9, PublisherKeeps

LEMMA StartPublisherKeeps ==
  ASSUME CiInv, NEW r \in DOMAIN runs, StartPublisher(r) \/ SkipPublisher(r)
  PROVE  CiInv'
<1>1. publisher[r] = "waiting" => runs[r].event = "tag"
  BY DEF CiInv, PublisherOK
<1>2. CASE StartPublisher(r)
  BY <1>1, <1>2, PublisherMoves DEF StartPublisher
<1>3. CASE SkipPublisher(r)
  BY <1>3, PublisherMoves DEF SkipPublisher
<1> QED
  BY <1>2, <1>3

LEMMA FinishPublisherKeeps ==
  ASSUME CiInv, NEW r \in DOMAIN runs, FinishPublisher(r)
  PROVE  CiInv'
<1> DEFINE v == IF Handoffs(r) = {} THEN "failed" ELSE "published"
<1>1. /\ publisher[r] = "publishing" /\ Unpublished(r) = {} /\ publisher' = [publisher EXCEPT ![r] = v]
      /\ UNCHANGED <<ciFile, files, rendering, pending, runs, jobs, cache, registry, staged, destination>>
  BY DEF FinishPublisher
<1>2. RunsOK /\ JobsOK /\ runs[r].event = "tag" /\ Succeeded(r) /\ r \in Nat
  BY <1>1, RunFields DEF CiInv, PublisherOK
<1>3. ASSUME NEW c \in CandidateCells(RenderedBy(r))
      PROVE  destination[<<RenderedBy(r).release.version, c.name>>] # NONE
  <2>1. <<r, c.name>> \in staged
    BY <1>2, AllStaged
  <2>2. <<r, c.name>> \in Handoffs(r)
    BY <2>1 DEF Handoffs
  <2>3. destination[TagOf(r, <<r, c.name>>)] = r
    BY <1>1, <2>2 DEF Unpublished
  <2> QED
    BY <1>2, <2>3, CiAssumption DEF TagOf
<1>4. v \in {"failed", "published"}
  OBVIOUS
<1> HIDE DEF v
<1> QED
  BY <1>1, <1>2, <1>3, <1>4, PublisherMoves

LEMMA PublishCandidateKeeps ==
  ASSUME CiInv, NEW r \in DOMAIN runs, PublishCandidate(r)
  PROVE  CiInv'
<1>1. /\ publisher[r] = "publishing"
      /\ \/ \E s \in Unpublished(r) :
              /\ VerifyStored(Built[s[2]], ReleaseGates(RenderedBy(r))).passed
              /\ destination' = [destination EXCEPT ![TagOf(r, s)] = r]
              /\ UNCHANGED publisher
         \/ publisher' = [publisher EXCEPT ![r] = "failed"] /\ UNCHANGED destination
      /\ UNCHANGED <<ciFile, files, rendering, pending, runs, jobs, cache, registry, staged>>
  BY DEF PublishCandidate
<1>2. CASE publisher' = [publisher EXCEPT ![r] = "failed"] /\ UNCHANGED destination
  BY <1>1, <1>2, PublisherMoves
<1>3. CASE \E s \in Unpublished(r) :
              /\ VerifyStored(Built[s[2]], ReleaseGates(RenderedBy(r))).passed
              /\ destination' = [destination EXCEPT ![TagOf(r, s)] = r]
              /\ UNCHANGED publisher
  <2>1. PICK s \in Unpublished(r) :
              /\ VerifyStored(Built[s[2]], ReleaseGates(RenderedBy(r))).passed
              /\ destination' = [destination EXCEPT ![TagOf(r, s)] = r]
              /\ UNCHANGED publisher
    BY <1>3
  <2>2. RunsOK /\ PublisherOK /\ runs[r].event = "tag" /\ Succeeded(r) /\ r \in Nat
    BY <1>1, RunFields DEF CiInv, PublisherOK
  <2>3. r # NONE
    BY <2>2, CiAssumption
  <2>4. \A q \in DOMAIN runs : (Succeeded(q)' <=> Succeeded(q)) /\ RenderedBy(q)' = RenderedBy(q)
    BY <1>1, QuietKeeps
  <2>5. DOMAIN destination' = Tags
    BY <2>1, <2>2 DEF PublisherOK
  <2>6. ASSUME NEW t \in Tags, destination'[t] # NONE PROVE ReleaseIn(t)'
    <3>1. CASE t = TagOf(r, s)
      <4>1. destination'[t] = r /\ t[2] = s[2]
        BY <3>1, <2>1, <2>2 DEF PublisherOK, TagOf
      <4> QED
        BY <4>1, <1>1, <2>1, <2>2, <2>4 DEF ReleaseIn
    <3>2. CASE t # TagOf(r, s)
      <4>1. destination'[t] = destination[t]
        BY <3>2, <2>1, <2>2 DEF PublisherOK
      <4>2. ReleaseIn(t)
        BY <4>1, <2>2, <2>6 DEF PublisherOK
      <4> QED
        BY <4>1, <4>2, <1>1, <2>4 DEF ReleaseIn
    <3> QED
      BY <3>1, <3>2
  <2>7. ASSUME NEW q \in DOMAIN runs, publisher[q] = "published", NEW c \in CandidateCells(RenderedBy(q))
        PROVE  destination'[<<RenderedBy(q).release.version, c.name>>] # NONE
    <3> DEFINE t == <<RenderedBy(q).release.version, c.name>>
    <3>1. t \in Tags /\ destination[t] # NONE
      BY <2>2, <2>7, CandidateEntry DEF PublisherOK
    <3> QED
      BY <3>1, <2>1, <2>2, <2>3 DEF PublisherOK
  <2>8. PublisherOK'
    BY <1>1, <2>1, <2>2, <2>4, <2>5, <2>6, <2>7 DEF PublisherOK
  <2>9. RunsOK'
    BY <1>1, <2>1, <2>2 DEF RunsOK
  <2> QED
    BY <1>1, <2>8, <2>9, PublisherKeeps
<1> QED
  BY <1>1, <1>2, <1>3

-----------------------------------------------------------------------------
(* The invariant, from the first state on.                                 *)

LEMMA CiInvInit == CiInit => CiInv
<1> SUFFICES ASSUME CiInit PROVE CiInv
  OBVIOUS
<1>1. /\ ciFile = 1 /\ files = [p \in Paths |-> NONE] /\ rendering = 0 /\ pending = <<>>
      /\ runs = <<>> /\ jobs = <<>> /\ publisher = <<>>
      /\ cache = [k \in Keys |-> NONE] /\ registry = {} /\ staged = {}
      /\ destination = [t \in Tags |-> NONE]
  BY DEF CiInit
<1>2. FilesOK
  <2>1. 1 \in DOMAIN CiMatrices
    BY CiAssumption
  <2> QED
    BY <1>1, <2>1 DEF FilesOK, Wrote, WillWrite
<1>3. RunsOK
  <2>1. runs \in Seq([event : Events, rendered : DOMAIN CiMatrices, checkout : DOMAIN CiMatrices])
    BY <1>1
  <2>2. Len(runs) <= MaxRuns /\ DOMAIN runs = {}
    BY <1>1, CiAssumption
  <2> QED
    BY <1>1, <2>1, <2>2 DEF RunsOK, IsSequence
<1>4. DOMAIN runs = {}
  BY <1>1
<1>5. JobsOK /\ CacheOK /\ RegistryOK /\ StagedOK /\ PublisherOK
  BY <1>1, <1>4 DEF JobsOK, CacheOK, RegistryOK, StagedOK, PublisherOK
<1> QED
  BY <1>2, <1>3, <1>5 DEF CiInv

LEMMA CiInvStep == CiInv /\ [CiNext]_ciVars => CiInv'
<1> SUFFICES ASSUME CiInv, [CiNext]_ciVars PROVE CiInv'
  OBVIOUS
<1>1. CASE EditMatrix \/ Generate \/ WriteWorkflow \/ GenerateStops \/ GenerateEnds \/ RemoveStale
  BY <1>1, RepositoryKeeps
<1>2. CASE \E event \in Events : StartRun(event)
  BY <1>2, StartRunKeeps
<1>3. CASE RunStep
  <2>1. PICK r \in DOMAIN runs : PublisherStep(r) \/ \E e \in DOMAIN jobs[r] : EntryStep(r, e)
    BY <1>3 DEF RunStep
  <2>2. CASE PublisherStep(r)
    <3>1. CASE StartPublisher(r) \/ SkipPublisher(r)
      BY <3>1, StartPublisherKeeps
    <3>2. CASE PublishCandidate(r)
      BY <3>2, PublishCandidateKeeps
    <3>3. CASE FinishPublisher(r)
      BY <3>3, FinishPublisherKeeps
    <3> QED
      BY <2>2, <3>1, <3>2, <3>3 DEF PublisherStep
  <2>3. ASSUME NEW e \in DOMAIN jobs[r], EntryStep(r, e) PROVE CiInv'
    <3>1. CASE Validate(r, e)
      BY <3>1, ValidateKeeps
    <3>2. CASE Restore(r, e)
      BY <3>2, RestoreKeeps
    <3>3. CASE Fetch(r, e)
      BY <3>3, FetchKeeps
    <3>4. CASE VerifyAndMaterialize(r, e)
      BY <3>4, VerifyKeeps
    <3>5. CASE Save(r, e)
      BY <3>5, SaveKeeps
    <3>6. CASE Build(r, e)
      BY <3>6, BuildKeeps
    <3>7. CASE StageCandidate(r, e)
      BY <3>7, StageKeeps
    <3> QED
      BY <2>3, <3>1, <3>2, <3>3, <3>4, <3>5, <3>6, <3>7 DEF EntryStep
  <2> QED
    BY <2>1, <2>2, <2>3
<1>4. CASE \E key \in Keys : Evict(key)
  BY <1>4, EvictKeeps
<1>5. CASE OperatorImports
  BY <1>5, OperatorImportsKeeps
<1>6. CASE UNCHANGED ciVars
  <2>1. UNCHANGED <<ciFile, files, rendering, pending, runs, jobs, cache, registry, staged, destination, publisher>>
    BY <1>6 DEF ciVars
  <2>2. FilesOK'
    BY <2>1 DEF CiInv, FilesOK, Wrote, WillWrite
  <2> QED
    BY <2>1, <2>2, FilesKeep
<1> QED
  BY <1>1, <1>2, <1>3, <1>4, <1>5, <1>6 DEF CiNext

-----------------------------------------------------------------------------
(* What the invariant says of the runs.                                    *)

LEMMA InvTypes == CiInv => CiTypeOK
<1> SUFFICES ASSUME CiInv PROVE CiTypeOK
  OBVIOUS
<1>1. DOMAIN jobs = DOMAIN runs /\ Len(runs) = Len(jobs) /\ Len(runs) = Len(publisher) /\ Len(runs) <= MaxRuns
  BY DEF CiInv, RunsOK, IsSequence
<1>2. \A r \in DOMAIN jobs : \A e \in DOMAIN jobs[r] : jobs[r][e].pc \in 0..Finished(r, e)
  BY <1>1 DEF CiInv, JobsOK, JobOK, JobTyped
<1>3. \A k \in Keys : cache[k] = NONE \/ \A n \in cache[k] : DigestOf(n) = k[2]
  BY DEF CiInv, CacheOK, Single
<1>4. ciFile \in Nat /\ rendering \in Nat /\ rendering <= ciFile
  BY CiAssumption DEF CiInv, FilesOK
<1> QED
  BY <1>1, <1>2, <1>3, <1>4 DEF CiInv, FilesOK, CiTypeOK

\* A job that verifies knows its runtime.
LEMMA VerifierKnows ==
  ASSUME RunsOK, NEW r \in DOMAIN runs, NEW e \in DOMAIN jobs[r], Verifies(r, e)
  PROVE  \E c : JobFor(r, e, c) /\ Knows(r, e, c)
<1>1. PICK c : JobFor(r, e, c)
  BY EveryJobFor
<1>2. ~Bare(JobSteps(r, e))
  BY Ranks, EffectiveSteps DEF Verifies, Bare, Program
<1> QED
  BY <1>1, <1>2 DEF JobFor

LEMMA InvCache == CiInv => CacheIsVerified
<1> SUFFICES ASSUME CiInv, NEW k \in Keys, cache[k] # NONE
             PROVE  \E n \in StoredAs(cache[k], k[2]), m \in AllMatrices : \E c \in CellsOf(m.cells) :
                      c.name = k[1] /\ VerifyStored(Artifact(n), GatesOf(m, c)).passed
  BY DEF CacheIsVerified
<1>1. PICK q \in DOMAIN runs : \E f \in DOMAIN jobs[q] :
        KeyOf(q, f) = k /\ jobs[q][f].used # NONE /\ jobs[q][f].used \in cache[k]
  BY DEF CiInv, CacheOK, Origin
<1>2. PICK f \in DOMAIN jobs[q] :
        KeyOf(q, f) = k /\ jobs[q][f].used # NONE /\ jobs[q][f].used \in cache[k]
  BY <1>1
<1> DEFINE n == jobs[q][f].used
           m == RenderedBy(q)
<1>3. /\ Verifies(q, f) /\ DigestOf(n) = Digest(q, f)
      /\ VerifyStored(Artifact(n), EntryGates(q, f)).passed
  BY <1>2 DEF CiInv, JobsOK, JobOK, UsedOK
<1>4. PICK c : JobFor(q, f, c) /\ Knows(q, f, c)
  BY <1>3, VerifierKnows DEF CiInv
<1>5. /\ m \in AllMatrices /\ c \in CellsOf(m.cells)
      /\ Digest(q, f) = c.runtime /\ k = <<c.name, c.runtime>> /\ EntryGates(q, f) = GatesOf(m, c)
  BY <1>2, <1>4 DEF JobFor, Knows
<1>6. n \in StoredAs(cache[k], k[2]) /\ c.name = k[1]
  BY <1>2, <1>3, <1>5 DEF StoredAs
<1>7. VerifyStored(Artifact(n), GatesOf(m, c)).passed
  BY <1>3, <1>5
<1> HIDE DEF n, m
<1> QED
  BY <1>5, <1>6, <1>7

LEMMA InvPublished == CiInv => PublishedIsReleased
<1> SUFFICES ASSUME CiInv PROVE PublishedIsReleased
  OBVIOUS
<1>1. ASSUME NEW t \in Tags, destination[t] # NONE
      PROVE  LET r == destination[t] IN
             /\ runs[r].event = "tag" /\ Succeeded(r)
             /\ VerifyStored(Built[t[2]], ReleaseGates(RenderedBy(r))).passed
             /\ \A c \in CandidateCells(RenderedBy(r)) : <<r, c.name>> \in staged
  <2>1. PICK r \in DOMAIN runs :
          /\ destination[t] = r /\ runs[r].event = "tag" /\ Succeeded(r)
          /\ VerifyStored(Built[t[2]], ReleaseGates(RenderedBy(r))).passed
    BY <1>1 DEF CiInv, PublisherOK, ReleaseIn
  <2>2. \A c \in CandidateCells(RenderedBy(r)) : <<r, c.name>> \in staged
    BY <2>1, AllStaged DEF CiInv
  <2> QED
    BY <2>1, <2>2
<1>2. \A r \in DOMAIN runs : publisher[r] = "published" =>
        \A c \in CandidateCells(RenderedBy(r)) :
            destination[<<RenderedBy(r).release.version, c.name>>] # NONE
  BY DEF CiInv, PublisherOK
<1> QED
  BY <1>1, <1>2 DEF PublishedIsReleased

LEMMA TrustsAreNumbers == ASSUME NEW a \in TrustLevel PROVE a \in Int
  BY DEF TrustLevel, Local, Trusted
LEMMA AtLeastIs ==
  ASSUME NEW a \in Int, NEW b \in Int
  PROVE  AtLeast(a, b) \in {a, b} /\ AtLeast(a, b) >= a /\ (a >= b => AtLeast(a, b) = a)
  BY DEF AtLeast

\* A cell's trust is among the minima of its job.
LEMMA MinimumOfCell ==
  ASSUME NEW m \in AllMatrices, NEW c \in CellsOf(m.cells)
  PROVE  MinimumTrust(m, c) \in TrustLevel /\ MinimumTrust(m, c) >= c.trust /\ c.trust \in TrustLevel
<1>1. {m.trust.pr, m.trust.main} \subseteq TrustLevel /\ c.trust \in TrustLevel
  BY MatrixAssumption
<1>2. Local \in TrustLevel
  BY DEF TrustLevel, Local, Trusted
<1> DEFINE x == CASE c.lane = "pull_request" -> m.trust.pr [] c.lane = "main" -> m.trust.main [] OTHER -> Local
<1>3. x \in TrustLevel
  BY <1>1, <1>2
<1>4. MinimumTrust(m, c) = AtLeast(c.trust, x)
  BY DEF MinimumTrust
<1> HIDE DEF x
<1>5. c.trust \in Int /\ x \in Int
  BY <1>1, <1>3, TrustsAreNumbers
<1>6. AtLeast(c.trust, x) \in {c.trust, x} /\ AtLeast(c.trust, x) >= c.trust
  BY <1>5, AtLeastIs
<1> QED
  BY <1>1, <1>3, <1>4, <1>6

\* Raising gates to what they ask for already changes nothing.
LEMMA GatesRaised ==
  ASSUME NEW a, NEW b, NEW c, NEW d, NEW level, AtLeast(a, level) = a
  PROVE  LET g == [minimum |-> a, sbom |-> b, provenance |-> c, policy |-> d] IN
         [g EXCEPT !.minimum = AtLeast(@, level)] = g
  OBVIOUS

LEMMA InvStaged == CiInv => StagedOnTrustedRuntime
<1> SUFFICES ASSUME CiInv, NEW s \in staged, NEW e \in DOMAIN jobs[s[1]], Cell(s[1], e) = s[2]
             PROVE  LET g == [EntryGates(s[1], e) EXCEPT
                                !.minimum = AtLeast(@, RenderedBy(s[1]).trust.release)] IN
                    /\ jobs[s[1]][e].used # NONE
                    /\ VerifyStored(Artifact(jobs[s[1]][e].used), g).passed
  BY DEF StagedOnTrustedRuntime
<1>1. PICK r \in DOMAIN runs : \E f \in DOMAIN jobs[r] :
        s = <<r, Cell(r, f)>> /\ runs[r].event = "tag" /\ jobs[r][f].used # NONE
  BY DEF CiInv, StagedOK
<1>2. PICK f \in DOMAIN jobs[r] : s = <<r, Cell(r, f)>> /\ jobs[r][f].used # NONE
  BY <1>1
<1>3. RunsOK /\ runs[r].event = "tag" /\ s[1] = r /\ s[2] = Cell(r, f) /\ e \in DOMAIN jobs[r]
      /\ Cell(r, e) = Cell(r, f)
  BY <1>1, <1>2 DEF CiInv
<1>4. PICK c : JobFor(r, e, c)
  BY <1>3, EveryJobFor
<1>5. PICK d : JobFor(r, f, d)
  BY <1>3, EveryJobFor
<1>6. /\ e = Append(<<"candidates">>, c.name) /\ f = Append(<<"candidates">>, d.name)
      /\ Cell(r, e) = c.name /\ Cell(r, f) = d.name
      /\ RenderedBy(r) \in AllMatrices /\ c \in CandidateCells(RenderedBy(r)) /\ Knows(r, e, c)
  BY <1>3, <1>4, <1>5 DEF JobFor
<1>7. jobs[r][e].used # NONE
  BY <1>2, <1>3, <1>6
<1>8. VerifyStored(Artifact(jobs[r][e].used), EntryGates(r, e)).passed
  BY <1>3, <1>7 DEF CiInv, JobsOK, JobOK, UsedOK
<1> DEFINE m == RenderedBy(r)
           flags == EvidenceFlags(RequireEvidence(m, c))
           b == "sbom" \in flags
           p == "provenance" \in flags
           a == MinimumTrust(m, c)
           g == EntryGates(r, e)
<1>9. g = [minimum |-> a, sbom |-> b, provenance |-> p, policy |-> m.trust.policy]
  <2>1. g = GatesOf(m, c)
    BY <1>6 DEF Knows
  <2> QED
    BY <2>1, Zenon DEF GatesOf
<1>10. AtLeast(a, m.trust.release) = a
  <2>1. c \in CellsOf(m.cells) /\ c.trust >= m.trust.release
    BY <1>6, CandidateHasRuntime
  <2>2. m.trust.release \in TrustLevel
    BY <1>6, MatrixAssumption
  <2>3. a \in TrustLevel /\ a >= c.trust /\ c.trust \in TrustLevel
    BY <1>6, <2>1, MinimumOfCell
  <2> HIDE DEF a, m
  <2>4. a \in Int /\ c.trust \in Int /\ m.trust.release \in Int
    BY <2>2, <2>3, TrustsAreNumbers
  <2>5. a >= m.trust.release
    BY <2>1, <2>3, <2>4
  <2> QED
    BY <2>4, <2>5, AtLeastIs
<1> HIDE DEF b, p, a, m, g, flags
<1>11. [g EXCEPT !.minimum = AtLeast(@, m.trust.release)] = g
  BY <1>9, <1>10, GatesRaised
<1>12. VerifyStored(Artifact(jobs[r][e].used), [g EXCEPT !.minimum = AtLeast(@, m.trust.release)]).passed
  BY <1>8, <1>11 DEF g
<1> QED
  BY <1>3, <1>7, <1>12 DEF g, m

\* What is pulled is what the remote holds.
LEMMA PulledIs ==
  ASSUME NEW o \in Names
  PROVE  /\ Artifact(Pushed(o)) = Contents[o] /\ DigestOf(Pushed(o)) = Contents[o].manifest.digest
<1> DEFINE a == Contents[o]
<1>1. a = [manifest |-> a.manifest, trust |-> a.trust, sbom |-> a.sbom, provenance |-> a.provenance]
  BY CiAssumption
<1>2. o # NONE
  BY CiAssumption
<1>3. Pushed(o)[1] = o /\ Pushed(o)[2] = (IF a.sbom = NONE THEN NONE ELSE o)
      /\ Pushed(o)[3] = (IF a.provenance = NONE THEN NONE ELSE o)
  BY DEF Pushed
<1> DEFINE n == Pushed(o)
<1>4. Artifact(n) = [manifest |-> a.manifest, trust |-> a.trust,
                     sbom |-> IF n[2] = NONE THEN NONE ELSE Contents[n[2]].sbom,
                     provenance |-> IF n[3] = NONE THEN NONE ELSE Contents[n[3]].provenance]
  BY <1>3 DEF Artifact
<1>5. (IF n[2] = NONE THEN NONE ELSE Contents[n[2]].sbom) = a.sbom
  BY <1>2, <1>3
<1>6. (IF n[3] = NONE THEN NONE ELSE Contents[n[3]].provenance) = a.provenance
  BY <1>2, <1>3
<1>7. DigestOf(n) = a.manifest.digest
  BY <1>3 DEF DigestOf
<1> HIDE DEF n, a
<1> QED
  BY <1>1, <1>4, <1>5, <1>6, <1>7 DEF n, a

LEMMA ArtifactTrustLevel ==
  ASSUME NEW n \in Triples
  PROVE  Artifact(n).trust \in TrustLevel
<1>1. n[1] \in Names /\ Artifact(n).trust = Contents[n[1]].trust
  BY DEF Triples, Artifact
<1> QED
  BY <1>1, CiAssumption

\* A cached registry is asked for the evidence that the cell asks for.
LEMMA GatesShare ==
  ASSUME NEW r, NEW e, NEW a, VerifyStored(a, CachedGates(r, e)).passed
  PROVE  SbomOk(a, EntryGates(r, e))
<1> DEFINE b == "sbom" \in Get(r, e, "evidence_flags")
           p == "provenance" \in Get(r, e, "evidence_flags")
           least == Get(r, e, "minimum_trust")
           policy == RenderedBy(r).trust.policy
<1>1. CachedGates(r, e) = [minimum |-> Local, sbom |-> b, provenance |-> p, policy |-> NONE]
  BY Zenon DEF CachedGates, JobGates
<1>2. EntryGates(r, e) = [minimum |-> least, sbom |-> b, provenance |-> p, policy |-> policy]
  BY Zenon DEF EntryGates, JobGates
<1> HIDE DEF b, p, least, policy
<1>3. EntryGates(r, e).sbom = CachedGates(r, e).sbom
  BY <1>1, <1>2
<1>4. SbomOk(a, CachedGates(r, e))
  BY DEF VerifyStored
<1> QED
  BY <1>3, <1>4 DEF SbomOk

\* The gates of a job that verifies are those of its cell.
LEMMA EntryGatesTyped ==
  ASSUME RunsOK, NEW r \in DOMAIN runs, NEW e \in DOMAIN jobs[r], Verifies(r, e)
  PROVE  EntryGates(r, e).minimum \in TrustLevel /\ PolicyTyped(EntryGates(r, e).policy)
<1>1. PICK c : JobFor(r, e, c) /\ Knows(r, e, c)
  BY VerifierKnows
<1> DEFINE m == RenderedBy(r)
           flags == EvidenceFlags(RequireEvidence(m, c))
           b == "sbom" \in flags
           p == "provenance" \in flags
           a == MinimumTrust(m, c)
           policy == m.trust.policy
           g == EntryGates(r, e)
<1>2. m \in AllMatrices /\ c \in CellsOf(m.cells)
  BY <1>1 DEF JobFor
<1>3. g = GatesOf(m, c)
  BY <1>1 DEF Knows
<1>4. g = [minimum |-> a, sbom |-> b, provenance |-> p, policy |-> policy]
  BY <1>3, Zenon DEF GatesOf
<1>5. a \in TrustLevel /\ PolicyTyped(policy)
  BY <1>2, MinimumOfCell, MatrixPolicy
<1> HIDE DEF b, p, a, g, m, flags, policy
<1>6. g.minimum = a /\ g.policy = policy
  BY <1>4
<1> QED
  BY <1>5, <1>6 DEF g

LEMMA InvNeutral == CiInv => CacheIsNeutralUntilRaised
<1> SUFFICES ASSUME CiInv, NEW r \in DOMAIN runs, NEW e \in DOMAIN jobs[r],
                    Hosted(r, e), At(r, e, "verify"), PullAccepts(r, e),
                    VerifyStored(Contents[Get(r, e, "runtime_remote")], EntryGates(r, e)).passed,
                    ~Present(r, e, EntryGates(r, e))
             PROVE  /\ jobs[r][e].hit /\ runs[r].event # "tag"
                    /\ \E q \in DOMAIN runs : \E f \in DOMAIN jobs[q] :
                         /\ Cell(q, f) = Cell(r, e)
                         /\ jobs[q][f].used \in jobs[r][e].store
                         /\ \/ EntryGates(q, f).minimum < EntryGates(r, e).minimum
                            \/ EntryGates(q, f).policy # EntryGates(r, e).policy
                            \/ EntryGates(q, f).provenance # EntryGates(r, e).provenance
  BY DEF CacheIsNeutralUntilRaised
<1> DEFINE o == RemoteOf(r, e)
           store == jobs[r][e].store
           h == EntryGates(r, e)
<1>1. RunsOK /\ JobsOK /\ StoreOK(r, e) /\ StoreOf(r, e) = store
  BY DEF CiInv, JobsOK, JobOK, StoreOf
<1>2. /\ o \in Names /\ o # NONE /\ Contents[o].manifest.digest = Digest(r, e)
      /\ VerifyStored(Contents[o], h).passed
  BY CiAssumption DEF PullAccepts, RemoteOf, Digest
<1>3. store # {Pushed(o)}
  <2>1. SUFFICES ASSUME store = {Pushed(o)} PROVE Present(r, e, h)
    OBVIOUS
  <2>2. Artifact(Pushed(o)) = Contents[o] /\ DigestOf(Pushed(o)) = Digest(r, e)
    BY <1>2, PulledIs
  <2>3. Pushed(o) \in StoredAs(StoreOf(r, e), Get(r, e, "runtime_artifact"))
    BY <1>1, <2>1, <2>2 DEF StoredAs, Digest
  <2> QED
    BY <1>2, <2>2, <2>3 DEF Present
<1>4. Passed(r, e, "fetch") /\ Verifies(r, e)
  BY <1>1, EffectiveSteps, Ranks, AtFacts DEF Verifies, At
<1>5. Present(r, e, CachedGates(r, e))
  BY <1>1, <1>2, <1>3, <1>4 DEF StoreOK
<1>6. PICK n \in store : DigestOf(n) = Digest(r, e) /\ VerifyStored(Artifact(n), CachedGates(r, e)).passed
  BY <1>1, <1>5 DEF Present, StoredAs, Digest
<1>7. jobs[r][e].hit /\ runs[r].event # "tag" /\ Origin(KeyOf(r, e), store)
  BY <1>1, <1>3, <1>6 DEF StoreOK
<1>8. PICK q \in DOMAIN runs : \E f \in DOMAIN jobs[q] :
        KeyOf(q, f) = KeyOf(r, e) /\ jobs[q][f].used # NONE /\ jobs[q][f].used \in store
  BY <1>7 DEF Origin
<1>9. PICK f \in DOMAIN jobs[q] :
        KeyOf(q, f) = KeyOf(r, e) /\ jobs[q][f].used # NONE /\ jobs[q][f].used \in store
  BY <1>8
<1> DEFINE g == EntryGates(q, f)
<1>10. Cell(q, f) = Cell(r, e)
  BY <1>9 DEF KeyOf
<1>11. jobs[q][f].used = n /\ n \in Triples
  BY <1>1, <1>6, <1>9 DEF StoreOK, Single
<1>12. Verifies(q, f) /\ VerifyStored(Artifact(n), g).passed
  BY <1>1, <1>9, <1>11 DEF JobsOK, JobOK, UsedOK
<1>13. /\ g.minimum \in TrustLevel /\ PolicyTyped(g.policy)
       /\ h.minimum \in TrustLevel
  BY <1>1, <1>4, <1>12, EntryGatesTyped
<1>14. SbomOk(Artifact(n), h)
  BY <1>6, GatesShare
<1>15. ~VerifyStored(Artifact(n), h).passed
  BY <1>1, <1>6 DEF Present, StoredAs, Digest
<1> HIDE DEF g, h
<1>16. Artifact(n).trust \in TrustLevel
  BY <1>11, ArtifactTrustLevel
<1>17. ~(h.minimum <= g.minimum /\ h.policy = g.policy /\ h.provenance = g.provenance)
  BY <1>12, <1>13, <1>14, <1>15, <1>16, SameJudgement
<1>18. g.minimum \in Int /\ h.minimum \in Int
  BY <1>13, TrustsAreNumbers
<1>19. g.minimum < h.minimum \/ g.policy # h.policy \/ g.provenance # h.provenance
  BY <1>17, <1>18
<1> QED
  BY <1>7, <1>9, <1>10, <1>19 DEF g, h

-----------------------------------------------------------------------------
(* The theorems.                                                           *)

\* The inductive invariant of CI: where a job stands in its workflow, what it
\* staged and verified, what the caches hold and where it came from, and what a
\* generate still has to write fit one another (the jobs of generate_source and
\* generate_binary, run in any order).
THEOREM CiInvHolds == CiSpec => []CiInv
  BY CiInvInit, CiInvStep, PTL DEF CiSpec

\* Whatever matrices main goes through, however many runs they start and
\* however their jobs interleave with evictions and imports: a cache holds what
\* was verified, a candidate is handed over on a runtime of its release's trust,
\* a release is whole, and the cache fails no job until its matrix asks for
\* something else.
THEOREM CiRunsAreTrusted == CiSpec => []RunsAreTrusted
  <1>1. CiInv => RunsAreTrusted
    BY InvTypes, InvCache, InvPublished, InvStaged, InvNeutral DEF RunsAreTrusted
  <1> QED
    BY <1>1, CiInvHolds, PTL

\* ost ci generate: when it reports success, every file of the matrix it read is
\* of that matrix, although earlier ones may have stopped half way and the matrix
\* be edited, runs started and stale files removed between its writes.
THEOREM WorkflowsOfOneMatrix == CiSpec => []NoMixedWorkflows
<1>1. ASSUME CiInv PROVE NoMixedWorkflows
  <2> SUFFICES ASSUME rendering # 0, pending = <<>>, NEW p \in RenderedPaths(rendering)
               PROVE  files[p] = rendering \/ (files[p] = NONE /\ rendering # ciFile)
    BY DEF NoMixedWorkflows
  <2>1. Wrote(p) \/ WillWrite(p)
    BY <1>1 DEF CiInv, FilesOK
  <2>2. ~WillWrite(p)
    BY DEF WillWrite
  <2>3. rendering \in Nat /\ ciFile \in Nat
    BY <1>1, CiAssumption DEF CiInv, FilesOK
  <2> QED
    BY <2>1, <2>2, <2>3 DEF Wrote
<1> QED
  BY <1>1, CiInvHolds, PTL
=============================================================================

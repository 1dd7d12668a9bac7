---------------------------- MODULE ManagedChild ----------------------------
(***************************************************************************)
(* Reporter::run_child (ost-cli/src/progress.rs): one supervised child in  *)
(* its own process group, the two reader threads on its pipes, the phase   *)
(* timeout with its process-tree cleanup, and the signal handler of ost.   *)
(* The processes, the kernel's groups and pids are external.  Unix paths.  *)
(***************************************************************************)
EXTENDS Naturals

CONSTANTS Leader,          \* the child that ost spawns; its pid names the group
          Desc,            \* processes the child may start
          CaptureBytes,    \* CAPTURE_BYTES
          MaxOutput,       \* bound: chunks the tree writes
          ZombieHasGroup   \* whether getpgid answers for an exited, unreaped
                           \* child: the answers of the platforms in scope

Proc == {Leader} \cup Desc

ASSUME LeaderAssumption == Leader \notin Desc
ASSUME BoundsAssumption == CaptureBytes \in Nat /\ MaxOutput \in Nat
ASSUME ZombieAssumption == ZombieHasGroup \subseteq BOOLEAN

VARIABLES at,        \* the supervising thread of ost
          active,    \* interrupt::ACTIVE names the child
          limited,   \* a timeout is configured
          late,      \* and it has passed
          cleanup,   \* what terminate_process_tree reports
          proc,      \* process -> its state
          group,     \* processes in the child's group
          holds,     \* processes with a write end of ost's pipes
          stubborn,  \* processes that ignore SIGTERM
          dying,     \* processes SIGTERM is about to end
          stranger,  \* an unrelated group that reuses the pid
          written,   \* chunks written, chunks not yet read, chunks captured
          unread,
          kept,
          overflowed \* the capture is incomplete

tree == <<proc, group, holds, dying, stranger>>
output == <<written, unread, kept, overflowed>>
choices == <<limited, stubborn>>
childVars == <<at, active, late, cleanup, choices, tree, output>>

Returned == {"returned", "overflowed", "timedOut", "failed"}
Dead == {"interrupted", "blind"}
ChildSteps == {"idle", "spawned", "polling", "waiting", "cleaned", "reaped", "joining"}
           \cup Returned \cup Dead

ChildTypeOK ==
  /\ at \in ChildSteps
  /\ active \in BOOLEAN /\ limited \in BOOLEAN /\ late \in BOOLEAN
  /\ cleanup \in {"none", "terminated", "killed", "childOnly"}
  /\ proc \in [Proc -> {"unborn", "running", "zombie", "reaped", "dead"}]
  /\ \A d \in Desc : proc[d] \notin {"zombie", "reaped"}
  /\ group \subseteq Proc /\ holds \subseteq Proc
  /\ stubborn \subseteq Proc /\ dying \subseteq Proc
  /\ stranger \in {"absent", "running", "killed"}
  /\ written \in 0..MaxOutput /\ unread \in 0..MaxOutput
  /\ kept \in 0..CaptureBytes /\ overflowed \in BOOLEAN

ChildInit ==
  /\ at = "idle" /\ active = FALSE /\ late = FALSE /\ cleanup = "none"
  /\ limited \in BOOLEAN /\ stubborn \in SUBSET Proc
  /\ proc = [p \in Proc |-> "unborn"]
  /\ group = {} /\ holds = {} /\ dying = {} /\ stranger = "absent"
  /\ written = 0 /\ unread = 0 /\ kept = 0 /\ overflowed = FALSE

-----------------------------------------------------------------------------
\* Helpers

Running(p) == proc[p] = "running"

\* What is left of a process that ends: ost has not waited for its child yet.
Remains(p) == IF p = Leader /\ at \notin Dead THEN "zombie" ELSE "dead"

\* SIGKILL to a set of processes.
KillAll(ps, left) ==
  /\ proc' = [p \in Proc |-> CASE p = Leader /\ proc[p] \in {"running", "zombie"} -> left
                               [] p \in ps \ {Leader} /\ Running(p) -> "dead"
                               [] OTHER -> proc[p]]
  /\ holds' = holds \ (ps \cup {Leader})
  /\ dying' = dying \ (ps \cup {Leader})

-----------------------------------------------------------------------------
\* ost: spawn, poll, time out, reap

\* configure_process_group and spawn: the child leads a group of its own.
Spawn ==
  /\ at = "idle"
  /\ at' = "spawned"
  /\ proc' = [proc EXCEPT ![Leader] = "running"]
  /\ group' = {Leader} /\ holds' = {Leader}
  /\ UNCHANGED <<active, late, cleanup, choices, dying, stranger, output>>

SpawnFails ==
  /\ at = "idle"
  /\ at' = "failed"
  /\ UNCHANGED <<active, late, cleanup, choices, tree, output>>

\* interrupt::set_active, then the readers start.
SetActive ==
  /\ at = "spawned"
  /\ at' = "polling" /\ active' = TRUE
  /\ UNCHANGED <<late, cleanup, choices, tree, output>>

\* try_wait returns a status: the pid is free from here on.
Reap ==
  /\ at = "polling" /\ proc[Leader] = "zombie"
  /\ at' = "reaped"
  /\ proc' = [proc EXCEPT ![Leader] = "reaped"]
  /\ UNCHANGED <<active, late, cleanup, choices, group, holds, dying, stranger, output>>

\* try_wait fails: the status was discarded.
WaitFails ==
  /\ at = "polling" /\ proc[Leader] = "zombie"
  /\ at' = "failed" /\ active' = FALSE
  /\ proc' = [proc EXCEPT ![Leader] = "reaped"]
  /\ UNCHANGED <<late, cleanup, choices, group, holds, dying, stranger, output>>

DeadlinePasses ==
  /\ limited /\ ~late /\ at # "idle"
  /\ late' = TRUE
  /\ UNCHANGED <<at, active, cleanup, choices, tree, output>>

\* The limit is checked after try_wait said "still running" and a sleep:
\* SIGTERM to the group.
TimeOut ==
  /\ at = "polling" /\ late
  /\ Running(Leader) \/ TRUE \in ZombieHasGroup
  /\ dying' = dying \cup {p \in group \ stubborn : Running(p)}
  /\ at' = "waiting"
  /\ UNCHANGED <<active, late, cleanup, choices, proc, group, holds, stranger, output>>

\* child_process_group finds no group: only the child is killed and waited for.
TimeOutChildOnly ==
  /\ at = "polling" /\ late
  /\ ~Running(Leader) /\ FALSE \in ZombieHasGroup
  /\ KillAll({}, "reaped")
  /\ cleanup' = "childOnly" /\ at' = "cleaned"
  /\ UNCHANGED <<active, late, choices, group, stranger, output>>

\* One of the twenty polls after SIGTERM sees the child exit: cleanup is over.
ReapTerminated ==
  /\ at = "waiting" /\ proc[Leader] = "zombie"
  /\ proc' = [proc EXCEPT ![Leader] = "reaped"]
  /\ cleanup' = "terminated" /\ at' = "cleaned"
  /\ UNCHANGED <<active, late, choices, group, holds, dying, stranger, output>>

\* Mutant: SIGTERM once more, and wait.
EscalateGently ==
  /\ at = "waiting"
  /\ dying' = dying \cup {p \in group \ stubborn : Running(p)}
  /\ UNCHANGED <<at, active, late, cleanup, choices, proc, group, holds, stranger, output>>

\* Mutant: SIGKILL to the child and not to its group.
EscalateChildOnly ==
  /\ at = "waiting"
  /\ KillAll({}, "reaped")
  /\ cleanup' = "killed" /\ at' = "cleaned"
  /\ UNCHANGED <<active, late, choices, group, stranger, output>>

\* The twenty polls are over: SIGKILL to the group, then wait.
Escalate ==
  /\ at = "waiting"
  /\ KillAll(group, "reaped")
  /\ cleanup' = "killed" /\ at' = "cleaned"
  /\ UNCHANGED <<active, late, choices, group, stranger, output>>

\* Mutant: the timeout path forgets interrupt::clear.
ClearTimedOutNot ==
  /\ at = "cleaned"
  /\ at' = "timedOut"
  /\ UNCHANGED <<active, late, cleanup, choices, tree, output>>

\* interrupt::clear, and the readers are dropped, not joined.
ClearTimedOut ==
  /\ at = "cleaned"
  /\ at' = "timedOut" /\ active' = FALSE
  /\ UNCHANGED <<late, cleanup, choices, tree, output>>

ClearReaped ==
  /\ at = "reaped"
  /\ at' = "joining" /\ active' = FALSE
  /\ UNCHANGED <<late, cleanup, choices, tree, output>>

\* Both readers are joined: they end when nobody holds a write end.
Join ==
  /\ at = "joining"
  /\ unread = 0 /\ \A p \in holds : ~Running(p)
  /\ at' = IF overflowed THEN "overflowed" ELSE "returned"
  /\ UNCHANGED <<active, late, cleanup, choices, tree, output>>

-----------------------------------------------------------------------------
\* The reader threads

\* A read of n chunks: what fits is kept, the rest only counted.
Read(n) ==
  /\ at \notin {"idle", "spawned"} \cup Dead
  /\ n \in 1..unread
  /\ unread' = unread - n
  /\ kept' = IF kept + n <= CaptureBytes THEN kept + n ELSE CaptureBytes
  /\ overflowed' = (overflowed \/ kept + n > CaptureBytes)
  /\ UNCHANGED <<at, active, late, cleanup, choices, tree, written>>

-----------------------------------------------------------------------------
\* The processes (external)

\* A child inherits its parent's group and pipes.
Fork(p, d) ==
  /\ Running(p) /\ proc[d] = "unborn"
  /\ proc' = [proc EXCEPT ![d] = "running"]
  /\ group' = IF p \in group THEN group \cup {d} ELSE group
  /\ holds' = IF p \in holds THEN holds \cup {d} ELSE holds
  /\ UNCHANGED <<at, active, late, cleanup, choices, dying, stranger, output>>

\* setsid: an escaped descendant.
Detach(d) ==
  /\ Running(d) /\ d \in group
  /\ group' = group \ {d}
  /\ UNCHANGED <<at, active, late, cleanup, choices, proc, holds, dying, stranger, output>>

Redirect(d) ==
  /\ Running(d) /\ d \in holds
  /\ holds' = holds \ {d}
  /\ UNCHANGED <<at, active, late, cleanup, choices, proc, group, dying, stranger, output>>

Write(p) ==
  /\ Running(p) /\ p \in holds /\ written < MaxOutput
  /\ written' = written + 1 /\ unread' = unread + 1
  /\ UNCHANGED <<at, active, late, cleanup, choices, tree, kept, overflowed>>

\* A process ends by itself or of a SIGTERM.
Exit(p) ==
  /\ Running(p)
  /\ proc' = [proc EXCEPT ![p] = Remains(p)]
  /\ holds' = holds \ {p} /\ dying' = dying \ {p}
  /\ UNCHANGED <<at, active, late, cleanup, choices, group, stranger, output>>

\* The pid of a reaped child whose group is empty goes to somebody else.
ReusePid ==
  /\ proc[Leader] = "reaped" /\ stranger = "absent"
  /\ \A p \in group : ~Running(p)
  /\ stranger' = "running"
  /\ UNCHANGED <<at, active, late, cleanup, choices, proc, group, holds, dying, output>>

-----------------------------------------------------------------------------
\* The user

\* SIGINT or SIGTERM at any step: on_signal kills the group ACTIVE names, and
\* exits.  "blind" is the documented window before set_active.
Interrupt ==
  /\ at \notin {"idle"} \cup Dead
  /\ IF active
     THEN /\ KillAll(group, "dead")
          /\ stranger' = IF stranger = "running" THEN "killed" ELSE stranger
     ELSE UNCHANGED <<proc, holds, dying, stranger>>
  /\ at' = IF at = "spawned" THEN "blind" ELSE "interrupted"
  /\ UNCHANGED <<active, late, cleanup, choices, group, output>>

OstStep == \/ Spawn \/ SpawnFails \/ SetActive \/ Reap \/ WaitFails
           \/ TimeOut \/ TimeOutChildOnly \/ ReapTerminated \/ Escalate
           \/ ClearTimedOut \/ ClearReaped \/ Join
ReaderStep == \E n \in 1..MaxOutput : Read(n)
TreeStep == \/ \E p \in Proc : Write(p) \/ Exit(p)
            \/ \E d \in Desc : Detach(d) \/ Redirect(d) \/ \E p \in Proc : Fork(p, d)
            \/ ReusePid

ChildNext == OstStep \/ ReaderStep \/ DeadlinePasses \/ TreeStep \/ Interrupt

ChildSpec == ChildInit /\ [][ChildNext]_childVars

\* ost and its readers are scheduled and time passes; the processes and the
\* user owe nothing.
ChildFairSpec == ChildSpec /\ WF_childVars(OstStep) /\ WF_childVars(ReaderStep) /\ WF_childVars(DeadlinePasses)

-----------------------------------------------------------------------------
\* Properties

\* An interrupt before the child is reaped leaves nothing of its group behind
\* (on_signal: "a negative pid signals the group").
InterruptReachesGroup ==
  at = "interrupted" /\ proc[Leader] # "reaped" => \A p \in group : ~Running(p)

\* The only moment an interrupt can reach an unrelated process is between the
\* reaping of the child and interrupt::clear.
StrangerOnlyInTheGap ==
  [][stranger = "running" /\ stranger' = "killed" => at \in {"reaped", "cleaned"}]_childVars

\* "process group killed" is the truth, then and later.
KilledMeansGone == cleanup = "killed" => \A p \in group : ~Running(p)

\* A capture handed to the caller is everything the tree wrote or will write.
CaptureIsWhole == at = "returned" => kept = written

\* With a timeout, a child that is being polled brings run_child to its end,
\* unless a process that outlived the child keeps a pipe open.
BoundedUnlessPipeIsHeld ==
  limited /\ at = "polling" ~> \/ at \in Returned \cup Dead
                               \/ at = "joining" /\ \E p \in holds : Running(p)

-----------------------------------------------------------------------------
(* What run_child owes its child at every step: an interrupt while the     *)
(* child runs reaches its whole group, a group that was killed is gone     *)
(* when ost goes on, and the capture it returns holds all the child wrote. *)
ChildIsAccountedFor ==
    /\ ChildTypeOK
    /\ InterruptReachesGroup
    /\ KilledMeansGone
    /\ CaptureIsWhole
=============================================================================

---------------------------- MODULE LeaseContract ----------------------------
(***************************************************************************)
(* What the target lease promises to the commands that use it, without    *)
(* files, inodes or polling: at most one run holds a managed target, only *)
(* the holder changes the owner record, and a tenure ends either with the *)
(* record cleared or with it left as evidence for the next owner.         *)
(* TargetLease implements this contract, and ManagedTarget builds on it.  *)
(***************************************************************************)
CONSTANTS Run,      \* the invocations of ost that want the target
          Nobody    \* no run: an unlocked target, an empty owner record

VARIABLES holder,   \* the run that holds the kernel lock, or Nobody
          evidence  \* the run the owner record names, or Nobody

vars == <<holder, evidence>>

TypeOK == /\ holder \in Run \cup {Nobody}
          /\ evidence \in Run \cup {Nobody}

Init == holder = Nobody /\ evidence = Nobody

\* The kernel grants the lock to one run of those that ask.
Acquire(r) == /\ holder = Nobody
              /\ holder' = r
              /\ UNCHANGED evidence

\* The holder writes its own record over whatever it found.
Claim(r) == /\ holder = r
            /\ evidence' = r
            /\ UNCHANGED holder

\* The tenure ends: a clean release clears the record, a run that dies or
\* returns early leaves what was there, or an already truncated file.
End(r) == /\ holder = r
          /\ holder' = Nobody
          /\ evidence' \in {evidence, Nobody}

Next == \E r \in Run : Acquire(r) \/ Claim(r) \/ End(r)

Spec == Init /\ [][Next]_vars
=============================================================================

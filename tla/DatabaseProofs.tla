--------------------------- MODULE DatabaseProofs ---------------------------
(***************************************************************************)
(* Proofs about the lease and the migration of the database (Database).    *)
(*                                                                         *)
(* The lease, for any number of processes: the types, that an flock has    *)
(* one holder, and that a lease file in use is never deleted while         *)
(* payloads can be written.  Exclusive holds for two processes that do not *)
(* die in a window; it is false from three on (run lease_exclusive).       *)
(*                                                                         *)
(* The migration, for any projects, any finite set of jobs, any typed      *)
(* database of before and any number of mishaps: it keeps what is owned,   *)
(* what it made is sound, the first database stays in a backup, and a      *)
(* restore is made whole or not at all.                                    *)
(***************************************************************************)
EXTENDS Database, TLAPS, WellFoundedInduction, FiniteSetTheorems


Holding == {"move", "close", "write", "leased", "serving", "failed", "drop"}

\* Labels at which file[p] is an inode that p created itself.
Creators == {"lock", "write", "leased", "serving", "failed", "drop", "unhook", "inspect",
             "restore", "abandon", "unlink"}

\* A process has a tombstone exactly while it must decide what becomes of it, and
\* an inode has one place: lock_path, or the tombstone of one process.
Places ==
    /\ \A p \in Procs : pc[p] \notin Windows => tomb[p] = NoFile
    /\ \A p \in Procs : tomb[p] \in named \union {NoFile}
    /\ \A p \in Procs : path # NoFile => tomb[p] # path
    /\ \A p, q \in Procs : p # q /\ tomb[p] # NoFile => tomb[p] # tomb[q]

\* flock excludes: two holders have opened different inodes.
Locks ==
    /\ \A p \in Procs : held[p] <=> pc[p] \in Holding
    /\ \A p, q \in Procs : p # q /\ held[p] /\ held[q] => file[p] # file[q]

\* O_EXCL makes a new inode each time.
OwnFiles ==
    \A p, q \in Procs :
        p # q /\ pc[p] \in Creators /\ pc[q] \in Creators => file[p] # file[q]

\* A starter that moved the very file it had locked did not move a live lease.
StaleMoved ==
    \A p, q \in Procs :
        At(q, "check") /\ tomb[q] = file[q] /\ Serving(p) => file[p] # file[q]

TypeInv == TypeOK /\ Places

LeaseInv == Locks /\ OwnFiles /\ StaleMoved /\ LeaseFileSurvives

\* The file of a serving process is in place, or another is about to put it back there and
\* nobody has created one in between.
InPlace ==
    \A p \in Procs : Serving(p) =>
        \/ path = file[p]
        \/ path = NoFile /\ \E q \in Procs \ {p} : tomb[q] = file[p]

\* One process and at most one other.
Two == \A p, q, r \in Procs : p = q \/ q = r \/ p = r

\* No label of an unlinking by name is reached.
Writing == pc \in [Procs -> (Running \ {"abandon", "unlink"}) \union Resting]

-----------------------------------------------------------------------------

\* Creation finds an inode that nobody refers to.
LEMMA NewFileIsFresh ==
    ASSUME \E n \in Files : Fresh(n)
    PROVE NewFile \in Files /\ Fresh(NewFile)
BY DEF NewFile

LEMMA TypeInit == Init => TypeInv
BY NoFileAssumption DEF Init, TypeInv, TypeOK, Places, Running, Resting, Opened, Windows

\* A refusal that leaves the disk alone, or puts a tombstone back, keeps both.
LEMMA RefuseTypes ==
    ASSUME TypeInv, NEW p \in Procs, Refuse(p), named' = named,
           path' = path \/ (path = NoFile /\ tomb[p] \in named /\ path' = tomb[p])
    PROVE TypeInv'
<1> USE NoFileAssumption DEF TypeInv, TypeOK, Places, Refuse, Go
<1>1. pc' \in [Procs -> Running \union Resting]
  BY DEF Resting
<1>2. held' \in [Procs -> BOOLEAN]
  OBVIOUS
<1>3. \A q \in Procs :
        /\ q # p => pc'[q] = pc[q] /\ file'[q] = file[q] /\ tomb'[q] = tomb[q]
        /\ q = p => pc'[q] = "refused" /\ file'[q] = NoFile /\ tomb'[q] = NoFile
  OBVIOUS
<1>4. "refused" \notin Opened /\ "refused" \notin Windows
  BY DEF Opened, Running, Windows
<1>5. TypeOK'
  BY <1>1, <1>2, <1>3, <1>4
<1>6. Places'
  BY <1>3, <1>4
<1> QED
  BY <1>5, <1>6

\* The steps of one process keep the types and the places.
LEMMA TypeStep ==
    ASSUME TypeInv, NEW p \in Procs,
           Start(p) \/ Acquire(p) \/ Serve(p) \/ Lose(p) \/ Leave(p) \/ Crash(p)
    PROVE TypeInv'
<1> USE NoFileAssumption DEF TypeInv, TypeOK, Places, Running, Resting, Opened, Windows, At, Go
<1>1. CASE Start(p)
  BY <1>1 DEF Start
<1>2. CASE Create(p)
  <2>1. CASE path = NoFile
    BY <1>2, <2>1, NewFileIsFresh DEF Create, Fresh
  <2>2. CASE path # NoFile /\ At(p, "create")
    BY <1>2, <2>2 DEF Create
  <2>3. CASE path # NoFile /\ At(p, "recreate")
    BY <1>2, <2>3, RefuseTypes DEF Create
  <2> QED
    BY <1>2, <2>1, <2>2, <2>3 DEF Create
<1>3. CASE Lock(p) \/ Probe(p)
  <2>1. CASE Unlocked(file[p])
    BY ZenonT(60), <1>3, <2>1 DEF Lock, Probe
  <2>2. CASE ~Unlocked(file[p])
    BY <1>3, <2>2, RefuseTypes DEF Lock, Probe
  <2> QED
    BY <2>1, <2>2
<1>4. CASE Write(p) \/ WriteFails(p)
  BY ZenonT(60), <1>4 DEF Write, WriteFails
<1>5. CASE Abandon(p)
  <2>1. CASE path = file[p]
    BY <1>5, <2>1 DEF Abandon
  <2>2. CASE path # file[p]
    BY <1>5, <2>2, RefuseTypes DEF Abandon
  <2> QED
    BY <2>1, <2>2
<1>6. CASE Unlink(p)
  BY <1>6 DEF Unlink, Refuse
<1>7. CASE OpenStale(p)
  BY <1>7 DEF OpenStale
<1>8. CASE Move(p)
  <2>1. CASE path = NoFile
    BY <1>8, <2>1, RefuseTypes DEF Move
  <2>2. CASE path # NoFile
    BY <1>8, <2>2 DEF Move
  <2> QED
    BY <2>1, <2>2
<1>9. CASE CloseStale(p)
  BY <1>9 DEF CloseStale
<1>10. CASE Check(p)
  BY <1>10 DEF Check
<1>11. CASE PutBack(p)
  BY <1>11, RefuseTypes DEF PutBack
<1>12. CASE Serve(p) \/ Lose(p)
  BY <1>12 DEF Serve, Lose
<1>13. CASE GiveUp(p)
  BY <1>13 DEF GiveUp, Retire, Leased
<1>14. CASE Release(p) \/ Drop(p)
  <2>1. pc' \in [Procs -> Running \union Resting] /\ held' \in [Procs -> BOOLEAN]
    BY <1>14 DEF Release, Leased, Drop
  <2> QED
    BY <1>14, <2>1 DEF Release, Leased, Drop
<1>15. CASE Unhook(p)
  BY <1>15 DEF Unhook, Retire
<1>16. CASE Inspect(p)
  BY <1>16 DEF Inspect, Retire
<1>17. CASE Restore(p)
  <2>1. pc' = [pc EXCEPT ![p] = "idle"] /\ tomb' = [tomb EXCEPT ![p] = NoFile]
        /\ file' = [file EXCEPT ![p] = NoFile] /\ UNCHANGED <<named, held>>
    BY <1>17 DEF Restore, Retire
  <2>2. path' = path \/ (path = NoFile /\ tomb[p] \in named /\ path' = tomb[p])
    BY <1>17 DEF Restore
  <2>3. TypeOK'
    BY <2>1, <2>2
  <2>4. Places'
    BY <2>1, <2>2
  <2> QED
    BY <2>3, <2>4
<1>18. CASE Crash(p)
  BY <1>18 DEF Crash
<1> QED
  BY <1>1, <1>2, <1>3, <1>4, <1>5, <1>6, <1>7, <1>8, <1>9, <1>10, <1>11, <1>12, <1>13,
     <1>14, <1>15, <1>16, <1>17, <1>18 DEF Acquire, Leave, AfterRelease

\* Every reachable state has its types, for any set of processes and wherever they die.
THEOREM TypeCorrect == Spec => []TypeOK
<1>1. Init => TypeInv
  BY TypeInit
<1>2. TypeInv /\ [Next]_vars => TypeInv'
  <2>1. CASE Next
    BY <2>1, TypeStep DEF Next
  <2>2. CASE UNCHANGED vars
    BY <2>2 DEF TypeInv, TypeOK, Places, vars
  <2> QED
    BY <2>1, <2>2
<1>3. TypeInv => TypeOK
  BY DEF TypeInv
<1> QED
  BY <1>1, <1>2, <1>3, PTL DEF Spec

-----------------------------------------------------------------------------

LEMMA LeaseInit == Init => LeaseInv
BY NoFileAssumption DEF Init, LeaseInv, Locks, OwnFiles, StaleMoved, LeaseFileSurvives, Serving,
   At, Holding, Creators

\* Only the process that steps can disturb the exclusion of its own lock.
LEMMA LocksKept ==
    ASSUME Locks, NEW p \in Procs,
           \A q \in Procs \ {p} : held'[q] = held[q] /\ file'[q] = file[q] /\ pc'[q] = pc[q],
           held'[p] <=> pc'[p] \in Holding,
           held'[p] => \A q \in Procs \ {p} : held[q] => file[q] # file'[p]
    PROVE Locks'
BY DEF Locks

\* flock excludes after every step: only an unlocked inode can be locked, and a
\* holder opens no other one.
LEMMA LocksStep ==
    ASSUME TypeInv, Locks, NEW p \in Procs,
           Start(p) \/ Acquire(p) \/ Serve(p) \/ Lose(p) \/ Leave(p) \/ Crash(p)
    PROVE Locks'
<1>0. /\ held \in [Procs -> BOOLEAN] /\ pc \in [Procs -> Running \union Resting]
      /\ file \in [Procs -> Files \union {NoFile}]
      /\ held[p] <=> pc[p] \in Holding
      /\ held[p] => \A q \in Procs \ {p} : held[q] => file[q] # file[p]
  BY DEF TypeInv, TypeOK, Locks
<1> USE <1>0 DEF Holding, At, Go
<1>1. CASE Refuse(p)
  BY <1>1, LocksKept DEF Refuse
<1>2. CASE /\ UNCHANGED held /\ \A q \in Procs \ {p} : file'[q] = file[q]
           /\ Go(p, pc'[p]) /\ pc[p] \notin Holding /\ pc'[p] \notin Holding
  BY <1>2, LocksKept
<1>3. CASE /\ UNCHANGED <<held, file>>
           /\ Go(p, pc'[p]) /\ pc[p] \in Holding /\ pc'[p] \in Holding
  BY <1>3, LocksKept
<1>4. CASE /\ held' = [held EXCEPT ![p] = FALSE] /\ \A q \in Procs \ {p} : file'[q] = file[q]
           /\ Go(p, pc'[p]) /\ pc'[p] \notin Holding
  BY <1>4, LocksKept
<1>5. CASE /\ held' = [held EXCEPT ![p] = TRUE] /\ UNCHANGED file /\ Unlocked(file[p])
           /\ Go(p, pc'[p]) /\ pc'[p] \in Holding
  BY <1>5, LocksKept DEF Unlocked
<1>6. CASE Start(p)
  BY <1>2, <1>6 DEF Start, Resting
<1>7. CASE Create(p)
  BY <1>1, <1>2, <1>7 DEF Create
<1>8. CASE Lock(p) \/ Probe(p)
  BY <1>1, <1>5, <1>8 DEF Lock, Probe
<1>9. CASE Write(p) \/ Release(p) \/ Serve(p) \/ Lose(p)
  BY <1>3, <1>9 DEF Write, Release, Leased, Serve, Lose
<1>10. CASE WriteFails(p) \/ CloseStale(p) \/ Drop(p) \/ GiveUp(p) \/ Crash(p)
  BY <1>4, <1>10 DEF WriteFails, CloseStale, Drop, GiveUp, Retire, Crash
<1>11. CASE Abandon(p) \/ Unlink(p) \/ PutBack(p)
  BY <1>1, <1>2, <1>11 DEF Abandon, Unlink, PutBack
<1>12. CASE OpenStale(p) \/ Check(p)
  BY <1>2, <1>12 DEF OpenStale, Check
<1>13. CASE Move(p)
  BY <1>1, <1>3, <1>13 DEF Move
<1>14. CASE Unhook(p) \/ Inspect(p) \/ Restore(p)
  BY <1>2, <1>14 DEF Unhook, Inspect, Restore, Retire
<1> QED
  BY <1>6, <1>7, <1>8, <1>9, <1>10, <1>11, <1>12, <1>13, <1>14 DEF Acquire, Leave, AfterRelease

\* A process that steps keeps its own file, or has just created one that nobody
\* refers to.
LEMMA OwnFilesStep ==
    ASSUME TypeInv, OwnFiles, NEW p \in Procs,
           Start(p) \/ Acquire(p) \/ Serve(p) \/ Lose(p) \/ Leave(p) \/ Crash(p)
    PROVE OwnFiles'
<1> USE DEF Creators, At, Go
<1>0. /\ pc \in [Procs -> Running \union Resting]
      /\ file \in [Procs -> Files \union {NoFile}]
  BY DEF TypeInv, TypeOK
<1>1. SUFFICES /\ \A q \in Procs \ {p} : pc'[q] = pc[q] /\ file'[q] = file[q]
               /\ pc'[p] \in Creators => \/ pc[p] \in Creators /\ file'[p] = file[p]
                                         \/ \A q \in Procs \ {p} : file[q] # file'[p]
  BY DEF OwnFiles
<1> USE <1>0
<1>2. CASE Refuse(p)
  BY <1>2 DEF Refuse
<1>3. CASE Retire(p)
  BY <1>3 DEF Retire
<1>4. CASE Create(p)
  BY <1>2, <1>4, NewFileIsFresh DEF Create, Fresh
<1>5. CASE Start(p) \/ OpenStale(p) \/ CloseStale(p) \/ Check(p) \/ Crash(p)
  BY <1>5 DEF Start, OpenStale, CloseStale, Check, Crash
<1>6. CASE Lock(p) \/ Probe(p) \/ Abandon(p) \/ Move(p)
  BY <1>2, <1>6 DEF Lock, Probe, Abandon, Move
<1>7. CASE Unlink(p) \/ PutBack(p)
  BY <1>2, <1>7 DEF Unlink, PutBack
<1>8. CASE Write(p) \/ WriteFails(p) \/ Serve(p) \/ Lose(p) \/ Release(p) \/ Drop(p)
  BY <1>8 DEF Write, WriteFails, Serve, Lose, Release, Leased, Drop
<1>9. CASE Unhook(p) \/ Inspect(p) \/ Restore(p) \/ GiveUp(p)
  BY <1>3, <1>9 DEF GiveUp, Unhook, Inspect, Restore
<1> QED
  BY <1>4, <1>5, <1>6, <1>7, <1>8, <1>9 DEF Acquire, Leave, AfterRelease

\* What a step does to the labels and files that the two last parts speak of: a
\* process serves a file that lock_path names, and reaches "check" as a holder.
LEMMA ServingAndChecking ==
    ASSUME TypeInv, Locks, NEW p \in Procs,
           Start(p) \/ Acquire(p) \/ Serve(p) \/ Lose(p) \/ Leave(p) \/ Crash(p)
    PROVE /\ \A q \in Procs \ {p} : pc'[q] = pc[q] /\ file'[q] = file[q] /\ tomb'[q] = tomb[q]
          /\ pc'[p] = "serving" => file'[p] = file[p] /\ path = file[p] /\ held[p]
          /\ pc'[p] = "check" => file'[p] = file[p] /\ tomb'[p] = tomb[p] /\ held[p]
<1> USE DEF At, Go
<1>0. /\ pc \in [Procs -> Running \union Resting]
      /\ file \in [Procs -> Files \union {NoFile}]
      /\ tomb \in [Procs -> Files \union {NoFile}]
      /\ held[p] <=> pc[p] \in Holding
  BY DEF TypeInv, TypeOK, Locks
<1> USE <1>0
<1>2. CASE Refuse(p)
  BY <1>2 DEF Refuse
<1>3. CASE Retire(p)
  BY <1>3 DEF Retire
<1>4. CASE Start(p) \/ OpenStale(p) \/ Check(p) \/ Crash(p)
  BY <1>4 DEF Start, OpenStale, Check, Crash
<1>5. CASE Create(p) \/ Lock(p) \/ Probe(p) \/ Abandon(p) \/ Move(p)
  BY <1>2, <1>5 DEF Create, Lock, Probe, Abandon, Move
<1>6. CASE Unlink(p) \/ PutBack(p)
  BY <1>2, <1>6 DEF Unlink, PutBack
<1>7. CASE Write(p) \/ WriteFails(p) \/ Lose(p) \/ Release(p) \/ Drop(p)
  BY <1>7 DEF Write, WriteFails, Lose, Release, Drop
<1>8. CASE Serve(p) \/ CloseStale(p)
  BY <1>8 DEF Serve, CloseStale, Holding
<1>9. CASE Unhook(p) \/ Inspect(p) \/ Restore(p) \/ GiveUp(p)
  BY <1>3, <1>9 DEF GiveUp, Unhook, Inspect, Restore
<1> QED
  BY <1>4, <1>5, <1>6, <1>7, <1>8, <1>9 DEF Acquire, Leave, AfterRelease

\* A starter that reaches "check" held the lock a moment ago, so nobody serves the
\* file it holds; and a file in its tombstone is not the one lock_path names.
LEMMA StaleMovedStep ==
    ASSUME TypeInv, Locks, StaleMoved, NEW p \in Procs,
           Start(p) \/ Acquire(p) \/ Serve(p) \/ Lose(p) \/ Leave(p) \/ Crash(p)
    PROVE StaleMoved'
<1> SUFFICES ASSUME NEW s \in Procs, NEW q \in Procs, pc'[q] = "check",
                    tomb'[q] = file'[q], pc'[s] = "serving"
             PROVE file'[s] # file'[q]
  BY DEF StaleMoved, At, Serving
<1>1. CASE q = p
  <2>1. s # p /\ pc[s] = "serving" /\ held[s] /\ held[p]
    BY <1>1, ServingAndChecking DEF Locks, Holding
  <2> QED
    BY <1>1, <2>1, ServingAndChecking DEF Locks
<1>2. CASE s = p
  <2>1. q # p /\ pc[q] = "check" /\ tomb[q] = file[q] /\ path = file[p] /\ file'[p] = file[p]
    BY <1>2, ServingAndChecking
  <2>2. tomb[q] \in Files
    BY <2>1 DEF TypeInv, TypeOK, Windows
  <2> QED
    BY <1>2, <2>1, <2>2, NoFileAssumption, ServingAndChecking DEF TypeInv, Places
<1>3. CASE q # p /\ s # p
  BY <1>3, ServingAndChecking DEF StaleMoved, Serving, At
<1> QED
  BY <1>1, <1>2, <1>3

\* Files are unlinked by their creator, or by a starter that had locked them.
LEMMA SurvivesStep ==
    ASSUME TypeInv, Locks, OwnFiles, StaleMoved, LeaseFileSurvives, Writing, NEW p \in Procs,
           Start(p) \/ Acquire(p) \/ Serve(p) \/ Lose(p) \/ Leave(p) \/ Crash(p)
    PROVE LeaseFileSurvives'
<1> SUFFICES ASSUME NEW s \in Procs, pc'[s] = "serving"
             PROVE file'[s] \in named'
  BY DEF LeaseFileSurvives, Serving, At
<1>1. file'[s] = file[s] /\ file[s] \in named
  <2>1. CASE s = p
    <3>1. path = file[p] /\ held[p] /\ file'[p] = file[p]
      BY <2>1, ServingAndChecking
    <3>2. file[p] \in Files
      BY <3>1 DEF Locks, Holding, TypeInv, TypeOK, Opened, Running
    <3> QED
      BY <2>1, <3>1, <3>2, NoFileAssumption DEF TypeInv, TypeOK
  <2>2. CASE s # p
    BY <2>2, ServingAndChecking DEF LeaseFileSurvives, Serving, At
  <2> QED
    BY <2>1, <2>2
<1>2. CASE named \subseteq named'
  BY <1>1, <1>2
<1>3. CASE Check(p)
  BY <1>1, <1>2, <1>3, ServingAndChecking DEF Check, StaleMoved, Serving, At, Go, TypeInv, TypeOK
<1>4. CASE Inspect(p)
  BY <1>1, <1>2, <1>4, ServingAndChecking
     DEF Inspect, Retire, OwnFiles, Creators, At, Go, TypeInv, TypeOK
<1>5. ~Unlink(p)
  BY DEF Writing, Unlink, At, Running, Resting
<1>6. CASE Start(p) \/ Create(p) \/ Lock(p) \/ Write(p) \/ WriteFails(p) \/ Abandon(p)
           \/ OpenStale(p) \/ Probe(p) \/ Move(p) \/ CloseStale(p) \/ PutBack(p)
  BY <1>2, <1>6 DEF Start, Create, Lock, Write, WriteFails, Abandon, OpenStale, Probe, Move,
     CloseStale, PutBack
<1>7. CASE Serve(p) \/ Lose(p) \/ Release(p) \/ GiveUp(p) \/ Drop(p) \/ Unhook(p) \/ Restore(p) \/ Crash(p)
  BY <1>2, <1>7 DEF Serve, Lose, Release, GiveUp, Drop, Unhook, Restore, Crash
<1> QED
  BY <1>3, <1>4, <1>5, <1>6, <1>7 DEF Acquire, Leave, AfterRelease

\* When payloads can always be written, nobody is about to unlink by name.
LEMMA WritingStep ==
    ASSUME ~WritesMayFail, TypeInv, Writing, NEW p \in Procs,
           Start(p) \/ Acquire(p) \/ Serve(p) \/ Lose(p) \/ Leave(p) \/ Crash(p)
    PROVE Writing'
<1> USE DEF Writing, Running, Resting, At, Go
<1>1. CASE Refuse(p)
  BY <1>1 DEF Refuse
<1>2. CASE Retire(p)
  BY <1>2 DEF Retire
<1>3. CASE Start(p) \/ OpenStale(p) \/ CloseStale(p) \/ Check(p) \/ Crash(p)
  BY <1>3 DEF Start, OpenStale, CloseStale, Check, Crash
<1>4. CASE Create(p) \/ Lock(p) \/ Probe(p) \/ Move(p)
  BY <1>1, <1>4 DEF Create, Lock, Probe, Move
<1>5. CASE Unlink(p) \/ PutBack(p)
  BY <1>1, <1>5 DEF Unlink, PutBack
<1>6. CASE Write(p) \/ Serve(p) \/ Lose(p) \/ Release(p) \/ Drop(p)
  BY <1>6 DEF Write, Serve, Lose, Release, Drop
<1>7. CASE Unhook(p) \/ Inspect(p) \/ Restore(p) \/ GiveUp(p)
  BY <1>2, <1>7 DEF GiveUp, Unhook, Inspect, Restore
<1>8. ~WriteFails(p) /\ ~Abandon(p)
  BY DEF WriteFails, Abandon
<1> QED
  BY <1>3, <1>4, <1>5, <1>6, <1>7, <1>8 DEF Acquire, Leave, AfterRelease

\* As long as payloads can be written, no file is unlinked while its creator serves,
\* for any number of processes dying anywhere: the takeover and the release only
\* delete what they have compared with the inode they locked or created.
THEOREM LeaseFileSurvivesAlways ==
    ASSUME ~WritesMayFail
    PROVE Spec => []LeaseFileSurvives
<1> DEFINE IInv == TypeInv /\ Locks /\ OwnFiles /\ StaleMoved /\ LeaseFileSurvives /\ Writing
<1>1. Init => IInv
  BY TypeInit, LeaseInit DEF LeaseInv, Init, Writing, Running, Resting
<1>2. IInv /\ [Next]_vars => IInv'
  <2>1. CASE Next
    BY <2>1, TypeStep, LocksStep, OwnFilesStep, StaleMovedStep, SurvivesStep, WritingStep DEF Next
  <2>2. CASE UNCHANGED vars
    BY <2>2 DEF TypeInv, TypeOK, Places, Locks, OwnFiles, StaleMoved, LeaseFileSurvives, Writing,
       Serving, At, vars
  <2> QED
    BY <2>1, <2>2
<1>3. IInv => LeaseFileSurvives
  OBVIOUS
<1> QED
  BY <1>1, <1>2, <1>3, PTL DEF Spec

-----------------------------------------------------------------------------
(* Two processes.                                                          *)

\* While a process serves, what the other one does to lock_path is to take the file away
\* and to put it back.
LEMMA InPlaceStep ==
    ASSUME TypeInv, Locks, OwnFiles, StaleMoved, Writing, InPlace, Two,
           CrashAt \cap Windows = {}, NEW p \in Procs,
           Start(p) \/ Acquire(p) \/ Serve(p) \/ Lose(p) \/ Leave(p) \/ Crash(p)
    PROVE InPlace'
<1> SUFFICES ASSUME NEW s \in Procs, pc'[s] = "serving"
             PROVE \/ path' = file'[s]
                   \/ path' = NoFile /\ \E q \in Procs \ {s} : tomb'[q] = file'[s]
  BY DEF InPlace, Serving, At
<1> USE DEF At, Go
<1>0. /\ file \in [Procs -> Files \union {NoFile}] /\ tomb \in [Procs -> Files \union {NoFile}]
      /\ pc \in [Procs -> Running \union Resting]
      /\ \A q \in Procs : pc[q] \notin Windows => tomb[q] = NoFile
  BY DEF TypeInv, TypeOK, Places
<1>1. CASE s = p
  <2>1. file'[p] = file[p] /\ path = file[p]
    BY <1>1, ServingAndChecking
  <2>2. Serve(p)
    BY <1>0, <1>1 DEF Start, Acquire, Lose, Leave, Crash, Create, Lock, Write, WriteFails, Abandon,
       Unlink, OpenStale, Probe, Move, CloseStale, Check, PutBack, Release, GiveUp, AfterRelease,
       Drop, Unhook, Inspect, Restore, Refuse, Retire
  <2> QED
    BY <1>1, <2>1, <2>2 DEF Serve
<1>2. CASE s # p
  <2>1. pc[s] = "serving" /\ file'[s] = file[s] /\ file[s] \in Files
    BY <1>2, ServingAndChecking DEF TypeInv, TypeOK, Opened, Running
  <2>2. path = file[s] \/ (path = NoFile /\ tomb[p] = file[s])
    BY <1>2, <2>1 DEF InPlace, Serving, Two
  <2>3. tomb[p] = NoFile => path = file[s]
    BY <2>1, <2>2, NoFileAssumption
  <2>4. CASE UNCHANGED <<path, tomb>>
    BY <1>2, <2>1, <2>2, <2>4
  <2>5. CASE path' = path /\ path = file[s]
    BY <2>1, <2>5
  <2>6. CASE path' = NoFile /\ tomb' = [tomb EXCEPT ![p] = path] /\ path = file[s]
    BY <1>0, <1>2, <2>1, <2>6
  <2>7. CASE path' = IF path = NoFile THEN tomb[p] ELSE path
    BY <2>1, <2>2, <2>7, NoFileAssumption
  <2>8. pc[p] \notin Windows => path = file[s]
    BY <1>0, <2>3
  <2>9. CASE Start(p) \/ Write(p) \/ WriteFails(p) \/ OpenStale(p) \/ CloseStale(p) \/ Serve(p)
             \/ Lose(p) \/ Release(p) \/ Drop(p)
    BY <2>4, <2>9 DEF Start, Write, WriteFails, OpenStale, CloseStale, Serve, Lose, Release, Drop
  <2>10. CASE Create(p)
    <3>1. path = file[s]
      BY <2>8, <2>10 DEF Create, Windows
    <3>2. path # NoFile
      BY <2>1, <3>1, NoFileAssumption
    <3> QED
      BY <2>5, <2>10, <3>1, <3>2 DEF Create
  <2>11. CASE Lock(p) \/ Probe(p) \/ Abandon(p)
    BY <2>5, <2>8, <2>11 DEF Lock, Probe, Abandon, Windows
  <2>12. CASE Move(p)
    BY <2>5, <2>6, <2>8, <2>12 DEF Move, Windows
  <2>13. CASE Check(p)
    <3>1. tomb[p] = file[p] => tomb[p] # file[s]
      BY <2>1, <2>13 DEF StaleMoved, Serving, Check
    <3> QED
      BY <2>2, <2>4, <2>5, <2>13, <3>1 DEF Check
  <2>14. CASE PutBack(p) \/ Restore(p)
    BY <2>7, <2>14 DEF PutBack, Restore
  <2>15. CASE Unhook(p)
    BY <2>5, <2>6, <2>8, <2>15 DEF Unhook, Windows
  <2>16. CASE Inspect(p)
    <3>1. file[p] # file[s]
      BY <1>2, <2>1, <2>16 DEF OwnFiles, Creators, Inspect
    <3> QED
      BY <2>2, <2>4, <2>5, <2>16, <3>1 DEF Inspect
  <2>17. CASE GiveUp(p) \/ Crash(p)
    BY <2>5, <2>8, <2>17 DEF GiveUp, Crash, Leased, Windows
  <2>18. ~Unlink(p)
    BY DEF Writing, Unlink, Running, Resting
  <2> QED
    BY <2>9, <2>10, <2>11, <2>12, <2>13, <2>14, <2>15, <2>16, <2>17, <2>18
       DEF Acquire, Leave, AfterRelease
<1> QED
  BY <1>1, <1>2

\* Of two processes that start on the same database one serves at a time, and what a refused
\* or dead one leaves never takes the lease file of the other away: as long as neither dies
\* between a rename and the step that undoes it, and payloads can be written.
THEOREM TwoProcessesExclude ==
    ASSUME Two, ~WritesMayFail, CrashAt \cap Windows = {}
    PROVE Spec => [](Exclusive /\ UndisturbedLeaseIsInPlace)
<1> DEFINE IInv == /\ TypeInv /\ Locks /\ OwnFiles /\ StaleMoved /\ LeaseFileSurvives /\ Writing
                   /\ InPlace
<1>1. Init => IInv
  BY TypeInit, LeaseInit DEF LeaseInv, Init, Writing, Running, Resting, InPlace, Serving, At
<1>2. IInv /\ [Next]_vars => IInv'
  <2>1. CASE Next
    BY <2>1, TypeStep, LocksStep, OwnFilesStep, StaleMovedStep, SurvivesStep, WritingStep,
       InPlaceStep DEF Next
  <2>2. CASE UNCHANGED vars
    BY <2>2 DEF TypeInv, TypeOK, Places, Locks, OwnFiles, StaleMoved, LeaseFileSurvives, Writing,
       InPlace, Serving, At, vars
  <2> QED
    BY <2>1, <2>2
<1>3. IInv => Exclusive /\ UndisturbedLeaseIsInPlace
  <2> SUFFICES ASSUME IInv
               PROVE  Exclusive /\ UndisturbedLeaseIsInPlace
    OBVIOUS
  <2>1. \A p \in Procs : Serving(p) => file[p] \in Files /\ pc[p] \in Creators
    BY DEF TypeInv, TypeOK, Serving, At, Opened, Running, Creators
  <2>2. ASSUME NEW p \in Procs, NEW q \in Procs, Serving(p), Serving(q), p # q
        PROVE  FALSE
    <3>1. tomb[p] = NoFile /\ tomb[q] = NoFile
      BY <2>2 DEF TypeInv, Places, Serving, At, Windows
    <3>2. path = file[p] /\ path = file[q]
      BY <2>1, <2>2, <3>1, NoFileAssumption DEF InPlace, Two
    <3> QED
      BY <2>1, <2>2, <3>2 DEF OwnFiles
  <2>3. ASSUME NEW p \in Procs, Serving(p), \A q \in Procs \ {p} : pc[q] \in Resting
        PROVE  path = file[p]
    <3>1. \A q \in Procs \ {p} : tomb[q] = NoFile
      BY <2>3 DEF TypeInv, Places, Resting, Windows
    <3> QED
      BY <2>1, <2>3, <3>1, NoFileAssumption DEF InPlace
  <2> QED
    BY <2>2, <2>3 DEF Exclusive, UndisturbedLeaseIsInPlace
<1> QED
  BY <1>1, <1>2, <1>3, PTL DEF Spec

-----------------------------------------------------------------------------
(* The migration.                                                          *)

-----------------------------------------------------------------------------
(* The repair: its iteration ends at the owned jobs.                       *)

\* Migrations counts with the sets of its own.
LEMMA SameFiniteSets ==
  M!IsFiniteSet(Jobs) = IsFiniteSet(Jobs) /\ M!Cardinality(Jobs) = Cardinality(Jobs)
BY DEF M!IsFiniteSet, IsFiniteSet, M!Cardinality, Cardinality

\* A set of natural numbers that is not empty has a smallest element.
LEMMA Smallest ==
  ASSUME NEW T \in SUBSET Nat, T # {}
  PROVE  \E m \in T : \A x \in T : m <= x
<1>1. PICK m \in T : \A x \in T : ~(<<x, m>> \in OpToRel(<, Nat))
  BY NatLessThanWellFounded, WFMin, Zenon
<1>2. ASSUME NEW x \in T PROVE m <= x
  <2>1. x \in Nat /\ m \in Nat
    OBVIOUS
  <2>2. ~(x < m)
    BY <1>1, <2>1 DEF OpToRel
  <2> QED BY <2>1, <2>2
<1> QED BY <1>2

\* The first m steps of the repair, from the jobs of a project that is there.
Steps(f, r, base, m) ==
  f[0] = base /\ \A n \in 1 .. m : f[n] = M!Survivors(r, f[n - 1])

\* However many steps are asked for, there is a function that makes them.
LEMMA StepsExist ==
  ASSUME NEW r, NEW base, NEW k \in Nat
  PROVE  \E f \in [0 .. k -> SUBSET base] : Steps(f, r, base, k)
<1> DEFINE Makes(m) == \E f \in [0 .. m -> SUBSET base] : Steps(f, r, base, m)
           T == {m \in Nat : ~Makes(m)}
<1> SUFFICES ASSUME T # {} PROVE FALSE
  OBVIOUS
<1>1. PICK m \in T : \A x \in T : m <= x
  BY Smallest, T \in SUBSET Nat
<1>2. m # 0
  <2> DEFINE f == [n \in 0 .. 0 |-> base]
  <2>1. f \in [0 .. 0 -> SUBSET base] /\ f[0] = base
    OBVIOUS
  <2>2. Steps(f, r, base, 0)
    BY <2>1 DEF Steps
  <2> HIDE DEF f
  <2>3. Makes(0)
    BY <2>1, <2>2
  <2> QED BY <1>1, <2>3
<1>3. m \in Nat /\ m - 1 \in Nat
  BY <1>1, <1>2
<1>4. Makes(m - 1)
  BY <1>1, <1>3
<1>5. PICK f \in [0 .. m - 1 -> SUBSET base] : Steps(f, r, base, m - 1)
  BY <1>4
<1> DEFINE g == [n \in 0 .. m |-> IF n = m THEN M!Survivors(r, f[m - 1]) ELSE f[n]]
<1>6. g \in [0 .. m -> SUBSET base]
  <2>1. f[m - 1] \in SUBSET base
    BY <1>3, <1>5
  <2>2. M!Survivors(r, f[m - 1]) \in SUBSET base
    BY <2>1 DEF M!Survivors
  <2>3. ASSUME NEW n \in 0 .. m, n # m PROVE f[n] \in SUBSET base
    BY <1>3, <1>5, <2>3
  <2> QED BY <2>2, <2>3
<1>7. g[0] = base /\ g[m] = M!Survivors(r, f[m - 1]) /\ \A n \in 0 .. m - 1 : g[n] = f[n]
  BY <1>2, <1>3, <1>5 DEF Steps
<1> HIDE DEF g
<1>8. Steps(g, r, base, m)
  <2>1. ASSUME NEW n \in 1 .. m PROVE g[n] = M!Survivors(r, g[n - 1])
    <3>1. g[n - 1] = f[n - 1]
      BY <1>3, <1>7
    <3>2. CASE n = m
      BY <1>7, <3>1, <3>2
    <3>3. CASE n # m
      BY <1>3, <1>5, <1>7, <3>1, <3>3 DEF Steps
    <3> QED BY <3>2, <3>3
  <2> QED BY <1>7, <2>1 DEF Steps
<1>9. Makes(m)
  BY <1>6, <1>8
<1> QED BY <1>1, <1>9

\* The jobs of a project that is there.
Attached(r) == {j \in M!JobsOf(r) : r.job[j].project \in r.projects}

\* The recursive function of KeptJobs makes the steps.
LEMMA KeptJobsSteps ==
  ASSUME NEW r, IsFiniteSet(Jobs)
  PROVE  \E f \in [0 .. Cardinality(Jobs) -> SUBSET Attached(r)] :
            Steps(f, r, Attached(r), Cardinality(Jobs)) /\ M!KeptJobs(r) = f[Cardinality(Jobs)]
<1> DEFINE k == Cardinality(Jobs)
           base == Attached(r)
           Body(f) == [n \in 0 .. k |-> IF n = 0 THEN base ELSE M!Survivors(r, f[n - 1])]
<1>1. k \in Nat
  BY FS_CardinalityType
<1>2. PICK f \in [0 .. k -> SUBSET base] : Steps(f, r, base, k)
  BY <1>1, StepsExist
<1>3. f = Body(f)
  <2>1. ASSUME NEW n \in 0 .. k PROVE f[n] = IF n = 0 THEN base ELSE M!Survivors(r, f[n - 1])
    <3>1. CASE n = 0
      BY <1>2, <3>1 DEF Steps
    <3>2. CASE n # 0
      BY <1>1, <1>2, <3>2 DEF Steps
    <3> QED BY <3>1, <3>2
  <2> HIDE DEF base
  <2> QED BY <1>2, <2>1
<1> DEFINE h == CHOOSE g : g = Body(g)
<1>4. h = Body(h)
  BY <1>3
<1>5. M!KeptJobs(r) = h[k]
  BY SameFiniteSets DEF M!KeptJobs, Attached
<1>6. \A n \in 0 .. k : h[n] = IF n = 0 THEN base ELSE M!Survivors(r, h[n - 1])
  <2> HIDE DEF base, h
  <2> QED BY <1>4
<1> HIDE DEF base, h, k
<1>7. h[k] = f[k]
  <2> DEFINE T == {n \in 0 .. k : h[n] # f[n]}
  <2> SUFFICES ASSUME T # {} PROVE FALSE
    BY <1>1
  <2>1. PICK n \in T : \A x \in T : n <= x
    BY <1>1, Smallest, T \in SUBSET Nat
  <2>2. n # 0
    BY <1>1, <1>2, <1>6, <2>1 DEF Steps
  <2>3. n - 1 \in 0 .. k /\ n - 1 \notin T /\ n \in 1 .. k
    BY <1>1, <2>1, <2>2
  <2>4. h[n - 1] = f[n - 1]
    BY <2>3
  <2>5. h[n] = f[n]
    BY <1>2, <1>6, <2>2, <2>3, <2>4 DEF Steps
  <2> QED BY <2>1, <2>5
<1> QED BY <1>2, <1>5, <1>7 DEF base, k

\* A set of jobs in which every parent is.
Closed(r, s) == \A j \in s : r.job[j].parent \in s \cup {None}

\* The steps only remove, and never a job of a closed set.
LEMMA StepsKeepClosed ==
  ASSUME NEW r, NEW base, NEW k \in Nat, NEW f \in [0 .. k -> SUBSET base], Steps(f, r, base, k),
         NEW s \in SUBSET base, Closed(r, s)
  PROVE  s \subseteq f[k]
<1> DEFINE T == {n \in 0 .. k : ~(s \subseteq f[n])}
<1> SUFFICES ASSUME T # {} PROVE FALSE
  OBVIOUS
<1>1. PICK n \in T : \A x \in T : n <= x
  BY Smallest, T \in SUBSET Nat
<1>2. n # 0
  BY <1>1 DEF Steps
<1>3. n - 1 \in 0 .. k /\ n - 1 \notin T /\ n \in 1 .. k
  BY <1>1, <1>2
<1>4. s \subseteq f[n - 1]
  BY <1>3
<1>5. f[n] = M!Survivors(r, f[n - 1])
  BY <1>3 DEF Steps
<1>6. s \subseteq f[n]
  BY <1>4, <1>5 DEF M!Survivors, M!ParentMissing, Closed
<1> QED BY <1>1, <1>6

\* With as many steps as there are elements the last one changes nothing any more.
LEMMA StepsEnd ==
  ASSUME NEW r, NEW base, IsFiniteSet(base), NEW k \in Nat, Cardinality(base) <= k,
         NEW f \in [0 .. k -> SUBSET base], Steps(f, r, base, k)
  PROVE  M!Survivors(r, f[k]) = f[k]
<1> DEFINE Stable(n) == M!Survivors(r, f[n]) = f[n]
           T == {n \in 0 .. k : ~(Stable(n) \/ Cardinality(f[n]) <= k - n)}
<1>0. ASSUME NEW n \in 0 .. k
      PROVE  IsFiniteSet(f[n]) /\ Cardinality(f[n]) \in Nat
  BY <1>0, FS_Subset, FS_CardinalityType
<1>1. SUFFICES T = {}
  <2>1. k \in 0 .. k /\ k \notin T
    BY <1>1
  <2>2. CASE Stable(k)
    BY <2>2
  <2>3. CASE Cardinality(f[k]) <= k - k
    <3>1. Cardinality(f[k]) = 0 /\ IsFiniteSet(f[k])
      BY <1>0, <2>1, <2>3
    <3>2. f[k] = {}
      BY <3>1, FS_EmptySet
    <3> QED BY <3>2 DEF M!Survivors
  <2> QED BY <2>1, <2>2, <2>3
<1> SUFFICES ASSUME T # {} PROVE FALSE
  OBVIOUS
<1>2. PICK n \in T : \A x \in T : n <= x
  BY Smallest, T \in SUBSET Nat
<1>3. n # 0
  BY <1>2 DEF Steps
<1>4. n - 1 \in 0 .. k /\ n - 1 \notin T /\ n \in 1 .. k
  BY <1>2, <1>3
<1>5. f[n] = M!Survivors(r, f[n - 1])
  BY <1>4 DEF Steps
<1>6. CASE Stable(n - 1)
  <2>1. f[n] = f[n - 1]
    BY <1>5, <1>6
  <2>2. Stable(n)
    BY <1>6, <2>1
  <2> QED BY <1>2, <2>2
<1>7. CASE ~Stable(n - 1)
  <2>1. Cardinality(f[n - 1]) <= k - (n - 1)
    BY <1>4, <1>7
  <2>2. f[n] \in SUBSET f[n - 1] /\ f[n] # f[n - 1]
    BY <1>5, <1>7 DEF M!Survivors
  <2>3. Cardinality(f[n]) <= Cardinality(f[n - 1]) /\ Cardinality(f[n]) # Cardinality(f[n - 1])
    <3>1. IsFiniteSet(f[n - 1])
      BY <1>0, <1>4
    <3> QED BY <2>2, <3>1, FS_Subset
  <2>4. Cardinality(f[n]) \in Nat /\ Cardinality(f[n - 1]) \in Nat
    BY <1>0, <1>4
  <2>5. Cardinality(f[n]) <= k - n
    BY <1>4, <2>1, <2>3, <2>4
  <2> QED BY <1>2, <2>5
<1> QED BY <1>6, <1>7

\* The jobs the repair keeps are closed, ...
LEMMA KeptJobsClosed ==
  ASSUME NEW r, IsFiniteSet(Jobs)
  PROVE  M!KeptJobs(r) \subseteq Attached(r) /\ Closed(r, M!KeptJobs(r))
<1> DEFINE k == Cardinality(Jobs)
<1>1. Attached(r) \in SUBSET Jobs
  BY DEF Attached, M!JobsOf
<1>2. IsFiniteSet(Attached(r)) /\ Cardinality(Attached(r)) <= k /\ k \in Nat
  BY <1>1, FS_Subset, FS_CardinalityType
<1>3. PICK f \in [0 .. k -> SUBSET Attached(r)] :
         Steps(f, r, Attached(r), k) /\ M!KeptJobs(r) = f[k]
  BY KeptJobsSteps
<1>4. M!Survivors(r, f[k]) = f[k]
  <2> HIDE DEF k
  <2> QED BY <1>2, <1>3, StepsEnd
<1>5. k \in 0 .. k
  BY <1>2
<1> HIDE DEF k
<1> QED BY <1>3, <1>4, <1>5 DEF M!Survivors, M!ParentMissing, Closed

\* ... and every closed set of attached jobs is kept: what is kept is what is owned.
LEMMA KeptJobsLargest ==
  ASSUME NEW r, IsFiniteSet(Jobs), NEW s \in SUBSET Attached(r), Closed(r, s)
  PROVE  s \subseteq M!KeptJobs(r)
<1> DEFINE k == Cardinality(Jobs)
<1>1. k \in Nat
  BY FS_CardinalityType
<1>2. PICK f \in [0 .. k -> SUBSET Attached(r)] :
         Steps(f, r, Attached(r), k) /\ M!KeptJobs(r) = f[k]
  BY KeptJobsSteps
<1> HIDE DEF k
<1> QED BY <1>1, <1>2, StepsKeepClosed

\* The repair keeps the jobs that are owned.
LEMMA KeptIsOwned ==
  ASSUME NEW r, IsFiniteSet(Jobs)
  PROVE  M!KeptJobs(r) = M!Owned(r)
<1>1. ASSUME NEW j \in M!Owned(r) PROVE j \in M!KeptJobs(r)
  <2>1. PICK s \in SUBSET Attached(r) : Closed(r, s) /\ j \in s
    BY <1>1 DEF M!Owned, Attached, Closed
  <2> QED BY <2>1, KeptJobsLargest
<1>2. M!KeptJobs(r) \subseteq M!Owned(r)
  BY KeptJobsClosed DEF M!Owned, Attached, Closed
<1> QED BY <1>1, <1>2
-----------------------------------------------------------------------------
(* The data: rows, and what the repair and a deletion make of them.        *)

\* The fields of a row set.
LEMMA RowFields ==
  ASSUME NEW r \in M!Rows
  PROVE  /\ r.projects \in SUBSET Projects /\ r.blocks \in SUBSET Projects
         /\ r.job \in [Jobs -> M!JobRow \cup {None}]
         /\ r.calls \in SUBSET Jobs /\ r.artifact \in M!Artifact \cup {None}
         /\ r.current \in SUBSET Projects
  BY DEF M!Rows

\* A job that is there has a project and a parent, an artifact a project and a job.
LEMMA JobFields ==
  ASSUME M!LegacyIsTyped, NEW r \in M!Rows
  PROVE  /\ \A j \in M!JobsOf(r) : /\ j \in Jobs /\ r.job[j] \in M!JobRow
                                   /\ r.job[j].project \in Projects
                                   /\ r.job[j].parent \in Jobs \cup {None}
         /\ r.artifact # None => /\ r.artifact \in M!Artifact
                                 /\ r.artifact.project \in Projects
                                 /\ r.artifact.job \in Jobs \cup {None}
<1>1. ASSUME NEW j \in M!JobsOf(r)
      PROVE  /\ j \in Jobs /\ r.job[j] \in M!JobRow /\ r.job[j].project \in Projects
             /\ r.job[j].parent \in Jobs \cup {None}
  <2>1. j \in Jobs /\ r.job[j] # None
    BY <1>1 DEF M!JobsOf
  <2>2. r.job[j] \in M!JobRow
    BY <2>1, RowFields
  <2> QED BY <2>1, <2>2 DEF M!JobRow
<1>2. r.artifact # None =>
        r.artifact \in M!Artifact /\ r.artifact.project \in Projects /\ r.artifact.job \in Jobs \cup {None}
  BY RowFields DEF M!Artifact
<1> QED BY <1>1, <1>2

\* The fields of a repaired row set.
LEMMA RepairedFields ==
  ASSUME M!LegacyIsTyped, NEW r \in M!Rows
  PROVE  /\ M!Repaired(r).projects = r.projects
         /\ M!Repaired(r).blocks = r.blocks \cap r.projects
         /\ M!Repaired(r).current = r.current
         /\ M!Repaired(r).calls = r.calls \cap M!KeptJobs(r)
         /\ M!Repaired(r).job = [j \in Jobs |-> IF j \in M!KeptJobs(r) THEN r.job[j] ELSE None]
         /\ \A j \in M!KeptJobs(r) : j \in M!JobsOf(r) /\ M!Repaired(r).job[j] = r.job[j]
         /\ M!JobsOf(M!Repaired(r)) = M!KeptJobs(r)
         /\ r.artifact = None \/ r.artifact.project \notin r.projects => M!Repaired(r).artifact = None
         /\ r.artifact # None /\ r.artifact.project \in r.projects =>
              M!Repaired(r).artifact =
                [project |-> r.artifact.project,
                 job |-> IF r.artifact.job \in M!KeptJobs(r) THEN r.artifact.job ELSE None]
<1>1. M!KeptJobs(r) \subseteq M!JobsOf(r) /\ M!JobsOf(r) \subseteq Jobs
  BY KeptJobsClosed, SameFiniteSets DEF M!LegacyIsTyped, Attached, M!JobsOf
<1>2. M!Repaired(r).job = [j \in Jobs |-> IF j \in M!KeptJobs(r) THEN r.job[j] ELSE None]
  BY DEF M!Repaired
<1>3. \A j \in M!KeptJobs(r) : j \in M!JobsOf(r) /\ M!Repaired(r).job[j] = r.job[j]
  BY <1>1, <1>2
<1>4. M!JobsOf(M!Repaired(r)) = M!KeptJobs(r)
  <2>1. \A j \in M!KeptJobs(r) : r.job[j] # None
    BY <1>1 DEF M!JobsOf
  <2> QED BY <1>1, <1>2, <2>1 DEF M!JobsOf
<1>5. /\ M!Repaired(r).projects = r.projects
      /\ M!Repaired(r).blocks = r.blocks \cap r.projects
      /\ M!Repaired(r).current = r.current
      /\ M!Repaired(r).calls = r.calls \cap M!KeptJobs(r)
  BY DEF M!Repaired
<1>6. M!Repaired(r).artifact =
        IF r.artifact = None \/ r.artifact.project \notin r.projects THEN None
        ELSE [project |-> r.artifact.project,
              job |-> IF r.artifact.job \in M!KeptJobs(r) THEN r.artifact.job ELSE None]
  BY DEF M!Repaired
<1> QED BY <1>2, <1>3, <1>4, <1>5, <1>6

\* The repair makes a row set of a row set.
LEMMA RepairedType ==
  ASSUME M!LegacyIsTyped, NEW r \in M!Rows
  PROVE  M!Repaired(r) \in M!Rows
<1>1. [j \in Jobs |-> IF j \in M!KeptJobs(r) THEN r.job[j] ELSE None] \in [Jobs -> M!JobRow \cup {None}]
  BY RowFields
<1> DEFINE a == IF r.artifact = None \/ r.artifact.project \notin r.projects THEN None
                ELSE [project |-> r.artifact.project,
                      job |-> IF r.artifact.job \in M!KeptJobs(r) THEN r.artifact.job ELSE None]
<1>2. a \in M!Artifact \cup {None}
  BY JobFields DEF M!Artifact
<1> HIDE DEF a
<1>3. M!Repaired(r) = [projects |-> r.projects, blocks |-> r.blocks \cap r.projects,
        job |-> [j \in Jobs |-> IF j \in M!KeptJobs(r) THEN r.job[j] ELSE None],
        calls |-> r.calls \cap M!KeptJobs(r), artifact |-> a, current |-> r.current]
  BY DEF M!Repaired, a
<1> QED BY <1>1, <1>2, <1>3, RowFields DEF M!Rows

\* What is kept is kept again.
LEMMA KeptTwice ==
  ASSUME M!LegacyIsTyped, NEW r \in M!Rows
  PROVE  M!KeptJobs(M!Repaired(r)) = M!KeptJobs(r)
<1>1. M!KeptJobs(M!Repaired(r)) \subseteq M!KeptJobs(r)
  <2>1. M!KeptJobs(M!Repaired(r)) \subseteq Attached(M!Repaired(r))
    BY KeptJobsClosed, SameFiniteSets DEF M!LegacyIsTyped
  <2>2. Attached(M!Repaired(r)) \subseteq M!JobsOf(M!Repaired(r))
    BY DEF Attached
  <2>3. M!JobsOf(M!Repaired(r)) = M!KeptJobs(r)
    BY RepairedFields
  <2> QED BY <2>1, <2>2, <2>3
<1>2. M!KeptJobs(r) \subseteq Attached(M!Repaired(r))
  <2>1. M!KeptJobs(r) \subseteq Attached(r)
    BY KeptJobsClosed, SameFiniteSets DEF M!LegacyIsTyped
  <2>2. /\ M!JobsOf(M!Repaired(r)) = M!KeptJobs(r) /\ M!Repaired(r).projects = r.projects
        /\ \A j \in M!KeptJobs(r) : M!Repaired(r).job[j] = r.job[j]
    BY RepairedFields
  <2> QED BY <2>1, <2>2 DEF Attached
<1>3. Closed(M!Repaired(r), M!KeptJobs(r))
  <2>1. Closed(r, M!KeptJobs(r))
    BY KeptJobsClosed, SameFiniteSets DEF M!LegacyIsTyped
  <2>2. \A j \in M!KeptJobs(r) : M!Repaired(r).job[j] = r.job[j]
    BY RepairedFields
  <2> QED BY <2>1, <2>2 DEF Closed
<1>4. M!KeptJobs(r) \subseteq M!KeptJobs(M!Repaired(r))
  BY <1>2, <1>3, KeptJobsLargest, SameFiniteSets DEF M!LegacyIsTyped
<1> QED BY <1>1, <1>4

\* A repair of what was repaired changes nothing.
LEMMA RepairedTwice ==
  ASSUME M!LegacyIsTyped, NEW r \in M!Rows
  PROVE  M!Repaired(M!Repaired(r)) = M!Repaired(r)
<1> DEFINE s == M!Repaired(r)
<1>1. s \in M!Rows /\ M!KeptJobs(s) = M!KeptJobs(r)
  BY RepairedType, KeptTwice
<1>2. /\ s.blocks \subseteq s.projects /\ s.calls \subseteq M!KeptJobs(r)
      /\ M!JobsOf(s) = M!KeptJobs(r)
      /\ s.artifact # None =>
           /\ s.artifact.project \in s.projects
           /\ s.artifact.job \in M!KeptJobs(r) \cup {None}
  <2>1. /\ s.blocks \subseteq s.projects /\ s.calls \subseteq M!KeptJobs(r)
        /\ M!JobsOf(s) = M!KeptJobs(r) /\ s.projects = r.projects
    BY RepairedFields
  <2>2. ASSUME s.artifact # None
        PROVE  s.artifact.project \in s.projects /\ s.artifact.job \in M!KeptJobs(r) \cup {None}
    <3>1. r.artifact # None /\ r.artifact.project \in r.projects
      BY <2>2, RepairedFields
    <3>2. s.artifact = [project |-> r.artifact.project,
                        job |-> IF r.artifact.job \in M!KeptJobs(r) THEN r.artifact.job ELSE None]
      BY <3>1, RepairedFields
    <3> QED BY <2>1, <3>1, <3>2
  <2> QED BY <2>1, <2>2
<1> HIDE DEF s
<1>3. M!Repaired(s) \in M!Rows
  BY <1>1, RepairedType
<1>4. /\ M!Repaired(s).projects = s.projects /\ M!Repaired(s).blocks = s.blocks
      /\ M!Repaired(s).current = s.current /\ M!Repaired(s).calls = s.calls
  <2>1. /\ M!Repaired(s).projects = s.projects /\ M!Repaired(s).blocks = s.blocks \cap s.projects
        /\ M!Repaired(s).current = s.current /\ M!Repaired(s).calls = s.calls \cap M!KeptJobs(s)
    BY <1>1, RepairedFields
  <2> QED BY <1>1, <1>2, <2>1
<1>5. M!Repaired(s).job = s.job
  <2>1. s.job \in [Jobs -> M!JobRow \cup {None}]
    BY <1>1, RowFields
  <2>2. M!Repaired(s).job = [j \in Jobs |-> IF j \in M!JobsOf(s) THEN s.job[j] ELSE None]
    <3>1. M!Repaired(s).job = [j \in Jobs |-> IF j \in M!KeptJobs(s) THEN s.job[j] ELSE None]
      BY <1>1, RepairedFields
    <3> QED BY <1>1, <1>2, <3>1
  <2> QED BY <2>1, <2>2 DEF M!JobsOf
<1>a. M!Repaired(s).artifact = s.artifact
  <2>1. CASE s.artifact = None
    BY <1>1, <2>1, RepairedFields
  <2>2. CASE s.artifact # None
    <3>1. M!Repaired(s).artifact =
            [project |-> s.artifact.project,
             job |-> IF s.artifact.job \in M!KeptJobs(s) THEN s.artifact.job ELSE None]
      BY <1>1, <1>2, <2>2, RepairedFields
    <3>2. M!Repaired(s).artifact = [project |-> s.artifact.project, job |-> s.artifact.job]
      BY <1>1, <1>2, <2>2, <3>1
    <3>3. s.artifact \in M!Artifact
      BY <1>1, <2>2, JobFields
    <3> QED BY <3>2, <3>3 DEF M!Artifact
  <2> QED BY <2>1, <2>2
<1>6. /\ s = [projects |-> s.projects, blocks |-> s.blocks, job |-> s.job, calls |-> s.calls,
              artifact |-> s.artifact, current |-> s.current]
      /\ M!Repaired(s) = [projects |-> M!Repaired(s).projects, blocks |-> M!Repaired(s).blocks,
              job |-> M!Repaired(s).job, calls |-> M!Repaired(s).calls,
              artifact |-> M!Repaired(s).artifact, current |-> M!Repaired(s).current]
  BY <1>1, <1>3 DEF M!Rows
<1>7. M!Repaired(s) = s
  BY <1>4, <1>5, <1>6, <1>a
<1> QED BY <1>7 DEF s

\* The repair keeps what something owns, and nothing else.
LEMMA RepairedKeepsOwned ==
  ASSUME M!LegacyIsTyped, NEW r \in M!Rows
  PROVE  M!KeepsOwned(r, M!Repaired(r))
<1>1. M!KeptJobs(r) = M!Owned(r)
  BY KeptIsOwned, SameFiniteSets DEF M!LegacyIsTyped
<1>2. r.artifact # None /\ r.artifact.project \in r.projects =>
        /\ M!Repaired(r).artifact # None
        /\ M!Repaired(r).artifact.project = r.artifact.project
  <2> SUFFICES ASSUME r.artifact # None, r.artifact.project \in r.projects
               PROVE  /\ M!Repaired(r).artifact # None
                      /\ M!Repaired(r).artifact.project = r.artifact.project
    OBVIOUS
  <2>1. M!Repaired(r).artifact =
          [project |-> r.artifact.project,
           job |-> IF r.artifact.job \in M!KeptJobs(r) THEN r.artifact.job ELSE None]
    BY RepairedFields
  <2>2. M!Repaired(r).artifact \in M!Artifact
    BY <2>1, JobFields DEF M!Artifact
  <2> QED BY <2>1, <2>2 DEF M!LegacyIsTyped
<1>3. M!JobsOf(M!Repaired(r)) = M!Owned(r) /\ \A j \in M!Owned(r) : M!Repaired(r).job[j] = r.job[j]
  <2>1. /\ M!JobsOf(M!Repaired(r)) = M!KeptJobs(r)
        /\ \A j \in M!KeptJobs(r) : M!Repaired(r).job[j] = r.job[j]
    BY RepairedFields
  <2> QED BY <1>1, <2>1
<1>4. /\ M!Repaired(r).projects = r.projects /\ M!Repaired(r).blocks = r.blocks \cap r.projects
      /\ M!Repaired(r).calls = r.calls \cap M!Owned(r)
  BY <1>1, RepairedFields
<1> QED BY <1>2, <1>3, <1>4 DEF M!KeepsOwned

\* The rows that are left when a project is deleted.
LEMMA RemainingFields ==
  ASSUME M!LegacyIsTyped, NEW r \in M!Rows, NEW p \in Projects
  PROVE  /\ M!Remaining(r, p) \in M!Rows
         /\ M!Remaining(r, p).projects = r.projects \ {p} /\ M!Remaining(r, p).blocks = r.blocks \ {p}
         /\ M!Remaining(r, p).current = r.current \ {p}
         /\ M!Remaining(r, p).calls = {j \in r.calls : r.job[j] # None /\ r.job[j].project # p}
         /\ \A j \in Jobs : M!Remaining(r, p).job[j] =
              IF r.job[j] # None /\ r.job[j].project = p THEN None ELSE r.job[j]
         /\ M!Remaining(r, p).artifact =
              IF r.artifact # None /\ r.artifact.project = p THEN None ELSE r.artifact
<1>1. [j \in Jobs |-> IF r.job[j] # None /\ r.job[j].project = p THEN None ELSE r.job[j]]
        \in [Jobs -> M!JobRow \cup {None}]
  BY RowFields
<1>2. M!Remaining(r, p) \in M!Rows
  BY <1>1, RowFields DEF M!Remaining, M!Rows
<1> QED BY <1>2 DEF M!Remaining

\* A deletion leaves no reference to what it deletes.
LEMMA RemainingSound ==
  ASSUME M!LegacyIsTyped, NEW r \in M!Rows, NEW p \in Projects, M!References(r)
  PROVE  M!References(M!Remaining(r, p))
<1> DEFINE s == M!Remaining(r, p)
<1>1. s.blocks \subseteq s.projects
  BY RemainingFields DEF M!References
<1>2. M!JobsOf(s) = {j \in M!JobsOf(r) : r.job[j].project # p}
  BY RemainingFields DEF M!JobsOf
<1>3. \A j \in M!JobsOf(s) : s.job[j] = r.job[j]
  BY <1>2, RemainingFields DEF M!JobsOf
<1>4. ASSUME NEW j \in M!JobsOf(s)
      PROVE  /\ s.job[j].project \in s.projects
             /\ s.job[j].parent # None =>
                  /\ s.job[j].parent \in M!JobsOf(s)
                  /\ s.job[s.job[j].parent].project = s.job[j].project
  <2>1. j \in M!JobsOf(r) /\ r.job[j].project # p /\ s.job[j] = r.job[j]
    BY <1>2, <1>3
  <2>2. r.job[j].project \in r.projects
    BY <2>1 DEF M!References
  <2>3. ASSUME r.job[j].parent # None
        PROVE  r.job[j].parent \in M!JobsOf(s) /\ s.job[r.job[j].parent] = r.job[r.job[j].parent]
    BY <1>2, <1>3, <2>1, <2>3 DEF M!References
  <2>4. r.job[j].parent # None => r.job[r.job[j].parent].project = r.job[j].project
    BY <2>1 DEF M!References
  <2> QED BY <2>1, <2>2, <2>3, <2>4, RemainingFields
<1>5. s.calls \subseteq M!JobsOf(s)
  BY <1>2, RemainingFields DEF M!References
<1>6. s.artifact # None =>
        /\ s.artifact = r.artifact /\ r.artifact.project # p
  BY RemainingFields
<1>7. s.artifact # None =>
        /\ s.artifact.project \in s.projects
        /\ s.artifact.job # None =>
             s.artifact.job \in M!JobsOf(s) /\ s.job[s.artifact.job].project = s.artifact.project
  BY <1>2, <1>3, <1>6, RemainingFields DEF M!References
<1>8. \A q \in s.current \cap s.projects : s.artifact # None /\ s.artifact.project = q
  BY RemainingFields DEF M!References
<1> HIDE DEF s
<1>9. M!References(s)
  BY <1>1, <1>4, <1>5, <1>7, <1>8 DEF M!References
<1> QED BY <1>9 DEF s

-----------------------------------------------------------------------------
(* The inductive invariant, in named parts.                                *)

\* What the holder of the lease remembers.
ActorType == [pc : M!PCs, before : M!Contents \cup {None}, temp : M!Backup \cup {None},
              backup : M!Backup \cup {None}]

\* Labels at which the database was opened and no transaction is under way.
MOpened == {"classify", "backup", "publish", "metadata", "repair", "apply", "verify", "serving"}

\* A journal is that of a transaction in progress or cut off; a torn file has its
\* journal, unless a restore removed it.
JournalFits ==
  /\ m_journal # None => m_file.torn
  /\ m_file.torn => m_journal # None \/ m_cut \/ m_actor.pc = "replace"
  /\ m_actor.pc \in M!InTransaction => m_journal # None
  /\ m_actor.pc \in MOpened \cup {"replace", "restored"} => m_journal = None
  /\ m_actor.pc = "restored" => ~m_file.torn
  /\ m_actor.pc \in MOpened /\ m_file.torn => m_cut

\* Before the migration a database is the first one, or what the repair left of it.
Unmigrated(c) == c.version = 0 => c.rows \in {m_first.rows, M!Repaired(m_first.rows)}

\* What is on disk comes from the first database.
Descent ==
  /\ Unmigrated(m_file.content)
  /\ m_journal # None => Unmigrated(m_journal)
  /\ \A b \in m_backups : Unmigrated(b.content)
  /\ m_actor.temp # None => Unmigrated(m_actor.temp.content)

\* A database of version 1 has all its references, unless a restore was cut off.
Referenced ==
  ~m_cut => /\ m_file.content.version = 1 => M!References(m_file.content.rows)
            /\ m_journal # None /\ m_journal.version = 1 => M!References(m_journal.rows)

\* What the migration has made of the first database when.
Before == [rows |-> M!Repaired(m_first.rows), version |-> 0]
After == [rows |-> M!Repaired(m_first.rows), version |-> 1]
Progress ==
  /\ m_actor.pc \in {"backup", "publish", "metadata", "repair"} =>
       /\ m_file.content.version = 0 /\ M!Sound(m_file.content) /\ m_actor.before = m_file.content
  /\ m_actor.pc \in {"publish", "metadata"} =>
       m_actor.temp = [content |-> m_file.content, metadata |-> FALSE, altered |-> FALSE]
  /\ m_actor.pc = "repairing" =>
       /\ m_journal = m_actor.before /\ m_journal.version = 0
       /\ m_file.content = Before /\ M!References(Before.rows)
  /\ m_actor.pc = "apply" => m_file.content = Before /\ M!References(Before.rows)
  /\ m_actor.pc = "applying" => m_journal = Before /\ m_file.content = After /\ M!References(After.rows)
  /\ m_actor.pc = "verify" => m_file.content = After /\ M!References(After.rows)
  /\ m_actor.pc \in {"serving", "writing"} =>
       m_file.content.version = 1 /\ M!References(m_file.content.rows)
  /\ m_actor.pc = "writing" => m_journal.version = 1 /\ M!References(m_journal.rows)

\* What a restore holds, and has put in place.
Restoring ==
  /\ m_actor.pc \in {"sidecars", "replace", "restored"} =>
       /\ m_actor.temp # None /\ M!Sound(m_actor.temp.content) /\ m_actor.temp.content.version = 0
       /\ m_actor.backup # None
  /\ m_actor.pc = "check" => m_actor.backup # None /\ m_actor.backup.metadata
  /\ m_actor.pc = "restored" => m_file.content = m_actor.temp.content

\* The first database is in a backup with its metadata, or nothing was touched.
Saved == \E b \in m_backups : b.content = m_first /\ b.metadata
Untouched ==
  /\ m_file.content = m_first /\ m_journal = None
  /\ \A b \in m_backups : b.content = m_first
  /\ m_actor.temp # None => m_actor.temp.content = m_first
  /\ m_actor.pc \notin {"repair", "repairing", "apply", "applying", "verify", "serving", "writing"}
Original == m_first.rows # M!NoTables => Saved \/ Untouched

\* What was published with its metadata can be restored.
Restorable ==
  \A b \in m_backups : b.metadata /\ ~b.altered => M!Sound(b.content) /\ b.content.version = 0

Inv ==
  /\ M!TypeOK /\ JournalFits /\ Descent /\ Referenced /\ Progress /\ Restoring /\ Original
  /\ Restorable

\* No file, row or backup is None.
LEMMA NotNone ==
  ASSUME M!LegacyIsTyped
  PROVE  /\ \A c \in M!Contents : c # None
         /\ \A b \in M!Backup : b # None
  BY DEF M!LegacyIsTyped

\* A step to another label changes nothing else that a process remembers.
LEMMA GotoFields ==
  ASSUME M!TypeOK, NEW label \in M!PCs, M!Goto(label)
  PROVE  /\ m_actor'.pc = label /\ m_actor'.before = m_actor.before
         /\ m_actor'.temp = m_actor.temp /\ m_actor'.backup = m_actor.backup
         /\ m_actor' \in ActorType
  BY DEF M!TypeOK, M!Goto, ActorType

\* A process that stops remembers nothing.
LEMMA IdleFields ==
  /\ M!Idle.pc = "idle" /\ M!Idle.before = None /\ M!Idle.temp = None /\ M!Idle.backup = None
  /\ \A label \in M!PCs : /\ [M!Idle EXCEPT !.pc = label].pc = label
                          /\ [M!Idle EXCEPT !.pc = label].before = None
                          /\ [M!Idle EXCEPT !.pc = label].temp = None
                          /\ [M!Idle EXCEPT !.pc = label].backup = None
  /\ \A label \in M!PCs : [M!Idle EXCEPT !.pc = label] \in ActorType
  /\ M!Idle \in ActorType
  BY DEF M!Idle, M!PCs, ActorType

\* The fields of a content.
LEMMA ContentFields ==
  ASSUME NEW c \in M!Contents
  PROVE  c.rows \in M!Rows /\ c.version \in {0, 1} /\ c = [rows |-> c.rows, version |-> c.version]
  BY DEF M!Contents

\* A database of version 0 that is sound is left sound by the repair.
LEMMA SoundUnmigrated ==
  ASSUME M!LegacyIsTyped, M!TypeOK, NEW c \in M!Contents, c.version = 0, Unmigrated(c)
  PROVE  /\ M!Repaired(c.rows) = M!Repaired(m_first.rows)
         /\ [c EXCEPT !.rows = M!Repaired(@)] = Before
         /\ Before \in M!Contents /\ After \in M!Contents
         /\ [Before EXCEPT !.version = 1] = After
         /\ M!Sound(c) <=> M!References(M!Repaired(m_first.rows))
<1>1. m_first.rows \in M!Rows
  BY DEF M!TypeOK, M!Contents
<1>2. M!Repaired(c.rows) = M!Repaired(m_first.rows)
  BY <1>1, RepairedTwice DEF Unmigrated
<1>3. [c EXCEPT !.rows = M!Repaired(@)] = Before
  BY <1>2, ContentFields DEF Before, M!Contents
<1>4. Before \in M!Contents /\ After \in M!Contents
  BY <1>1, RepairedType DEF Before, After, M!Contents
<1>5. [Before EXCEPT !.version = 1] = After
  BY DEF Before, After
<1> QED BY <1>2, <1>3, <1>4, <1>5 DEF M!Sound

\* Opening the database rolls an interrupted transaction back.
LEMMA StartKeeps ==
  ASSUME M!LegacyIsTyped, Inv, M!Start
  PROVE  Inv'
<1>a. /\ M!TypeOK /\ JournalFits /\ Descent /\ Referenced /\ Progress /\ Restoring /\ Original
      /\ Restorable
  BY DEF Inv
<1>f. /\ m_actor.pc = "idle" /\ m_actor'.pc = "classify" /\ m_actor'.temp = None
      /\ m_actor' \in ActorType /\ m_file' \in [content : M!Contents, torn : BOOLEAN]
      /\ m_file'.content = M!Effective /\ (m_file'.torn => m_cut) /\ (m_journal # None => ~m_file'.torn)
      /\ m_journal' = None /\ UNCHANGED <<m_backups, m_cut, m_first, m_mishaps>>
  <2>1. m_actor.pc = "idle" /\ m_actor'.pc = "classify" /\ m_actor'.temp = None /\ m_actor' \in ActorType
    BY IdleFields DEF M!Start, M!PCs, ActorType
  <2>2. m_file' = M!Recovered /\ m_journal' = None /\ UNCHANGED <<m_backups, m_cut, m_first, m_mishaps>>
    BY DEF M!Start, M!Quiet
  <2>3. m_file' \in [content : M!Contents, torn : BOOLEAN] /\ m_file'.content = M!Effective
    BY <1>a, <2>2 DEF M!Recovered, M!Effective, M!TypeOK, JournalFits
  <2>4. (m_file'.torn => m_cut) /\ (m_journal # None => ~m_file'.torn)
    BY <1>a, <2>1, <2>2 DEF M!Recovered, JournalFits
  <2> QED BY <2>1, <2>2, <2>3, <2>4
<1>e. M!Effective \in {m_file.content, m_journal} /\ (m_journal = None => M!Effective = m_file.content)
  BY <1>a DEF M!Effective, M!Recovered, JournalFits
<1>1. M!TypeOK'
  BY <1>a, <1>f DEF M!TypeOK, ActorType
<1>2. JournalFits'
  BY <1>a, <1>f DEF JournalFits, MOpened, M!InTransaction
<1>3. Descent'
  BY <1>a, <1>e, <1>f DEF Descent, Unmigrated
<1>4. Referenced'
  BY <1>a, <1>e, <1>f DEF Referenced
<1>5. Progress'
  BY <1>a, <1>f DEF Progress, Before, After
<1>6. Restoring'
  BY <1>a, <1>f DEF Restoring
<1>7. Original'
  BY <1>a, <1>e, <1>f DEF Original, Saved, Untouched
<1>8. Restorable'
  BY <1>a, <1>f DEF Restorable
<1> QED BY <1>1, <1>2, <1>3, <1>4, <1>5, <1>6, <1>7, <1>8 DEF Inv

\* A database that was brought to version 1 before is served.
LEMMA ServeCurrentKeeps ==
  ASSUME M!LegacyIsTyped, Inv, M!ServeCurrent
  PROVE  Inv'
<1>a. /\ M!TypeOK /\ JournalFits /\ Descent /\ Referenced /\ Progress /\ Restoring /\ Original
      /\ Restorable
  BY DEF Inv
<1>f. /\ m_actor.pc = "classify" /\ m_actor'.pc \in {"idle", "serving"}
      /\ m_actor'.temp \in {None, m_actor.temp} /\ m_actor' \in ActorType
      /\ m_file.content.version = 1
      /\ m_actor'.pc = "serving" => M!References(m_file.content.rows)
      /\ UNCHANGED <<m_file, m_journal, m_backups, m_cut, m_first, m_mishaps>>
  BY <1>a, GotoFields, IdleFields
     DEF M!ServeCurrent, M!SeemsWhole, M!Refuse, M!FileKept, M!Quiet, M!PCs, ActorType, M!Sound
<1>1. M!TypeOK'
  BY <1>a, <1>f DEF M!TypeOK, ActorType
<1>2. JournalFits'
  BY <1>a, <1>f DEF JournalFits, MOpened, M!InTransaction
<1>3. Descent'
  BY <1>a, <1>f DEF Descent, Unmigrated
<1>4. Referenced'
  BY <1>a, <1>f DEF Referenced
<1>5. Progress'
  BY <1>a, <1>f DEF Progress, Before, After
<1>6. Restoring'
  BY <1>a, <1>f DEF Restoring
<1>7. Original'
  <2>1. m_file.content # m_first
    BY <1>a, <1>f DEF M!TypeOK
  <2> QED BY <1>a, <1>f, <2>1 DEF Original, Saved, Untouched
<1>8. Restorable'
  BY <1>a, <1>f DEF Restorable
<1> QED BY <1>1, <1>2, <1>3, <1>4, <1>5, <1>6, <1>7, <1>8 DEF Inv

\* A database of version 0 that the repair will leave sound is backed up, or empty.
LEMMA ClassifyKeeps ==
  ASSUME M!LegacyIsTyped, Inv, M!Classify
  PROVE  Inv'
<1>a. /\ M!TypeOK /\ JournalFits /\ Descent /\ Referenced /\ Progress /\ Restoring /\ Original
      /\ Restorable
  BY DEF Inv
<1>f. /\ m_actor.pc = "classify" /\ m_actor'.pc \in {"idle", "backup", "repair"}
      /\ m_actor'.temp \in {None, m_actor.temp} /\ m_actor' \in ActorType
      /\ m_file.content.version = 0
      /\ m_actor'.pc # "idle" => M!Sound(m_file.content) /\ m_actor'.before = m_file.content
      /\ m_actor'.pc = "repair" => m_file.content.rows = M!NoTables
      /\ UNCHANGED <<m_file, m_journal, m_backups, m_cut, m_first, m_mishaps>>
  <2>1. CASE m_actor' = M!Idle
    BY <2>1, IdleFields DEF M!Classify, M!FileKept, M!Quiet, ActorType
  <2>2. CASE m_actor' # M!Idle
    <3>1. /\ M!Sound(m_file.content) /\ m_file.content.version = 0 /\ m_actor.pc = "classify"
          /\ m_actor' = [m_actor EXCEPT !.before = m_file.content,
                         !.pc = IF m_file.content.rows = M!NoTables THEN "repair" ELSE "backup"]
          /\ UNCHANGED <<m_file, m_journal, m_backups, m_cut, m_first, m_mishaps>>
      BY <2>2 DEF M!Classify, M!Refuse, M!FileKept, M!Quiet
    <3>2. m_file.content \in M!Contents
      BY <1>a DEF M!TypeOK
    <3> QED BY <1>a, <3>1, <3>2 DEF M!TypeOK, ActorType, M!PCs
  <2> QED BY <2>1, <2>2
<1>1. M!TypeOK'
  BY <1>a, <1>f DEF M!TypeOK, ActorType
<1>2. JournalFits'
  BY <1>a, <1>f DEF JournalFits, MOpened, M!InTransaction
<1>3. Descent'
  BY <1>a, <1>f DEF Descent, Unmigrated
<1>4. Referenced'
  BY <1>a, <1>f DEF Referenced
<1>5. Progress'
  BY <1>a, <1>f DEF Progress, Before, After
<1>6. Restoring'
  BY <1>a, <1>f DEF Restoring
<1>7. Original'
  <2>1. M!NoTables' = M!NoTables
    BY DEF M!NoTables
  <2> QED BY <1>a, <1>f, <2>1 DEF Original, Saved, Untouched
<1>8. Restorable'
  BY <1>a, <1>f DEF Restorable
<1> QED BY <1>1, <1>2, <1>3, <1>4, <1>5, <1>6, <1>7, <1>8 DEF Inv

\* The copy is in a temporary file.
LEMMA CopyKeeps ==
  ASSUME M!LegacyIsTyped, Inv, M!Copy
  PROVE  Inv'
<1>a. /\ M!TypeOK /\ JournalFits /\ Descent /\ Referenced /\ Progress /\ Restoring /\ Original
      /\ Restorable
  BY DEF Inv
<1>f. /\ m_actor.pc = "backup" /\ m_actor'.pc = "publish" /\ m_actor'.before = m_actor.before
      /\ m_actor'.temp = [content |-> m_file.content, metadata |-> FALSE, altered |-> FALSE]
      /\ m_actor' \in ActorType
      /\ UNCHANGED <<m_file, m_journal, m_backups, m_cut, m_first, m_mishaps>>
  <2>1. [content |-> m_file.content, metadata |-> FALSE, altered |-> FALSE] \in M!Backup
    BY <1>a DEF M!TypeOK, M!Backup
  <2> QED BY <1>a, <2>1 DEF M!Copy, M!FileKept, M!Quiet, M!TypeOK, ActorType, M!PCs
<1>1. M!TypeOK'
  BY <1>a, <1>f DEF M!TypeOK, ActorType
<1>2. JournalFits'
  BY <1>a, <1>f DEF JournalFits, MOpened, M!InTransaction
<1>3. Descent'
  BY <1>a, <1>f DEF Descent, Unmigrated
<1>4. Referenced'
  BY <1>a, <1>f DEF Referenced
<1>5. Progress'
  BY <1>a, <1>f DEF Progress, Before, After
<1>6. Restoring'
  BY <1>a, <1>f DEF Restoring
<1>7. Original'
  BY <1>a, <1>f DEF Original, Saved, Untouched
<1>8. Restorable'
  BY <1>a, <1>f DEF Restorable
<1> QED BY <1>1, <1>2, <1>3, <1>4, <1>5, <1>6, <1>7, <1>8 DEF Inv

\* The copy is renamed.
LEMMA PublishBackupKeeps ==
  ASSUME M!LegacyIsTyped, Inv, M!PublishBackup
  PROVE  Inv'
<1>a. /\ M!TypeOK /\ JournalFits /\ Descent /\ Referenced /\ Progress /\ Restoring /\ Original
      /\ Restorable
  BY DEF Inv
<1>f. /\ m_actor.pc = "publish" /\ m_actor'.pc = "metadata" /\ m_actor'.before = m_actor.before
      /\ m_actor'.temp = m_actor.temp /\ m_actor.temp.metadata = FALSE
      /\ m_actor.temp.content = m_file.content /\ m_actor.temp \in M!Backup
      /\ m_actor.temp = [content |-> m_file.content, metadata |-> FALSE, altered |-> FALSE]
      /\ m_actor' \in ActorType /\ m_backups' = m_backups \cup {m_actor.temp}
      /\ UNCHANGED <<m_file, m_journal, m_cut, m_first, m_mishaps>>
  <2>1. m_actor.pc = "publish" /\ m_actor'.pc = "metadata" /\ m_actor'.before = m_actor.before
        /\ m_actor'.temp = m_actor.temp /\ m_actor' \in ActorType
    BY <1>a, GotoFields DEF M!PublishBackup, M!PCs, ActorType
  <2>2. m_backups' = m_backups \cup {m_actor.temp} /\ UNCHANGED <<m_file, m_journal, m_cut, m_first, m_mishaps>>
    BY DEF M!PublishBackup, M!FileKept, M!Quiet
  <2>3. m_actor.temp = [content |-> m_file.content, metadata |-> FALSE, altered |-> FALSE]
    BY <1>a, <2>1 DEF Progress
  <2>4. m_actor.temp \in M!Backup
    BY <1>a, <2>3 DEF M!TypeOK, M!Backup
  <2> QED BY <2>1, <2>2, <2>3, <2>4
<1>1. M!TypeOK'
  BY <1>a, <1>f DEF M!TypeOK, ActorType
<1>2. JournalFits'
  BY <1>a, <1>f DEF JournalFits, MOpened, M!InTransaction
<1>3. Descent'
  BY <1>a, <1>f, NotNone DEF Descent, Unmigrated
<1>4. Referenced'
  BY <1>a, <1>f DEF Referenced
<1>5. Progress'
  BY <1>a, <1>f DEF Progress, Before, After
<1>6. Restoring'
  BY <1>a, <1>f DEF Restoring
<1>7. Original'
  BY <1>a, <1>f, NotNone DEF Original, Saved, Untouched
<1>8. Restorable'
  BY <1>a, <1>f DEF Restorable
<1> QED BY <1>1, <1>2, <1>3, <1>4, <1>5, <1>6, <1>7, <1>8 DEF Inv

\* The metadata makes a backup of the copy.
LEMMA PublishMetadataKeeps ==
  ASSUME M!LegacyIsTyped, Inv, M!PublishMetadata
  PROVE  Inv'
<1>a. /\ M!TypeOK /\ JournalFits /\ Descent /\ Referenced /\ Progress /\ Restoring /\ Original
      /\ Restorable
  BY DEF Inv
<1>f. /\ m_actor.pc = "metadata" /\ m_actor'.pc = "repair" /\ m_actor'.before = m_actor.before
      /\ m_actor'.temp = m_actor.temp
      /\ m_actor' \in ActorType
      /\ UNCHANGED <<m_file, m_journal, m_cut, m_first, m_mishaps>>
  BY <1>a, GotoFields DEF M!PublishMetadata, M!FileKept, M!Quiet, M!PCs, ActorType
<1>t. m_actor.temp = [content |-> m_file.content, metadata |-> FALSE, altered |-> FALSE]
      /\ m_file.content \in M!Contents /\ m_file.content.version = 0 /\ M!Sound(m_file.content)
  BY <1>a, <1>f DEF Progress, M!TypeOK
<1>b. m_actor.temp \in M!Backup /\ m_actor.temp.content = m_file.content /\ ~m_actor.temp.metadata
  BY <1>t DEF M!Backup
<1>c. M!Published \in M!Backup /\ M!Published.content = m_file.content /\ ~M!Published.metadata
  <2>1. [m_actor.temp EXCEPT !.altered = TRUE] \in M!Backup
        /\ [m_actor.temp EXCEPT !.altered = TRUE].content = m_actor.temp.content
    BY <1>b DEF M!Backup
  <2>2. ~[m_actor.temp EXCEPT !.altered = TRUE].metadata
    BY <1>b DEF M!Backup
  <2> QED BY <1>b, <2>1, <2>2 DEF M!Published
<1> DEFINE n == [M!Published EXCEPT !.metadata = TRUE]
<1>d. n \in M!Backup /\ n.content = m_file.content /\ n.metadata
  BY <1>c DEF M!Backup
<1>e. m_backups' = (m_backups \ {M!Published}) \cup {n}
  BY DEF M!PublishMetadata
<1>n. /\ n \in M!Backup /\ n.content = m_file.content /\ n.metadata /\ n \in m_backups'
      /\ \A b \in m_backups' : b = n \/ b \in m_backups
      /\ \A b \in m_backups : b.metadata => b \in m_backups'
  BY <1>c, <1>d, <1>e
<1> HIDE DEF n
<1>1. M!TypeOK'
  BY <1>a, <1>f, <1>n DEF M!TypeOK, ActorType
<1>2. JournalFits'
  BY <1>a, <1>f DEF JournalFits, MOpened, M!InTransaction
<1>3. Descent'
  BY <1>a, <1>f, <1>n DEF Descent, Unmigrated
<1>4. Referenced'
  BY <1>a, <1>f DEF Referenced
<1>5. Progress'
  BY <1>a, <1>f DEF Progress, Before, After
<1>6. Restoring'
  BY <1>a, <1>f DEF Restoring
<1>7. Original'
  BY <1>a, <1>f, <1>n DEF Original, Saved, Untouched
<1>8. Restorable'
  BY <1>a, <1>f, <1>n, <1>t DEF Restorable
<1> QED BY <1>1, <1>2, <1>3, <1>4, <1>5, <1>6, <1>7, <1>8 DEF Inv

\* The repair starts from a database that is in a backup, or is empty.
LEMMA BeginRepairKeeps ==
  ASSUME M!LegacyIsTyped, Inv, M!BeginRepair
  PROVE  Inv'
<1>a. /\ M!TypeOK /\ JournalFits /\ Descent /\ Referenced /\ Progress /\ Restoring /\ Original
      /\ Restorable
  BY DEF Inv
<1>f. /\ m_actor.pc = "repair" /\ m_actor'.pc = "repairing" /\ m_actor'.before = m_actor.before
      /\ m_actor'.temp = m_actor.temp /\ m_actor' \in ActorType
      /\ UNCHANGED <<m_backups, m_cut, m_first, m_mishaps>>
  BY <1>a, GotoFields DEF M!BeginRepair, M!Quiet, M!PCs, ActorType
<1>b. /\ m_file.content \in M!Contents /\ m_file.content.version = 0 /\ M!Sound(m_file.content)
      /\ m_actor.before = m_file.content /\ m_journal = None
  BY <1>a, <1>f DEF Progress, M!TypeOK, JournalFits, MOpened
<1>c. /\ Before \in M!Contents /\ M!References(Before.rows) /\ M!RepairedContent = Before
      /\ Before.version = 0 /\ Before.rows = M!Repaired(m_first.rows)
  BY <1>a, <1>b, SoundUnmigrated DEF Descent, M!RepairedContent, Before
<1>e. /\ m_journal' = m_file.content /\ m_file' = [content |-> Before, torn |-> TRUE]
      /\ m_file'.content = Before /\ m_file'.torn /\ m_journal' # None
  BY <1>b, <1>c, NotNone DEF M!BeginRepair, M!Begin
<1>1. M!TypeOK'
  BY <1>a, <1>b, <1>c, <1>e, <1>f DEF M!TypeOK, ActorType
<1>2. JournalFits'
  BY <1>e, <1>f DEF JournalFits, MOpened, M!InTransaction
<1>3. Descent'
  BY <1>a, <1>c, <1>e, <1>f DEF Descent, Unmigrated
<1>4. Referenced'
  BY <1>b, <1>c, <1>e DEF Referenced
<1>5. Progress'
  <2>1. Before' = Before
    BY <1>f DEF Before
  <2> QED BY <1>b, <1>c, <1>e, <1>f, <2>1 DEF Progress
<1>6. Restoring'
  BY <1>a, <1>f DEF Restoring
<1>7. Original'
  BY <1>a, <1>f DEF Original, Saved, Untouched
<1>8. Restorable'
  BY <1>a, <1>f DEF Restorable
<1> QED BY <1>1, <1>2, <1>3, <1>4, <1>5, <1>6, <1>7, <1>8 DEF Inv

\* What the repair left is in place.
LEMMA CommitRepairKeeps ==
  ASSUME M!LegacyIsTyped, Inv, M!CommitRepair
  PROVE  Inv'
<1>a. /\ M!TypeOK /\ JournalFits /\ Descent /\ Referenced /\ Progress /\ Restoring /\ Original
      /\ Restorable
  BY DEF Inv
<1>f. /\ m_actor.pc = "repairing" /\ m_actor'.pc = "apply" /\ m_actor'.temp = m_actor.temp
      /\ UNCHANGED <<m_backups, m_cut, m_first, m_mishaps>>
      /\ m_journal' = None
  BY <1>a DEF M!CommitRepair, M!Commit, M!Quiet, M!TypeOK, ActorType
<1>b. /\ m_actor' \in ActorType /\ m_file' \in [content : M!Contents, torn : BOOLEAN]
      /\ m_file'.content = m_file.content /\ ~m_file'.torn
  BY <1>a DEF M!CommitRepair, M!Commit, M!TypeOK, ActorType, M!PCs
<1>1. M!TypeOK'
  BY <1>a, <1>b, <1>f DEF M!TypeOK, ActorType
<1>2. JournalFits'
  BY <1>b, <1>f DEF JournalFits, MOpened, M!InTransaction
<1>3. Descent'
  BY <1>a, <1>b, <1>f DEF Descent, Unmigrated
<1>4. Referenced'
  BY <1>a, <1>b, <1>f DEF Referenced
<1>5. Progress'
  <2>1. Before' = Before
    BY <1>f DEF Before
  <2> QED BY <1>a, <1>b, <1>f, <2>1 DEF Progress
<1>6. Restoring'
  BY <1>a, <1>f DEF Restoring
<1>7. Original'
  BY <1>a, <1>f DEF Original, Saved, Untouched
<1>8. Restorable'
  BY <1>a, <1>f DEF Restorable
<1> QED BY <1>1, <1>2, <1>3, <1>4, <1>5, <1>6, <1>7, <1>8 DEF Inv

\* The schema is migrated in a transaction of its own.
LEMMA BeginApplyKeeps ==
  ASSUME M!LegacyIsTyped, Inv, M!BeginApply
  PROVE  Inv'
<1>a. /\ M!TypeOK /\ JournalFits /\ Descent /\ Referenced /\ Progress /\ Restoring /\ Original
      /\ Restorable
  BY DEF Inv
<1>f. /\ m_actor.pc = "apply" /\ m_actor'.pc = "applying" /\ m_actor'.temp = m_actor.temp
      /\ m_actor' \in ActorType /\ UNCHANGED <<m_backups, m_cut, m_first, m_mishaps>>
  BY <1>a, GotoFields DEF M!BeginApply, M!Quiet, M!PCs, ActorType
<1>b. /\ m_file.content = Before /\ M!References(Before.rows) /\ Before.version = 0
      /\ Before.rows = After.rows /\ After.version = 1 /\ Before \in M!Contents /\ After \in M!Contents
  <2>1. m_file.content = Before /\ M!References(Before.rows)
    BY <1>a, <1>f DEF Progress
  <2>2. m_file.content \in M!Contents /\ Unmigrated(m_file.content)
    BY <1>a DEF Descent, M!TypeOK
  <2>3. Before.version = 0 /\ Before.rows = After.rows /\ After.version = 1
    BY DEF Before, After
  <2>4. Before \in M!Contents /\ After \in M!Contents
    BY <1>a, <2>1, <2>2, <2>3, SoundUnmigrated
  <2> QED BY <2>1, <2>3, <2>4
<1>e. /\ m_journal' = Before /\ m_journal' # None
      /\ m_file' = [content |-> After, torn |-> TRUE] /\ m_file'.content = After /\ m_file'.torn
  <2>1. [Before EXCEPT !.version = 1] = After
    BY <1>b DEF Before, After
  <2> QED BY <1>b, <2>1, NotNone DEF M!BeginApply, M!Begin
<1>1. M!TypeOK'
  BY <1>a, <1>b, <1>e, <1>f DEF M!TypeOK, ActorType
<1>2. JournalFits'
  BY <1>e, <1>f DEF JournalFits, MOpened, M!InTransaction
<1>3. Descent'
  <2>1. Before.rows = M!Repaired(m_first.rows)
    BY DEF Before
  <2> QED BY <1>a, <1>b, <1>e, <1>f, <2>1 DEF Descent, Unmigrated
<1>4. Referenced'
  BY <1>b, <1>e DEF Referenced
<1>5. Progress'
  <2>1. Before' = Before /\ After' = After
    BY <1>f DEF Before, After
  <2> QED BY <1>b, <1>e, <1>f, <2>1 DEF Progress
<1>6. Restoring'
  BY <1>a, <1>f DEF Restoring
<1>7. Original'
  BY <1>a, <1>f DEF Original, Saved, Untouched
<1>8. Restorable'
  BY <1>a, <1>f DEF Restorable
<1> QED BY <1>1, <1>2, <1>3, <1>4, <1>5, <1>6, <1>7, <1>8 DEF Inv

\* The migrated database is in place.
LEMMA CommitApplyKeeps ==
  ASSUME M!LegacyIsTyped, Inv, M!CommitApply
  PROVE  Inv'
<1>a. /\ M!TypeOK /\ JournalFits /\ Descent /\ Referenced /\ Progress /\ Restoring /\ Original
      /\ Restorable
  BY DEF Inv
<1>f. /\ m_actor.pc = "applying" /\ m_actor'.pc = "verify" /\ m_actor'.temp = m_actor.temp
      /\ m_actor' \in ActorType /\ UNCHANGED <<m_backups, m_cut, m_first, m_mishaps>> /\ m_journal' = None
  BY <1>a, GotoFields DEF M!CommitApply, M!Commit, M!Quiet, M!PCs, ActorType
<1>b. /\ m_file' \in [content : M!Contents, torn : BOOLEAN]
      /\ m_file'.content = m_file.content /\ ~m_file'.torn
  BY <1>a DEF M!CommitApply, M!Commit, M!TypeOK
<1>1. M!TypeOK'
  BY <1>a, <1>b, <1>f DEF M!TypeOK, ActorType
<1>2. JournalFits'
  BY <1>b, <1>f DEF JournalFits, MOpened, M!InTransaction
<1>3. Descent'
  BY <1>a, <1>b, <1>f DEF Descent, Unmigrated
<1>4. Referenced'
  BY <1>a, <1>b, <1>f DEF Referenced
<1>5. Progress'
  <2>1. After' = After
    BY <1>f DEF After
  <2> QED BY <1>a, <1>b, <1>f, <2>1 DEF Progress
<1>6. Restoring'
  BY <1>a, <1>f DEF Restoring
<1>7. Original'
  BY <1>a, <1>f DEF Original, Saved, Untouched
<1>8. Restorable'
  BY <1>a, <1>f DEF Restorable
<1> QED BY <1>1, <1>2, <1>3, <1>4, <1>5, <1>6, <1>7, <1>8 DEF Inv

\* The migrated database is served, or refused.
LEMMA VerifyKeeps ==
  ASSUME M!LegacyIsTyped, Inv, M!Verify
  PROVE  Inv'
<1>a. /\ M!TypeOK /\ JournalFits /\ Descent /\ Referenced /\ Progress /\ Restoring /\ Original
      /\ Restorable
  BY DEF Inv
<1>f. /\ m_actor.pc = "verify" /\ m_actor'.pc \in {"idle", "serving"}
      /\ m_actor'.temp \in {None, m_actor.temp} /\ m_actor' \in ActorType
      /\ UNCHANGED <<m_file, m_journal, m_backups, m_cut, m_first, m_mishaps>>
  BY <1>a, GotoFields, IdleFields DEF M!Verify, M!Refuse, M!FileKept, M!Quiet, M!PCs, ActorType
<1>b. m_file.content = After /\ M!References(m_file.content.rows) /\ After.version = 1 /\ m_journal = None
  BY <1>a, <1>f DEF Progress, After, JournalFits, MOpened
<1>1. M!TypeOK'
  BY <1>a, <1>f DEF M!TypeOK, ActorType
<1>2. JournalFits'
  BY <1>a, <1>f DEF JournalFits, MOpened, M!InTransaction
<1>3. Descent'
  BY <1>a, <1>f DEF Descent, Unmigrated
<1>4. Referenced'
  BY <1>a, <1>f DEF Referenced
<1>5. Progress'
  BY <1>b, <1>f DEF Progress
<1>6. Restoring'
  BY <1>a, <1>f DEF Restoring
<1>7. Original'
  BY <1>a, <1>f DEF Original, Saved, Untouched
<1>8. Restorable'
  BY <1>a, <1>f DEF Restorable
<1> QED BY <1>1, <1>2, <1>3, <1>4, <1>5, <1>6, <1>7, <1>8 DEF Inv

\* The program stops.
LEMMA StopKeeps ==
  ASSUME M!LegacyIsTyped, Inv, M!Stop
  PROVE  Inv'
<1>a. /\ M!TypeOK /\ JournalFits /\ Descent /\ Referenced /\ Progress /\ Restoring /\ Original
      /\ Restorable
  BY DEF Inv
<1>f. /\ m_actor.pc = "serving" /\ m_actor'.pc = "idle" /\ m_actor'.temp = None /\ m_actor' \in ActorType
      /\ UNCHANGED <<m_file, m_journal, m_backups, m_cut, m_first, m_mishaps>>
  BY IdleFields DEF M!Stop, M!FileKept, M!Quiet
<1>1. M!TypeOK'
  BY <1>a, <1>f DEF M!TypeOK, ActorType
<1>2. JournalFits'
  BY <1>a, <1>f DEF JournalFits, MOpened, M!InTransaction
<1>3. Descent'
  BY <1>a, <1>f DEF Descent, Unmigrated
<1>4. Referenced'
  BY <1>a, <1>f DEF Referenced
<1>5. Progress'
  BY <1>a, <1>f DEF Progress, Before, After
<1>6. Restoring'
  BY <1>a, <1>f DEF Restoring
<1>7. Original'
  BY <1>a, <1>f DEF Original, Saved, Untouched
<1>8. Restorable'
  BY <1>a, <1>f DEF Restorable
<1> QED BY <1>1, <1>2, <1>3, <1>4, <1>5, <1>6, <1>7, <1>8 DEF Inv

\* The program deletes a project.
LEMMA BeginWorkKeeps ==
  ASSUME M!LegacyIsTyped, Inv, NEW p \in Projects, M!BeginWork(p)
  PROVE  Inv'
<1>a. /\ M!TypeOK /\ JournalFits /\ Descent /\ Referenced /\ Progress /\ Restoring /\ Original
      /\ Restorable
  BY DEF Inv
<1>f. /\ m_actor.pc = "serving" /\ m_actor'.pc = "writing" /\ m_actor'.temp = m_actor.temp
      /\ m_actor' \in ActorType /\ UNCHANGED <<m_backups, m_cut, m_first, m_mishaps>>
  BY <1>a, GotoFields DEF M!BeginWork, M!Quiet, M!PCs, ActorType
<1>b. /\ m_file.content \in M!Contents /\ m_file.content.version = 1 /\ M!References(m_file.content.rows)
      /\ m_file.content.rows \in M!Rows
  BY <1>a, <1>f DEF Progress, M!TypeOK, M!Contents
<1> DEFINE c == [m_file.content EXCEPT !.rows = M!Remaining(m_file.content.rows, p)]
<1>c. c \in M!Contents /\ c.version = 1 /\ M!References(c.rows)
  <2>1. M!Remaining(m_file.content.rows, p) \in M!Rows /\ M!References(M!Remaining(m_file.content.rows, p))
    BY <1>b, RemainingFields, RemainingSound
  <2>2. c \in M!Contents /\ c.version = m_file.content.version
        /\ c.rows = M!Remaining(m_file.content.rows, p)
    BY <1>b, <2>1 DEF M!Contents
  <2> QED BY <1>b, <2>1, <2>2
<1>d. m_journal' = m_file.content /\ m_file' = [content |-> c, torn |-> TRUE]
  BY DEF M!BeginWork, M!Begin
<1> HIDE DEF c
<1>e. /\ m_journal' = m_file.content /\ m_journal' # None
      /\ m_file' = [content |-> c, torn |-> TRUE] /\ m_file'.content = c /\ m_file'.torn
  BY <1>b, <1>d, NotNone
<1>1. M!TypeOK'
  BY <1>a, <1>b, <1>c, <1>e, <1>f DEF M!TypeOK, ActorType
<1>2. JournalFits'
  BY <1>e, <1>f DEF JournalFits, MOpened, M!InTransaction
<1>3. Descent'
  BY <1>a, <1>c, <1>e, <1>f DEF Descent, Unmigrated
<1>4. Referenced'
  BY <1>b, <1>c, <1>e DEF Referenced
<1>5. Progress'
  BY <1>b, <1>c, <1>e, <1>f DEF Progress
<1>6. Restoring'
  BY <1>a, <1>f DEF Restoring
<1>7. Original'
  BY <1>a, <1>f DEF Original, Saved, Untouched
<1>8. Restorable'
  BY <1>a, <1>f DEF Restorable
<1> QED BY <1>1, <1>2, <1>3, <1>4, <1>5, <1>6, <1>7, <1>8 DEF Inv

\* The deletion is in place.
LEMMA CommitWorkKeeps ==
  ASSUME M!LegacyIsTyped, Inv, M!CommitWork
  PROVE  Inv'
<1>a. /\ M!TypeOK /\ JournalFits /\ Descent /\ Referenced /\ Progress /\ Restoring /\ Original
      /\ Restorable
  BY DEF Inv
<1>f. /\ m_actor.pc = "writing" /\ m_actor'.pc = "serving" /\ m_actor'.temp = m_actor.temp
      /\ m_actor' \in ActorType /\ UNCHANGED <<m_backups, m_cut, m_first, m_mishaps>> /\ m_journal' = None
  BY <1>a, GotoFields DEF M!CommitWork, M!Commit, M!Quiet, M!PCs, ActorType
<1>b. /\ m_file' \in [content : M!Contents, torn : BOOLEAN]
      /\ m_file'.content = m_file.content /\ ~m_file'.torn
  BY <1>a DEF M!CommitWork, M!Commit, M!TypeOK
<1>1. M!TypeOK'
  BY <1>a, <1>b, <1>f DEF M!TypeOK, ActorType
<1>2. JournalFits'
  BY <1>b, <1>f DEF JournalFits, MOpened, M!InTransaction
<1>3. Descent'
  BY <1>a, <1>b, <1>f DEF Descent, Unmigrated
<1>4. Referenced'
  BY <1>a, <1>b, <1>f DEF Referenced
<1>5. Progress'
  BY <1>a, <1>b, <1>f DEF Progress
<1>6. Restoring'
  BY <1>a, <1>f DEF Restoring
<1>7. Original'
  BY <1>a, <1>f DEF Original, Saved, Untouched
<1>8. Restorable'
  BY <1>a, <1>f DEF Restorable
<1> QED BY <1>1, <1>2, <1>3, <1>4, <1>5, <1>6, <1>7, <1>8 DEF Inv

\* An operator chooses a backup.
LEMMA RestoreKeeps ==
  ASSUME M!LegacyIsTyped, Inv, NEW b \in m_backups, M!Restore(b)
  PROVE  Inv'
<1>a. /\ M!TypeOK /\ JournalFits /\ Descent /\ Referenced /\ Progress /\ Restoring /\ Original
      /\ Restorable
  BY DEF Inv
<1>f. /\ m_actor.pc = "idle" /\ m_actor'.pc = "check" /\ m_actor'.temp = None /\ m_actor'.backup = b
      /\ m_actor' \in ActorType /\ b # None /\ b.metadata
      /\ UNCHANGED <<m_file, m_journal, m_backups, m_cut, m_first, m_mishaps>>
  <2>1. b \in M!Backup /\ b # None
    BY <1>a, NotNone DEF M!TypeOK
  <2>2. /\ m_actor'.pc = "check" /\ m_actor'.temp = None /\ m_actor'.backup = b /\ m_actor' \in ActorType
    BY <2>1 DEF M!Restore, M!Idle, ActorType, M!PCs
  <2> QED BY <2>1, <2>2 DEF M!Restore, M!FileKept, M!Quiet
<1>1. M!TypeOK'
  BY <1>a, <1>f DEF M!TypeOK, ActorType
<1>2. JournalFits'
  BY <1>a, <1>f DEF JournalFits, MOpened, M!InTransaction
<1>3. Descent'
  BY <1>a, <1>f DEF Descent, Unmigrated
<1>4. Referenced'
  BY <1>a, <1>f DEF Referenced
<1>5. Progress'
  BY <1>a, <1>f DEF Progress, Before, After
<1>6. Restoring'
  BY <1>a, <1>f DEF Restoring
<1>7. Original'
  BY <1>a, <1>f DEF Original, Saved, Untouched
<1>8. Restorable'
  BY <1>a, <1>f DEF Restorable
<1> QED BY <1>1, <1>2, <1>3, <1>4, <1>5, <1>6, <1>7, <1>8 DEF Inv

\* Only a backup that is whole goes on.
LEMMA CheckBackupKeeps ==
  ASSUME M!LegacyIsTyped, Inv, M!CheckBackup
  PROVE  Inv'
<1>a. /\ M!TypeOK /\ JournalFits /\ Descent /\ Referenced /\ Progress /\ Restoring /\ Original
      /\ Restorable
  BY DEF Inv
<1>f. /\ m_actor.pc = "check" /\ m_actor'.pc \in {"idle", "sidecars"} /\ m_actor' \in ActorType
      /\ m_actor'.pc = "idle" => m_actor'.temp = None
      /\ m_actor'.pc = "sidecars" => /\ m_actor'.temp = m_actor.backup /\ m_actor'.backup = m_actor.backup
                                     /\ M!Valid(m_actor.backup)
      /\ UNCHANGED <<m_file, m_journal, m_backups, m_cut, m_first, m_mishaps>>
  <2>1. CASE ~M!Valid(m_actor.backup)
    BY <2>1, IdleFields DEF M!CheckBackup, M!Refuse, M!FileKept, M!Quiet
  <2>2. CASE M!Valid(m_actor.backup)
    <3>1. m_actor' = [m_actor EXCEPT !.pc = "sidecars", !.temp = m_actor.backup]
      BY <2>2 DEF M!CheckBackup
    <3> QED BY <1>a, <2>2, <3>1 DEF M!CheckBackup, M!FileKept, M!Quiet, M!TypeOK, ActorType, M!PCs
  <2> QED BY <2>1, <2>2
<1>b. m_actor'.pc = "sidecars" =>
        /\ m_actor.backup \in m_backups /\ m_actor.backup \in M!Backup /\ m_actor.backup # None
        /\ M!Sound(m_actor.backup.content) /\ ~m_actor.backup.altered
  BY <1>a, <1>f, NotNone DEF M!Valid, M!TypeOK
<1>c. m_actor.backup # None /\ m_actor.backup.metadata
  BY <1>a, <1>f DEF Restoring
<1>d. m_actor'.pc = "sidecars" => m_actor.backup.content.version = 0
  BY <1>a, <1>b, <1>c DEF Restorable
<1>1. M!TypeOK'
  BY <1>a, <1>f DEF M!TypeOK, ActorType
<1>2. JournalFits'
  BY <1>a, <1>f DEF JournalFits, MOpened, M!InTransaction
<1>3. Descent'
  BY <1>a, <1>b, <1>f DEF Descent, Unmigrated
<1>4. Referenced'
  BY <1>a, <1>f DEF Referenced
<1>5. Progress'
  BY <1>a, <1>f DEF Progress, Before, After
<1>6. Restoring'
  BY <1>b, <1>c, <1>d, <1>f DEF Restoring
<1>7. Original'
  BY <1>a, <1>b, <1>f DEF Original, Saved, Untouched
<1>8. Restorable'
  BY <1>a, <1>f DEF Restorable
<1> QED BY <1>1, <1>2, <1>3, <1>4, <1>5, <1>6, <1>7, <1>8 DEF Inv

\* The journal is removed before the file is replaced.
LEMMA RemoveSidecarsKeeps ==
  ASSUME M!LegacyIsTyped, Inv, M!RemoveSidecars
  PROVE  Inv'
<1>a. /\ M!TypeOK /\ JournalFits /\ Descent /\ Referenced /\ Progress /\ Restoring /\ Original
      /\ Restorable
  BY DEF Inv
<1>f. /\ m_actor.pc = "sidecars" /\ m_actor'.pc = "replace" /\ m_actor'.temp = m_actor.temp
      /\ m_actor'.backup = m_actor.backup /\ m_actor' \in ActorType /\ m_journal' = None
      /\ UNCHANGED <<m_file, m_backups, m_cut, m_first, m_mishaps>>
  BY <1>a, GotoFields DEF M!RemoveSidecars, M!Removed, M!Quiet, M!PCs, ActorType
<1>1. M!TypeOK'
  BY <1>a, <1>f DEF M!TypeOK, ActorType
<1>2. JournalFits'
  BY <1>a, <1>f DEF JournalFits, MOpened, M!InTransaction
<1>3. Descent'
  BY <1>a, <1>f DEF Descent, Unmigrated
<1>4. Referenced'
  BY <1>a, <1>f DEF Referenced
<1>5. Progress'
  BY <1>a, <1>f DEF Progress, Before, After
<1>6. Restoring'
  BY <1>a, <1>f DEF Restoring
<1>7. Original'
  BY <1>a, <1>f DEF Original, Saved, Untouched
<1>8. Restorable'
  BY <1>a, <1>f DEF Restorable
<1> QED BY <1>1, <1>2, <1>3, <1>4, <1>5, <1>6, <1>7, <1>8 DEF Inv

\* The backup is in the place of the file.
LEMMA ReplaceKeeps ==
  ASSUME M!LegacyIsTyped, Inv, M!Replace
  PROVE  Inv'
<1>a. /\ M!TypeOK /\ JournalFits /\ Descent /\ Referenced /\ Progress /\ Restoring /\ Original
      /\ Restorable
  BY DEF Inv
<1>f. /\ m_actor.pc = "replace" /\ m_actor'.pc = "restored" /\ m_actor'.temp = m_actor.temp
      /\ m_actor'.backup = m_actor.backup /\ m_actor' \in ActorType /\ m_cut' = FALSE
      /\ m_journal' = None /\ UNCHANGED <<m_backups, m_first, m_mishaps>>
  BY <1>a, GotoFields DEF M!Replace, M!Quiet, M!PCs, ActorType, JournalFits
<1>b. /\ m_actor.temp \in M!Backup /\ m_actor.temp # None /\ m_actor.temp.content \in M!Contents
      /\ M!Sound(m_actor.temp.content) /\ m_actor.temp.content.version = 0 /\ m_actor.backup # None
  BY <1>a, <1>f DEF M!TypeOK, Restoring, M!Backup
<1>e. /\ m_file' \in [content : M!Contents, torn : BOOLEAN]
      /\ m_file'.content = m_actor.temp.content /\ ~m_file'.torn
  BY <1>b DEF M!Replace
<1>1. M!TypeOK'
  BY <1>a, <1>e, <1>f DEF M!TypeOK, ActorType
<1>2. JournalFits'
  BY <1>e, <1>f DEF JournalFits, MOpened, M!InTransaction
<1>3. Descent'
  BY <1>a, <1>b, <1>e, <1>f DEF Descent, Unmigrated
<1>4. Referenced'
  BY <1>b, <1>e, <1>f DEF Referenced
<1>5. Progress'
  BY <1>f DEF Progress
<1>6. Restoring'
  BY <1>b, <1>e, <1>f DEF Restoring
<1>7. Original'
  BY <1>a, <1>b, <1>e, <1>f DEF Original, Saved, Untouched
<1>8. Restorable'
  BY <1>a, <1>f DEF Restorable
<1> QED BY <1>1, <1>2, <1>3, <1>4, <1>5, <1>6, <1>7, <1>8 DEF Inv

\* The restored database is opened: there is nothing to roll back.
LEMMA CheckRestoredKeeps ==
  ASSUME M!LegacyIsTyped, Inv, M!CheckRestored
  PROVE  Inv'
<1>a. /\ M!TypeOK /\ JournalFits /\ Descent /\ Referenced /\ Progress /\ Restoring /\ Original
      /\ Restorable
  BY DEF Inv
<1>f. /\ m_actor.pc = "restored" /\ m_actor'.pc = "idle" /\ m_actor'.temp = None /\ m_actor' \in ActorType
      /\ m_journal = None /\ UNCHANGED <<m_file, m_journal, m_backups, m_cut, m_first, m_mishaps>>
  BY <1>a, IdleFields DEF M!CheckRestored, M!Recovered, M!Quiet, JournalFits, MOpened
<1>1. M!TypeOK'
  BY <1>a, <1>f DEF M!TypeOK, ActorType
<1>2. JournalFits'
  BY <1>a, <1>f DEF JournalFits, MOpened, M!InTransaction
<1>3. Descent'
  BY <1>a, <1>f DEF Descent, Unmigrated
<1>4. Referenced'
  BY <1>a, <1>f DEF Referenced
<1>5. Progress'
  BY <1>a, <1>f DEF Progress, Before, After
<1>6. Restoring'
  BY <1>a, <1>f DEF Restoring
<1>7. Original'
  BY <1>a, <1>f DEF Original, Saved, Untouched
<1>8. Restorable'
  BY <1>a, <1>f DEF Restorable
<1> QED BY <1>1, <1>2, <1>3, <1>4, <1>5, <1>6, <1>7, <1>8 DEF Inv

\* A killed process leaves what is on disk.
LEMMA KillKeeps ==
  ASSUME M!LegacyIsTyped, Inv, M!Kill
  PROVE  Inv'
<1>a. /\ M!TypeOK /\ JournalFits /\ Descent /\ Referenced /\ Progress /\ Restoring /\ Original
      /\ Restorable
  BY DEF Inv
<1>f. /\ m_actor'.pc = "idle" /\ m_actor'.temp = None /\ m_actor' \in ActorType
      /\ m_mishaps' \in Nat /\ UNCHANGED <<m_file, m_journal, m_backups, m_first>>
  BY <1>a, IdleFields DEF M!Kill, M!Mishap, M!TypeOK
<1>b. m_cut' \in BOOLEAN /\ (m_cut => m_cut') /\ (m_actor.pc = "replace" /\ m_file.torn => m_cut')
  BY <1>a DEF M!Kill, M!TypeOK
<1>1. M!TypeOK'
  BY <1>a, <1>b, <1>f DEF M!TypeOK, ActorType
<1>2. JournalFits'
  BY <1>a, <1>b, <1>f DEF JournalFits, MOpened, M!InTransaction
<1>3. Descent'
  BY <1>a, <1>f DEF Descent, Unmigrated
<1>4. Referenced'
  BY <1>a, <1>b, <1>f DEF Referenced
<1>5. Progress'
  BY <1>a, <1>f DEF Progress, Before, After
<1>6. Restoring'
  BY <1>a, <1>f DEF Restoring
<1>7. Original'
  BY <1>a, <1>f DEF Original, Saved, Untouched
<1>8. Restorable'
  BY <1>a, <1>f DEF Restorable
<1> QED BY <1>1, <1>2, <1>3, <1>4, <1>5, <1>6, <1>7, <1>8 DEF Inv

\* A replacement that fails leaves a torn file torn.
LEMMA ReplaceFailsKeeps ==
  ASSUME M!LegacyIsTyped, Inv, M!ReplaceFails
  PROVE  Inv'
<1>a. /\ M!TypeOK /\ JournalFits /\ Descent /\ Referenced /\ Progress /\ Restoring /\ Original
      /\ Restorable
  BY DEF Inv
<1>f. /\ m_actor.pc = "replace" /\ m_actor'.pc = "idle" /\ m_actor'.temp = None /\ m_actor' \in ActorType
      /\ m_mishaps' \in Nat /\ UNCHANGED <<m_file, m_journal, m_backups, m_first>>
  BY <1>a, IdleFields DEF M!ReplaceFails, M!Mishap, M!TypeOK
<1>b. m_cut' \in BOOLEAN /\ (m_cut => m_cut') /\ (m_file.torn => m_cut')
  BY <1>a DEF M!ReplaceFails, M!TypeOK
<1>1. M!TypeOK'
  BY <1>a, <1>b, <1>f DEF M!TypeOK, ActorType
<1>2. JournalFits'
  BY <1>a, <1>b, <1>f DEF JournalFits, MOpened, M!InTransaction
<1>3. Descent'
  BY <1>a, <1>f DEF Descent, Unmigrated
<1>4. Referenced'
  BY <1>a, <1>b, <1>f DEF Referenced
<1>5. Progress'
  BY <1>a, <1>f DEF Progress, Before, After
<1>6. Restoring'
  BY <1>a, <1>f DEF Restoring
<1>7. Original'
  BY <1>a, <1>f DEF Original, Saved, Untouched
<1>8. Restorable'
  BY <1>a, <1>f DEF Restorable
<1> QED BY <1>1, <1>2, <1>3, <1>4, <1>5, <1>6, <1>7, <1>8 DEF Inv

\* A backup somebody writes into is never taken for what it was.
LEMMA AlterKeeps ==
  ASSUME M!LegacyIsTyped, Inv, NEW b \in m_backups, M!Alter(b)
  PROVE  Inv'
<1>a. /\ M!TypeOK /\ JournalFits /\ Descent /\ Referenced /\ Progress /\ Restoring /\ Original
      /\ Restorable
  BY DEF Inv
<1>f. /\ m_mishaps' \in Nat /\ UNCHANGED <<m_file, m_journal, m_actor, m_cut, m_first>>
  BY <1>a DEF M!Alter, M!Mishap, M!TypeOK
<1> DEFINE n == [b EXCEPT !.altered = TRUE]
<1>b. b \in M!Backup
  BY <1>a DEF M!TypeOK
<1>c. n \in M!Backup /\ n.content = b.content /\ n.metadata = b.metadata /\ n.altered
  BY <1>b DEF M!Backup
<1>d. m_backups' = (m_backups \ {b}) \cup {n}
  BY DEF M!Alter
<1> HIDE DEF n
<1>e. /\ \A x \in m_backups' : x = n \/ x \in m_backups
      /\ \A x \in m_backups : x = b \/ x \in m_backups'
      /\ n \in m_backups' /\ b \in m_backups
  BY <1>d
<1>1. M!TypeOK'
  BY <1>a, <1>c, <1>e, <1>f DEF M!TypeOK, ActorType
<1>2. JournalFits'
  BY <1>a, <1>f DEF JournalFits, MOpened, M!InTransaction
<1>3. Descent'
  BY <1>a, <1>c, <1>e, <1>f DEF Descent, Unmigrated
<1>4. Referenced'
  BY <1>a, <1>f DEF Referenced
<1>5. Progress'
  BY <1>a, <1>f DEF Progress, Before, After
<1>6. Restoring'
  BY <1>a, <1>f DEF Restoring
<1>7. Original'
  <2>1. Saved => Saved'
    BY <1>c, <1>e, <1>f DEF Saved
  <2>2. Untouched => Untouched'
    BY <1>c, <1>e, <1>f DEF Untouched
  <2>3. M!NoTables' = M!NoTables
    BY DEF M!NoTables
  <2> QED BY <1>a, <1>f, <2>1, <2>2, <2>3 DEF Original
<1>8. Restorable'
  BY <1>a, <1>c, <1>e, <1>f DEF Restorable
<1> QED BY <1>1, <1>2, <1>3, <1>4, <1>5, <1>6, <1>7, <1>8 DEF Inv

\* A failure rolls the transaction back, and leaves no part of a backup.
LEMMA FailKeeps ==
  ASSUME M!LegacyIsTyped, Inv, M!Fail
  PROVE  Inv'
<1>a. /\ M!TypeOK /\ JournalFits /\ Descent /\ Referenced /\ Progress /\ Restoring /\ Original
      /\ Restorable
  BY DEF Inv
<1>f. /\ m_actor.pc # "replace" /\ m_actor.pc # "restored" /\ m_actor.pc # "serving"
      /\ m_mishaps' \in Nat /\ UNCHANGED <<m_cut, m_first>>
      /\ m_actor.pc = "writing" => m_actor'.pc = "serving" /\ m_actor'.temp = m_actor.temp
      /\ m_actor.pc # "writing" => m_actor'.pc = "idle" /\ m_actor'.temp = None
      /\ m_actor' \in ActorType
  <2>1. CASE m_actor.pc = "writing"
    <3>1. M!Goto("serving")
      BY <2>1 DEF M!Fail
    <3> QED BY <1>a, <2>1, <3>1, GotoFields DEF M!Fail, M!Mishap, M!TypeOK, M!PCs
  <2>2. CASE m_actor.pc # "writing"
    BY <1>a, <2>2, IdleFields DEF M!Fail, M!Mishap, M!TypeOK, M!InTransaction
  <2> QED BY <2>1, <2>2
<1>b. /\ m_backups' \subseteq m_backups
      /\ \A b \in m_backups : b.metadata => b \in m_backups'
  <2>1. m_backups' = m_backups \/ (m_actor.pc = "metadata" /\ m_backups' = m_backups \ {M!Published})
    <3>1. m_backups' = IF m_actor.temp # None /\ m_actor.backup = None THEN M!Left ELSE m_backups
      BY DEF M!Fail
    <3> QED BY <3>1 DEF M!Left
  <2>2. ASSUME m_actor.pc = "metadata" PROVE ~M!Published.metadata
    <3>1. m_actor.temp = [content |-> m_file.content, metadata |-> FALSE, altered |-> FALSE]
          /\ m_file.content \in M!Contents
      BY <1>a, <2>2 DEF Progress, M!TypeOK
    <3>2. m_actor.temp \in M!Backup /\ ~m_actor.temp.metadata
      BY <3>1 DEF M!Backup
    <3>3. ~[m_actor.temp EXCEPT !.altered = TRUE].metadata
      BY <3>2 DEF M!Backup
    <3> QED BY <3>2, <3>3 DEF M!Published
  <2> QED BY <2>1, <2>2
<1>e. /\ m_file' \in [content : M!Contents, torn : BOOLEAN] /\ m_journal' \in M!Contents \cup {None}
      /\ m_actor.pc \in M!InTransaction =>
           m_journal # None /\ m_journal' = None /\ m_file'.content = m_journal /\ ~m_file'.torn
      /\ m_actor.pc \notin M!InTransaction => UNCHANGED <<m_file, m_journal>>
  <2>1. IF m_actor.pc \in M!InTransaction THEN M!Rollback ELSE UNCHANGED <<m_file, m_journal>>
    BY DEF M!Fail
  <2>2. CASE m_actor.pc \in M!InTransaction
    <3>1. m_journal # None /\ m_journal \in M!Contents
      BY <1>a, <2>2 DEF M!TypeOK, JournalFits
    <3>2. m_journal' = None /\ m_file' = [content |-> m_journal, torn |-> FALSE]
      BY <2>1, <2>2 DEF M!Rollback
    <3> QED BY <2>2, <3>1, <3>2
  <2>3. CASE m_actor.pc \notin M!InTransaction
    BY <1>a, <2>1, <2>3 DEF M!TypeOK
  <2> QED BY <2>2, <2>3
<1>1. M!TypeOK'
  BY <1>a, <1>b, <1>e, <1>f DEF M!TypeOK, ActorType
<1>2. JournalFits'
  BY <1>a, <1>e, <1>f DEF JournalFits, MOpened, M!InTransaction
<1>3. Descent'
  BY <1>a, <1>b, <1>e, <1>f DEF Descent, Unmigrated, M!InTransaction
<1>4. Referenced'
  BY <1>a, <1>e, <1>f DEF Referenced
<1>5. Progress'
  BY <1>a, <1>e, <1>f DEF Progress, M!InTransaction
<1>6. Restoring'
  BY <1>f DEF Restoring
<1>7. Original'
  <2>1. Saved => Saved'
    BY <1>b, <1>f DEF Saved
  <2>2. Untouched => Untouched'
    BY <1>b, <1>e, <1>f DEF Untouched, M!InTransaction
  <2>3. M!NoTables' = M!NoTables
    BY DEF M!NoTables
  <2> QED BY <1>a, <1>f, <2>1, <2>2, <2>3 DEF Original
<1>8. Restorable'
  BY <1>a, <1>b DEF Restorable
<1> QED BY <1>1, <1>2, <1>3, <1>4, <1>5, <1>6, <1>7, <1>8 DEF Inv

-----------------------------------------------------------------------------
(* The theorems.                                                           *)

\* A history begins with a database whose journal, backups and holder are not there yet.
LEMMA InvInit ==
  ASSUME M!LegacyIsTyped, M!Init
  PROVE  Inv
<1>1. PICK r \in Legacy : m_first = [rows |-> r, version |-> 0]
  BY DEF M!Init
<1>2. /\ m_first \in M!Contents /\ m_first.version = 0 /\ m_first.rows = r
      /\ m_file = [content |-> m_first, torn |-> FALSE] /\ m_file.content = m_first /\ ~m_file.torn
      /\ m_journal = None /\ m_backups = {} /\ m_cut = FALSE /\ m_mishaps = 0
      /\ m_actor = M!Idle /\ m_actor.pc = "idle" /\ m_actor.temp = None /\ m_actor \in ActorType
  <2>1. r \in M!Rows
    BY <1>1 DEF M!LegacyIsTyped
  <2>2. m_first \in M!Contents /\ m_first.version = 0 /\ m_first.rows = r
    BY <1>1, <2>1 DEF M!Contents
  <2>3. m_actor = M!Idle /\ m_actor.pc = "idle" /\ m_actor.temp = None /\ m_actor \in ActorType
    BY IdleFields DEF M!Init
  <2> QED BY <2>2, <2>3 DEF M!Init
<1>3. M!TypeOK
  BY <1>2 DEF M!TypeOK, ActorType
<1>4. JournalFits
  BY <1>2 DEF JournalFits, MOpened, M!InTransaction
<1>5. Descent /\ Referenced
  BY <1>2 DEF Descent, Unmigrated, Referenced
<1>6. Progress /\ Restoring /\ Original /\ Restorable
  BY <1>2 DEF Progress, Restoring, Original, Untouched, Restorable
<1> QED BY <1>3, <1>4, <1>5, <1>6 DEF Inv

\* Every step keeps the inductive invariant.
LEMMA InvStep ==
  ASSUME M!LegacyIsTyped, Inv, [M!Next]_M!vars
  PROVE  Inv'
<1>1. CASE M!Start \/ M!ServeCurrent \/ M!Classify
  BY <1>1, StartKeeps, ServeCurrentKeeps, ClassifyKeeps
<1>2. CASE M!Copy \/ M!PublishBackup \/ M!PublishMetadata
  BY <1>2, CopyKeeps, PublishBackupKeeps, PublishMetadataKeeps
<1>3. CASE M!BeginRepair \/ M!CommitRepair \/ M!BeginApply \/ M!CommitApply \/ M!Verify
  BY <1>3, BeginRepairKeeps, CommitRepairKeeps, BeginApplyKeeps, CommitApplyKeeps, VerifyKeeps
<1>4. CASE M!CommitWork \/ M!Stop \/ \E p \in Projects : M!BeginWork(p)
  BY <1>4, CommitWorkKeeps, StopKeeps, BeginWorkKeeps
<1>5. CASE M!CheckBackup \/ M!RemoveSidecars \/ M!Replace \/ M!CheckRestored
  BY <1>5, CheckBackupKeeps, RemoveSidecarsKeeps, ReplaceKeeps, CheckRestoredKeeps
<1>6. CASE M!Kill \/ M!Fail \/ M!ReplaceFails
  BY <1>6, KillKeeps, FailKeeps, ReplaceFailsKeeps
<1>7. CASE \E b \in m_backups : M!Restore(b) \/ M!Alter(b)
  BY <1>7, RestoreKeeps, AlterKeeps
<1>8. CASE UNCHANGED M!vars
  <2>1. M!TypeOK'
    BY <1>8 DEF Inv, M!TypeOK, M!vars
  <2>2. JournalFits' /\ Descent' /\ Referenced'
    BY <1>8 DEF Inv, JournalFits, Descent, Unmigrated, Referenced, M!vars
  <2>3. Progress' /\ Restoring'
    BY <1>8 DEF Inv, Progress, Before, After, Restoring, M!vars
  <2>4. Original' /\ Restorable'
    <3>1. M!NoTables' = M!NoTables
      BY DEF M!NoTables
    <3> QED BY <1>8, <3>1 DEF Inv, Original, Saved, Untouched, Restorable, M!vars
  <2> QED BY <2>1, <2>2, <2>3, <2>4 DEF Inv
<1> QED BY <1>1, <1>2, <1>3, <1>4, <1>5, <1>6, <1>7, <1>8 DEF M!Next

\* The inductive invariant holds in every state.
THEOREM InvAlways == M!LegacyIsTyped => (M!Spec => []Inv)
<1> SUFFICES ASSUME M!LegacyIsTyped PROVE M!Spec => []Inv
  OBVIOUS
<1>1. M!Init => Inv
  BY InvInit
<1>2. Inv /\ [M!Next]_M!vars => Inv'
  BY InvStep
<1> QED BY <1>1, <1>2, PTL DEF M!Spec

\* The types: of the file, its journal, the backups, and what the holder of the lease remembers.
THEOREM MTypeCorrect == M!LegacyIsTyped => (M!Spec => []M!TypeOK)
<1> SUFFICES ASSUME M!LegacyIsTyped PROVE M!Spec => []M!TypeOK
  OBVIOUS
<1>1. M!Spec => []Inv
  BY InvAlways
<1>2. Inv => M!TypeOK
  BY DEF Inv
<1> QED BY <1>1, <1>2, PTL

\* What _verify_database and the next start rely on: the migration removes exactly what
\* nothing owns, a migrated database has its references, and no other is served.
THEOREM MigratedIsSoundAlways == M!LegacyIsTyped => (M!Spec => []M!MigratedIsSound)
<1> SUFFICES ASSUME M!LegacyIsTyped PROVE M!Spec => []M!MigratedIsSound
  OBVIOUS
<1>1. M!Spec => []Inv
  BY InvAlways
<1>2. ASSUME Inv PROVE M!MigratedIsSound
  <2>a. M!TypeOK /\ JournalFits /\ Referenced /\ Progress
    BY <1>2 DEF Inv
  <2>1. m_file.content.version = 1 /\ ~m_cut => M!References(m_file.content.rows)
    BY <2>a DEF Referenced
  <2>2. m_actor.pc = "serving" => m_file.content.version = 1 /\ (m_file.torn => m_cut)
    BY <2>a DEF Progress, JournalFits, MOpened
  <2>3. ASSUME m_actor.pc \in {"apply", "applying", "verify"}
        PROVE  M!KeepsOwned(m_first.rows, m_file.content.rows)
    <3>1. m_file.content.rows = M!Repaired(m_first.rows)
      BY <2>a, <2>3 DEF Progress, Before, After
    <3>2. m_first.rows \in M!Rows
      BY <2>a DEF M!TypeOK, M!Contents
    <3> QED BY <3>1, <3>2, RepairedKeepsOwned
  <2> QED BY <2>1, <2>2, <2>3 DEF M!MigratedIsSound
<1> QED BY <1>1, <1>2, PTL

\* create_verified_backup comes before repair_legacy_orphans: until the first database is in a
\* backup with its metadata nothing has changed it, and that backup stays.
THEOREM OriginalIsKeptAlways == M!LegacyIsTyped => (M!Spec => []M!OriginalIsKept)
<1> SUFFICES ASSUME M!LegacyIsTyped PROVE M!Spec => []M!OriginalIsKept
  OBVIOUS
<1>1. M!Spec => []Inv
  BY InvAlways
<1>2. ASSUME Inv PROVE M!OriginalIsKept
  <2>a. M!TypeOK /\ Original /\ Restorable
    BY <1>2 DEF Inv
  <2>1. Untouched => M!Effective = m_first
    BY DEF Untouched, M!Effective, M!Recovered
  <2> QED BY <2>a, <2>1 DEF Original, Saved, Restorable, M!OriginalIsKept
<1> QED BY <1>1, <1>2, PTL

\* restore_database_backup: until the backup is checked the database is what it was; a restore
\* that ends has put exactly this backup in its place; a torn file has its journal, or lost it
\* to a restore that was cut off.
THEOREM RestoreIsAllOrNothingAlways == M!LegacyIsTyped => (M!Spec => M!RestoreIsAllOrNothing)
<1> SUFFICES ASSUME M!LegacyIsTyped PROVE M!Spec => M!RestoreIsAllOrNothing
  OBVIOUS
<1> DEFINE A == /\ m_actor.pc \in {"check", "sidecars"} /\ m_actor'.pc = "idle" =>
                     M!Effective' = M!Effective
                /\ m_actor.pc = "restored" /\ m_actor'.pc = "idle" =>
                     M!Effective' = m_actor.temp.content /\ ~m_file'.torn
                /\ m_file.torn => m_journal # None \/ m_cut \/ m_actor.pc = "replace"
<1>1. M!Spec => []Inv
  BY InvAlways
<1>2. ASSUME Inv, [M!Next]_M!vars PROVE [A]_M!vars
  <2>a. M!TypeOK /\ JournalFits /\ Restoring
    BY <1>2 DEF Inv
  <2>1. ASSUME M!Next, m_actor.pc \in {"check", "sidecars"}, m_actor'.pc = "idle"
        PROVE  UNCHANGED <<m_file, m_journal>>
    <3>1. M!CheckBackup \/ M!RemoveSidecars \/ M!Kill \/ M!Fail
      BY <2>1 DEF M!Next, M!Start, M!ServeCurrent, M!Classify, M!Copy, M!PublishBackup,
           M!PublishMetadata,
           M!BeginRepair, M!CommitRepair, M!BeginApply, M!CommitApply, M!Verify, M!CommitWork,
           M!Stop,
           M!BeginWork, M!Replace, M!CheckRestored, M!ReplaceFails, M!Restore, M!Alter
    <3>2. ~M!RemoveSidecars
      BY <2>a, <2>1, GotoFields DEF M!RemoveSidecars, M!PCs
    <3> QED BY <2>1, <3>1, <3>2 DEF M!CheckBackup, M!Kill, M!Fail, M!FileKept, M!InTransaction
  <2>2. ASSUME M!Next, m_actor.pc = "restored", m_actor'.pc = "idle"
        PROVE  m_file' = m_file /\ m_journal' = None
    <3>1. M!CheckRestored \/ M!Kill
      BY <2>2 DEF M!Next, M!Start, M!ServeCurrent, M!Classify, M!Copy, M!PublishBackup,
           M!PublishMetadata,
           M!BeginRepair, M!CommitRepair, M!BeginApply, M!CommitApply, M!Verify, M!CommitWork,
           M!Stop,
           M!BeginWork, M!CheckBackup, M!RemoveSidecars, M!Replace, M!Fail, M!ReplaceFails,
           M!Restore, M!Alter,
           M!InTransaction
    <3> QED BY <2>a, <2>2, <3>1 DEF M!CheckRestored, M!Kill, M!Recovered, JournalFits
  <2>3. ASSUME M!Next PROVE A
    <3>1. m_actor.pc \in {"check", "sidecars"} /\ m_actor'.pc = "idle" => M!Effective' = M!Effective
      BY <2>1, <2>3 DEF M!Effective, M!Recovered
    <3>2. m_actor.pc = "restored" /\ m_actor'.pc = "idle" =>
            M!Effective' = m_actor.temp.content /\ ~m_file'.torn
      BY <2>a, <2>2, <2>3 DEF M!Effective, M!Recovered, Restoring, JournalFits
    <3> QED BY <2>a, <3>1, <3>2 DEF JournalFits
  <2> QED BY <1>2, <2>3
<1>3. Inv /\ [M!Next]_M!vars => [A]_M!vars
  BY <1>2
<1>4. []Inv /\ [][M!Next]_M!vars => [][A]_M!vars
  BY <1>3, PTL
<1> QED BY <1>1, <1>4, PTL DEF M!Spec, M!RestoreIsAllOrNothing

-----------------------------------------------------------------------------
(* Both.                                                                   *)

\* Every step of the two is a step of each of them, or leaves it alone.
LEMMA Apart == DatabaseSpec => Spec /\ M!Spec
<1>1. DatabaseInit => Init /\ M!Init
  BY DEF DatabaseInit
<1>2. [DatabaseNext]_databaseVars => [Next]_vars
  BY DEF DatabaseNext, LeaseMoves, MigrationMoves, databaseVars
<1>3. [DatabaseNext]_databaseVars => [M!Next]_M!vars
  BY DEF DatabaseNext, LeaseMoves, MigrationMoves, databaseVars, m_vars, M!vars
<1> QED
  BY <1>1, <1>2, <1>3, PTL DEF DatabaseSpec, Spec, M!Spec

\* While two processes start on a database, one at a time serves it, the lease of the one that
\* serves stays in its place, and its file is not deleted: with deaths anywhere but between a
\* rename and the step that undoes it, and payloads that can be written.
THEOREM LeaseIsExclusiveAlways ==
    ASSUME Two, ~WritesMayFail, CrashAt \cap Windows = {}
    PROVE DatabaseSpec => []LeaseIsExclusive
<1>1. Spec => []TypeOK
  BY TypeCorrect
<1>2. Spec => [](Exclusive /\ UndisturbedLeaseIsInPlace)
  BY TwoProcessesExclude
<1>3. Spec => []LeaseFileSurvives
  BY LeaseFileSurvivesAlways
<1>4. TypeOK /\ (Exclusive /\ UndisturbedLeaseIsInPlace) /\ LeaseFileSurvives => LeaseIsExclusive
  BY DEF LeaseIsExclusive
<1> QED
  BY <1>1, <1>2, <1>3, <1>4, Apart, PTL

\* A start-up serves a database only when it is migrated and sound, and the migration has
\* removed what nothing owned and kept the rest.
THEOREM MigratedDatabaseIsSound == DatabaseSpec => []MigratedIsSound
<1>1. M!Spec => []M!TypeOK
  BY LegacyAssumption, MTypeCorrect
<1>2. M!Spec => []M!MigratedIsSound
  BY LegacyAssumption, MigratedIsSoundAlways
<1>3. M!TypeOK /\ M!MigratedIsSound => MigratedIsSound
  BY DEF MigratedIsSound
<1> QED
  BY <1>1, <1>2, <1>3, Apart, PTL

\* Whatever is killed or fails in a migration or a restore, the first database is the file or
\* in a backup with its metadata, and a restore is made whole or not at all.
THEOREM BackupsHoldAlways == DatabaseSpec => BackupsHold
<1>1. M!Spec => []M!OriginalIsKept
  BY LegacyAssumption, OriginalIsKeptAlways
<1>2. M!Spec => M!RestoreIsAllOrNothing
  BY LegacyAssumption, RestoreIsAllOrNothingAlways
<1> QED
  BY <1>1, <1>2, Apart, PTL DEF BackupsHold
=============================================================================

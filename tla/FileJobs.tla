------------------------------ MODULE FileJobs ------------------------------
(***************************************************************************)
(* What the background file operations promise the rest of the program.    *)
(*                                                                         *)
(* Jobs are served strictly in the order they were submitted, one at a     *)
(* time.  While a copy or a move is being served its destination is        *)
(* "pending": nobody may rely on what it holds.  When the job ends the     *)
(* destination holds the whole source, or the job gave up and it holds at  *)
(* most a prefix; no other file is touched, except that a move which       *)
(* delivered everything takes the source away.                             *)
(*                                                                         *)
(* This is the abstract specification of module TaskQueue.                 *)
(***************************************************************************)
EXTENDS Naturals, Sequences

CONSTANTS
  Path,      \* the paths the jobs name
  Job        \* the jobs: records with an id, a type, a src and a dst

VARIABLES
  waiting,   \* the jobs not yet served, in order of submission
  store      \* what each path holds, as a client may see it

vars == <<waiting, store>>

NoFile     == [kind |-> "none", data |-> <<>>]
Pending    == [kind |-> "pending", data |-> <<>>]
File(data) == [kind |-> "file", data |-> data]

Transfers(j) == j.type \in {"copy", "move"}

\* Everything a job that gives up may leave at its destination.
Prefixes(j) ==
  {File(SubSeq(store[j.src].data, 1, n)) : n \in 0 .. Len(store[j.src].data)}

-----------------------------------------------------------------------------

Init ==
  /\ waiting = <<>>
  /\ \A p \in Path : store[p].kind # "pending"

Submit(j) ==
  /\ waiting' = Append(waiting, j)
  /\ UNCHANGED store

\* The first job takes hold of its destination.
Claim ==
  /\ waiting # <<>>
  /\ Transfers(Head(waiting))
  /\ store[Head(waiting).src].kind = "file"
  /\ Head(waiting).src # Head(waiting).dst
  /\ store' = [store EXCEPT ![Head(waiting).dst] = Pending]
  /\ UNCHANGED waiting

\* The first job delivers its source, whole; a move then takes the source
\* away, unless the file system refuses.
Deliver ==
  /\ waiting # <<>>
  /\ waiting' = Tail(waiting)
  /\ LET j    == Head(waiting)
         full == [store EXCEPT ![j.dst] = store[j.src]]
     IN  /\ Transfers(j)
         /\ store[j.src].kind = "file"
         /\ \/ store' = full
            \/ j.type = "move" /\ store' = [full EXCEPT ![j.src] = NoFile]

\* The first job gives up: its destination is as before, gone, or a prefix.
GiveUp ==
  /\ waiting # <<>>
  /\ waiting' = Tail(waiting)
  /\ LET j == Head(waiting)
     IN  /\ Transfers(j)
         /\ \/ store[j.dst].kind # "pending" /\ UNCHANGED store
            \/ store' = [store EXCEPT ![j.dst] = NoFile]
            \/ \E part \in Prefixes(j) : store' = [store EXCEPT ![j.dst] = part]

\* The first job deletes its path, or fails to, or has no effect on files.
Erase ==
  /\ waiting # <<>>
  /\ waiting' = Tail(waiting)
  /\ \/ UNCHANGED store
     \/ /\ Head(waiting).type = "delete"
        /\ store' = [store EXCEPT ![Head(waiting).src] = NoFile]
  /\ ~Transfers(Head(waiting))

\* The program ends: no job is served any more; a pending destination is
\* left with what had been written.
Shutdown ==
  /\ waiting' = <<>>
  /\ \/ UNCHANGED store
     \/ /\ waiting # <<>>
        /\ \E part \in Prefixes(Head(waiting)) :
              store' = [store EXCEPT ![Head(waiting).dst] = part]

Next ==
  \/ \E j \in Job : Submit(j)
  \/ Claim
  \/ Deliver
  \/ GiveUp
  \/ Erase
  \/ Shutdown

Spec == Init /\ [][Next]_vars
=============================================================================

-------------------------------- MODULE Logs --------------------------------
(***************************************************************************)
(* The program's log (logger.c): one file that is appended to, set aside   *)
(* under the time of day when it grows too long, and begun anew.  Its      *)
(* length is all that is looked at.                                        *)
(***************************************************************************)
EXTENDS Integers

CONSTANTS
  MaxLogSize,  \* MAX_LOG_SIZE
  LongestLine, \* bound: lines are 1 to so long
  MaxMissed    \* bound: of what the count misses

VARIABLES
  logs,     \* the log files on the card: their lengths, or Absent
  backups,  \* the log set aside in this second: its length, or Absent
  handle,   \* s_log_file: which file is open, or "stdout", or "none"
  size,     \* s_log_size
  missed    \* how much of the logs was never counted: it was there when a log was
            \* opened and could not be measured, or is of lines that failed

vars == <<logs, backups, handle, size, missed>>

Absent   == -1
Current  == "current"
TryPaths == <<Current, "fallback1", "fallback2">>
LogFiles == {TryPaths[i] : i \in DOMAIN TryPaths}

Missed(n) == missed' = missed + n /\ missed' <= MaxMissed

\* The first of the three files that opens, or stdout.  Opening makes it.  A file
\* that is open is left open.  Where the end is, is not looked at: without the seek
\* it is the beginning, and when that is not told either it is -1, to which the
\* unsigned count wraps and from which it goes on to zero.
LoggerInit ==
  /\ UNCHANGED backups
  /\ \/ \E f \in LogFiles :
          /\ handle' = f
          /\ logs' = [logs EXCEPT ![f] = IF @ = Absent THEN 0 ELSE @]
          /\ size' \in {logs'[f], 0, -1}
          /\ Missed(logs'[f] - size')
     \/ handle' = "stdout" /\ size' = 0 /\ UNCHANGED <<logs, missed>>

LoggerExit ==
  /\ handle # "none"
  /\ handle' = "none" /\ size' = 0
  /\ UNCHANGED <<logs, backups, missed>>

\* Mutant of Fits: the line to come is not counted.
FitsWithout(n) == handle = "stdout" \/ size <= MaxLogSize

Fits(n) == handle = "stdout" \/ size + n <= MaxLogSize

\* (The lines in stdout are counted too, but nothing looks at that.)
\* The line is counted, whether or not the card took it: the flush is not looked
\* at.  Of a line that fails something may be written, and is not counted.
Append(n) ==
  /\ handle # "none" /\ Fits(n)
  /\ IF handle = "stdout" THEN UNCHANGED <<logs, size, missed>>
     ELSE \/ /\ size' = size + n
             /\ \E m \in {0, n} : logs' = [logs EXCEPT ![handle] = @ + m]
             /\ UNCHANGED missed
          \/ \E m \in 0 .. n : /\ logs' = [logs EXCEPT ![handle] = @ + m]
                               /\ Missed(m)
                               /\ UNCHANGED size
  /\ UNCHANGED <<backups, handle>>

\* rotate_logs_if_needed, before the line is written.  Whichever file was open, it
\* is the first that is renamed and begun anew, and the result of renaming is not
\* looked at: a log the card cannot set aside, as when one already has the name of
\* this second, is emptied.  When the new one cannot be opened nothing is logged
\* until the next initialisation.
Rotate(n) ==
  /\ handle \in LogFiles /\ ~Fits(n)
  /\ \E renamed \in {TRUE, FALSE} :
       /\ renamed => logs[Current] # Absent /\ backups = Absent
       /\ backups' = IF renamed THEN logs[Current] ELSE backups
       /\ \/ \* and then the line, as in Append
             /\ handle' = Current
             /\ \E m \in 0 .. n :
                  /\ logs' = [logs EXCEPT ![Current] = m]
                  /\ \/ m \in {0, n} /\ size' = n /\ UNCHANGED missed
                     \/ size' = 0 /\ Missed(m)
          \/ /\ handle' = "none" /\ UNCHANGED <<size, missed>>
             /\ logs' = IF renamed THEN [logs EXCEPT ![Current] = Absent] ELSE logs

LogEvent == \E n \in 1..LongestLine : Append(n) \/ Rotate(n)

SecondPasses ==
  /\ backups # Absent
  /\ backups' = Absent
  /\ UNCHANGED <<logs, handle, size, missed>>

\* The program is killed and begins again.
Restart ==
  /\ handle # "none"
  /\ handle' = "none" /\ size' = 0
  /\ UNCHANGED <<logs, backups, missed>>

Init ==
  /\ logs \in [LogFiles -> {0, MaxLogSize, Absent}]
  /\ backups = Absent /\ handle = "none" /\ size = 0 /\ missed = 0

Next == LoggerInit \/ LoggerExit \/ LogEvent \/ SecondPasses \/ Restart

Spec == Init /\ [][Next]_vars

-----------------------------------------------------------------------------
\* No log file is ever longer than MAX_LOG_SIZE, whichever of them is written, and
\* however often opening, renaming and flushing fail, by more than what the code
\* never counts: what was in a log whose end could not be told when it was opened,
\* and lines that fail.  The length that is counted is never further behind.
LogBounded ==
  /\ \A f \in LogFiles : logs[f] <= MaxLogSize + missed
  /\ handle \in LogFiles => logs[handle] # Absent /\ logs[handle] <= size + missed
  /\ backups <= MaxLogSize + missed
=============================================================================

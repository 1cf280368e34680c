---------------------------- MODULE ServicesProofs ----------------------------
(***************************************************************************)
(* What module Services guarantees for every value of its constants: one   *)
(* part after the other, each with the invariant its properties rest on.   *)
(***************************************************************************)
EXTENDS Services, Integers, FunctionTheorems, FiniteSetTheorems,
        NaturalsInduction, WellFoundedInduction, TLAPS

-----------------------------------------------------------------------------
(* The log: what is counted and what the count missed are together never   *)
(* behind the file that is open; neither is ever taken back.               *)

LogsInv ==
  /\ missed \in Nat
  /\ logs \in [L!LogFiles -> Int]
  /\ \A f \in L!LogFiles : -1 <= logs[f] /\ logs[f] <= MaxLogSize + missed
  /\ backups \in Int /\ backups <= MaxLogSize + missed
  /\ handle \in L!LogFiles \cup {"stdout", "none"}
  /\ handle \in L!LogFiles => /\ size \in Int /\ -1 <= size
                              /\ logs[handle] \in Nat /\ logs[handle] <= size + missed

ILogs == running = "logging" => LogsInv

LEMMA LogFileNames ==
  /\ L!LogFiles = {"current", "fallback1", "fallback2"}
  /\ L!Current = "current" /\ L!Absent = -1
BY DEF L!LogFiles, L!TryPaths, L!Current, L!Absent

LEMMA LogsStep ==
  ASSUME LogsInv, L!Next
  PROVE  LogsInv'
<1> USE LogFileNames, LogsAssumption
<1>1. CASE L!LoggerInit
  <2>1. CASE handle' = "stdout" /\ UNCHANGED <<logs, backups, missed>>
    BY <2>1 DEF LogsInv
  <2>2. ASSUME NEW f \in L!LogFiles, NEW h, NEW k,
               h = [logs EXCEPT ![f] = IF @ = -1 THEN 0 ELSE @], k \in {h[f], 0, -1},
               handle' = f, logs' = h, size' = k, missed' = missed + (h[f] - k), backups' = backups
        PROVE  LogsInv'
    <3>1. /\ h \in [L!LogFiles -> Int] /\ h[f] \in Nat /\ h[f] <= MaxLogSize + missed
          /\ \A g \in L!LogFiles : -1 <= h[g] /\ h[g] <= MaxLogSize + missed
      BY <2>2 DEF LogsInv
    <3>2. missed' \in Nat /\ missed <= missed' /\ h[f] <= k + missed' /\ k \in Int /\ -1 <= k
      BY <2>2, <3>1 DEF LogsInv
    <3> QED
      BY <2>2, <3>1, <3>2 DEF LogsInv
  <2> QED
    BY <1>1, <2>1, <2>2 DEF L!LoggerInit, L!Missed
<1>2. CASE L!LoggerExit \/ L!Restart
  BY <1>2 DEF L!LoggerExit, L!Restart, LogsInv
<1>3. ASSUME NEW n \in 1 .. LongestLine, L!Append(n) PROVE LogsInv'
  <2>1. CASE handle = "stdout"
    BY <1>3, <2>1 DEF L!Append, LogsInv
  <2>2. CASE handle # "stdout"
    <3>1. /\ handle \in L!LogFiles /\ handle' = handle /\ backups' = backups
          /\ size + n <= MaxLogSize
      BY <1>3, <2>2 DEF L!Append, L!Fits, LogsInv
    <3>2. ASSUME NEW m \in 0 .. n, logs' = [logs EXCEPT ![handle] = @ + m],
                 \/ size' = size + n /\ missed' = missed
                 \/ size' = size /\ missed' = missed + m
          PROVE  LogsInv'
      BY <3>1, <3>2 DEF LogsInv
    <3> QED
      BY <1>3, <2>2, <3>2 DEF L!Append, L!Missed
  <2> QED
    BY <2>1, <2>2
<1>4. ASSUME NEW n \in 1 .. LongestLine, L!Rotate(n) PROVE LogsInv'
  <2>1. /\ backups' \in {backups, logs["current"]}
        /\ \/ /\ handle' = "current"
              /\ \E m \in 0 .. n : /\ logs' = [logs EXCEPT !["current"] = m]
                                   /\ \/ size' = n /\ missed' = missed
                                      \/ size' = 0 /\ missed' = missed + m
           \/ /\ handle' = "none" /\ missed' = missed
              /\ logs' \in {logs, [logs EXCEPT !["current"] = -1]}
    BY <1>4 DEF L!Rotate, L!Missed
  <2>2. n <= MaxLogSize /\ n \in Nat
    OBVIOUS
  <2> QED
    BY <2>1, <2>2 DEF LogsInv
<1>5. CASE L!SecondPasses
  BY <1>5 DEF L!SecondPasses, LogsInv
<1> QED
  BY <1>1, <1>2, <1>3, <1>4, <1>5 DEF L!Next, L!LogEvent

LEMMA LogsKept == Spec => []ILogs
<1>1. Init => ILogs
  <2> SUFFICES ASSUME L!Init PROVE LogsInv
    BY DEF Init, ILogs
  <2> QED
    BY LogFileNames, LogsAssumption DEF L!Init, LogsInv
<1>2. ILogs /\ [Next]_vars => ILogs'
  <2> SUFFICES ASSUME ILogs, [Next]_vars, running' = "logging" PROVE LogsInv'
    BY DEF ILogs
  <2>1. CASE running = "logging" /\ L!Next
    BY <2>1, LogsStep DEF ILogs
  <2>2. CASE UNCHANGED vars
    BY <2>2 DEF ILogs, vars, loggingVars, LogsInv
  <2> QED
    BY <2>1, <2>2 DEF Next, Others
<1> QED
  BY <1>1, <1>2, PTL DEF Spec

LEMMA LogsBounded ==
  ASSUME ILogs, running = "logging"
  PROVE  L!LogBounded
BY LogFileNames, LogsAssumption DEF ILogs, LogsInv, L!LogBounded

-----------------------------------------------------------------------------
(* The modes.  Both properties are inductive as they stand.                *)

GuardInv == M!ChangesNeedPin /\ M!ProtectedHolds

IGuard == running = "guarded" => GuardInv

\* A pin opens everything; nothing else opens what a mode has closed.
LEMMA AccessStep ==
  ASSUME M!ChangesNeedPin, M!Next
  PROVE  M!ChangesNeedPin'
<1>1. ASSUME NEW m \in {"normal", "guest", "safe", "parental"}, M!SetMode(m)
      PROVE  M!ChangesNeedPin'
  BY <1>1 DEF M!SetMode, M!Chosen, M!AccessIn, M!ChangesNeedPin
<1>2. CASE M!VerifyPin
  BY <1>2 DEF M!VerifyPin, M!ChangesNeedPin
<1>3. CASE UNCHANGED <<mode, access, knew>>
  BY <1>3 DEF M!ChangesNeedPin
<1> QED
  BY <1>1, <1>2, <1>3
  DEF M!Next, M!SecurityInit, M!SecurityExit, M!EndGuest, M!GuestExpired,
      M!MinutePasses, M!SetPin, M!Lock, M!LogStart, M!LogEnd

\* An operation that is let through has been asked for every rule of both paths,
\* and for the access there is.
LEMMA LoggedStep ==
  ASSUME M!ChangesNeedPin, M!LogStart
  PROVE  M!ProtectedHolds'
<1> DEFINE ops == M!TwoPaths \cup {"delete", "create", "mkdir"}
<1>1. PICK op \in ops, s \in Paths, d \in Paths :
        logged' = [op |-> op, src |-> s,
                   dst |-> IF op \in M!TwoPaths THEN d ELSE s,
                   blocked |-> ~(/\ M!OperationAllowed(s, M!Needed(op))
                                 /\ op \in M!TwoPaths => M!OperationAllowed(d, {"write"}))]
  BY DEF M!LogStart
<1>2. /\ logged'.op = op /\ logged'.src = s
      /\ op \in M!TwoPaths => logged'.dst = d
      /\ op \notin M!TwoPaths => logged'.dst = s
      /\ ~logged'.blocked => /\ M!OperationAllowed(s, M!Needed(op))
                             /\ op \in M!TwoPaths => M!OperationAllowed(d, {"write"})
  BY <1>1
<1>3. UNCHANGED <<mode, access, protected, knew>>
  BY DEF M!LogStart
<1>4. /\ M!Needed(op) \cap {"write", "delete"} # {}
      /\ M!Needed(op) # {"read"}
  BY DEF M!Needed, M!TwoPaths
<1>5. ASSUME ~logged'.blocked
      PROVE  /\ \A r \in s.rules : protected[r] > 0 => M!Needed(op) \subseteq Rules[r]
             /\ op \in M!TwoPaths => \A r \in d.rules : protected[r] > 0 => "write" \in Rules[r]
             /\ mode = "safe" => ~s.critical /\ (op \in M!TwoPaths => ~d.critical)
             /\ M!Needed(op) \subseteq access
  BY <1>2, <1>4, <1>5 DEF M!OperationAllowed, M!CheckAccess
<1>6. ASSUME ~logged'.blocked, mode # "normal" PROVE knew
  <2>1. access \cap {"write", "delete"} # {}
    BY <1>4, <1>5, <1>6
  <2> QED
    BY <1>6, <2>1 DEF M!ChangesNeedPin
<1> QED
  BY <1>2, <1>3, <1>5, <1>6 DEF M!ProtectedHolds

LEMMA GuardStep ==
  ASSUME GuardInv, M!Next
  PROVE  GuardInv'
<1>1. M!ChangesNeedPin'
  BY AccessStep DEF GuardInv
<1>2. CASE logged' = M!NotLogged
  BY <1>1, <1>2 DEF M!ProtectedHolds, M!NotLogged, GuardInv
<1>3. CASE M!LogStart
  BY <1>1, <1>3, LoggedStep DEF GuardInv
<1> QED
  BY <1>2, <1>3
  DEF M!Next, M!SecurityInit, M!SecurityExit, M!SetMode, M!EndGuest,
      M!GuestExpired, M!MinutePasses, M!SetPin, M!VerifyPin, M!Lock, M!LogEnd

\* Outside of normal mode, which anybody may choose, nothing is changed unless a
\* pin was known since the mode was chosen or still counted then, and no pin, mode
\* or order of calls lets an operation through that the rules of either path, or
\* safe mode, forbid (security_mode.c, file_op_logger.c).
THEOREM AccessHeldHolds == Spec => []AccessHeld
<1>1. Init => IGuard
  BY DEF Init, IGuard, GuardInv, M!Init, M!ChangesNeedPin, M!ProtectedHolds, M!NotLogged
<1>2. IGuard /\ [Next]_vars => IGuard'
  <2> SUFFICES ASSUME IGuard, [Next]_vars, running' = "guarded" PROVE GuardInv'
    BY DEF IGuard
  <2>1. CASE running = "guarded" /\ M!Next
    BY <2>1, GuardStep DEF IGuard
  <2>2. CASE UNCHANGED vars
    BY <2>2 DEF IGuard, vars, guardedVars, GuardInv, M!ChangesNeedPin, M!ProtectedHolds
  <2> QED
    BY <2>1, <2>2 DEF Next, Others
<1>3. IGuard => AccessHeld
  BY DEF IGuard, GuardInv, AccessHeld
<1> QED
  BY <1>1, <1>2, <1>3, PTL DEF Spec

-----------------------------------------------------------------------------
(* The controls.  How far the count of a held button is past the delay     *)
(* says how long ago the last event of navigation was.                     *)

PaceInv ==
  /\ rate \in 0 .. RepeatDelay + RepeatInterval
  /\ gap \in 0 .. RepeatInterval
  /\ rate \in RepeatDelay + 1 .. RepeatDelay + RepeatInterval - 1 =>
       gap >= rate - RepeatDelay
  /\ rate <= RepeatDelay => gap >= rate \/ gap = RepeatInterval

IPace == running = "pressed" => PaceInv

\* The names of buttons are no events of navigation.
LEMMA ButtonsDoNotNavigate ==
  /\ C!OneOf(C!First) => event' \notin C!Nav
  /\ C!OneOf(C!Sides) => event' \notin C!Nav
  /\ C!OneOf(C!Later) => event' \notin C!Nav
<1>1. /\ \A i \in DOMAIN C!First : C!First[i] \notin C!Nav
      /\ \A i \in DOMAIN C!Sides : C!Sides[i] \notin C!Nav
      /\ \A i \in DOMAIN C!Later : C!Later[i] \notin C!Nav
  BY DEF C!First, C!Sides, C!Later, C!Nav
<1>2. ASSUME NEW bs, C!OneOf(bs) PROVE \E i \in DOMAIN bs : event' = bs[i]
  BY <1>2 DEF C!OneOf
<1> QED
  BY <1>1, <1>2

\* How a frame changes the count: it stays and nothing navigates, it begins
\* anew, it goes on and nothing navigates, or it repeats.
LEMMA FrameCounts ==
  ASSUME C!Frame
  PROVE  \/ rate' = rate /\ event' \notin C!Nav
         \/ rate' = 0
         \/ rate' = C!Ticked /\ ~C!Repeats /\ event' \notin C!Nav
         \/ rate' = C!Ticked /\ C!Repeats /\ event' \in C!Nav
<1>1. CASE C!Open \/ C!MultiSelect
  BY <1>1 DEF C!Open, C!MultiSelect, C!Nav
<1>2. CASE C!Command
  BY <1>2, ButtonsDoNotNavigate DEF C!Command
<1>3. CASE C!Navigate
  BY <1>3 DEF C!Navigate
<1>4. CASE C!Side
  BY <1>4, ButtonsDoNotNavigate DEF C!Side
<1>5. CASE C!Repeat
  BY <1>5 DEF C!Repeat, C!Nav
<1>6. CASE C!Late
  <2>1. event' \notin C!Nav /\ C!PastRepeat
    BY <1>6, ButtonsDoNotNavigate DEF C!Late
  <2> QED
    BY <2>1 DEF C!PastRepeat
<1>7. CASE C!Rest
  <2>1. event' \notin C!Nav /\ C!PastRepeat
    BY <1>7 DEF C!Rest, C!Nav
  <2> QED
    BY <2>1 DEF C!PastRepeat
<1> QED
  BY <1>1, <1>2, <1>3, <1>4, <1>5, <1>6, <1>7 DEF C!Frame

LEMMA PaceStep ==
  ASSUME PaceInv, C!Next
  PROVE  PaceInv'
<1>1. /\ RepeatDelay \in Nat /\ RepeatInterval \in Nat /\ RepeatInterval >= 1
      /\ rate \in Nat /\ rate <= RepeatDelay + RepeatInterval
      /\ gap \in Nat /\ gap <= RepeatInterval
  BY ControlsAssumption DEF PaceInv
<1>2. CASE C!Clear
  BY <1>1, <1>2 DEF C!Clear, PaceInv
<1>3. CASE C!Frame
  <2>1. gap' = IF event' \in C!Nav THEN 0
               ELSE IF gap < RepeatInterval THEN gap + 1 ELSE gap
    BY <1>3 DEF C!Frame
  <2>2. CASE rate' = rate /\ event' \notin C!Nav
    BY <1>1, <2>1, <2>2 DEF PaceInv
  <2>3. CASE rate' = 0
    BY <1>1, <2>1, <2>3 DEF PaceInv
  <2>4. CASE rate' = C!Ticked /\ ~C!Repeats /\ event' \notin C!Nav
    BY <1>1, <2>1, <2>4 DEF PaceInv, C!Ticked, C!Repeats
  <2>5. CASE rate' = C!Ticked /\ C!Repeats /\ event' \in C!Nav
    BY <1>1, <2>1, <2>5 DEF PaceInv, C!Ticked, C!Repeats
  <2> QED
    BY <1>3, <2>2, <2>3, <2>4, <2>5, FrameCounts
<1> QED
  BY <1>2, <1>3 DEF C!Next

\* Holding a button repeats it no sooner than the interval after the last event
\* of navigation, whatever was pressed and let go in between
\* (switch_controls.c).
THEOREM RepeatsPacedHolds == Spec => RepeatsPaced
<1>1. Init => IPace
  <2> SUFFICES ASSUME C!Init PROVE PaceInv
    BY DEF Init, IPace
  <2> QED
    BY ControlsAssumption DEF C!Init, PaceInv
<1>2. IPace /\ [Next]_vars => IPace'
  <2> SUFFICES ASSUME IPace, [Next]_vars, running' = "pressed" PROVE PaceInv'
    BY DEF IPace
  <2>1. CASE running = "pressed" /\ C!Next
    BY <2>1, PaceStep DEF IPace
  <2>2. CASE UNCHANGED vars
    BY <2>2 DEF IPace, vars, pressedVars, PaceInv
  <2> QED
    BY <2>1, <2>2 DEF Next, Others
<1>3. IPace => (running = "pressed" => (C!Repeat => gap + 1 >= RepeatInterval))
  <2> SUFFICES ASSUME PaceInv, C!Repeats PROVE gap + 1 >= RepeatInterval
    BY DEF IPace, C!Repeat
  <2> QED
    BY ControlsAssumption DEF PaceInv, C!Repeats, C!Ticked
<1> QED
  BY <1>1, <1>2, <1>3, PTL DEF Spec, RepeatsPaced

-----------------------------------------------------------------------------
(* Start-up and the link.                                                  *)

StartInv ==
  /\ phase \in {"starting", "running", "failed", "over"}
  /\ booted \in 0 .. Len(U!Order)
  /\ phase = "starting" => booted < Len(U!Order)
  /\ phase = "running" => booted = Len(U!Order)
  /\ phase \in {"starting", "running"} =>
       \A i \in 1 .. booted : U!Order[i] \in up \cup U!Optional
  /\ state \in {"disconnected", "connected"}
  /\ phase = "starting" => state = "disconnected"
  /\ U!LinkBacked /\ U!AllUp

IStart == running = "started" => StartInv

\* Three sequences, one behind the other.
LEMMA JoinData ==
  ASSUME NEW S, NEW a \in Seq(S), NEW b \in Seq(S), NEW c \in Seq(S)
  PROVE  /\ Len((a \o b) \o c) = Len(a) + Len(b) + Len(c)
         /\ \A i \in 1 .. Len(a) : ((a \o b) \o c)[i] = a[i]
         /\ \A i \in 1 .. Len(b) : ((a \o b) \o c)[Len(a) + i] = b[i]
         /\ \A i \in 1 .. Len(c) : ((a \o b) \o c)[Len(a) + Len(b) + i] = c[i]
         /\ DOMAIN ((a \o b) \o c) = 1 .. Len(a) + Len(b) + Len(c)
<1> DEFINE d == a \o b
<1>1. /\ d \in Seq(S) /\ Len(d) = Len(a) + Len(b)
      /\ \A i \in 1 .. Len(a) : d[i] = a[i]
      /\ \A i \in 1 .. Len(b) : d[Len(a) + i] = b[i]
  OBVIOUS
<1>2. Len(a) \in Nat /\ Len(b) \in Nat /\ Len(c) \in Nat
  OBVIOUS
<1> HIDE DEF d
<1>3. /\ Len(d \o c) = Len(d) + Len(c)
      /\ d \o c \in Seq(S)
      /\ \A i \in 1 .. Len(d) : (d \o c)[i] = d[i]
      /\ \A i \in 1 .. Len(c) : (d \o c)[Len(d) + i] = c[i]
  <2>1. d \in Seq(S)
    BY <1>1
  <2> QED
    BY <2>1
<1>4. DOMAIN (d \o c) = 1 .. Len(d) + Len(c)
  BY <1>3
<1>5. \A i \in 1 .. Len(a) : (d \o c)[i] = a[i]
  BY <1>1, <1>2, <1>3
<1>6. \A i \in 1 .. Len(b) : (d \o c)[Len(a) + i] = b[i]
  <2> SUFFICES ASSUME NEW i \in 1 .. Len(b) PROVE (d \o c)[Len(a) + i] = b[i]
    OBVIOUS
  <2>1. Len(a) + i \in 1 .. Len(d)
    BY <1>1, <1>2
  <2> QED
    BY <1>1, <1>3, <2>1
<1>7. \A i \in 1 .. Len(c) : (d \o c)[Len(a) + Len(b) + i] = c[i]
  BY <1>1, <1>3
<1>8. Len(d \o c) = Len(a) + Len(b) + Len(c)
  BY <1>1, <1>3
<1> QED
  BY <1>1, <1>4, <1>5, <1>6, <1>7, <1>8 DEF d

LEMMA OrderData ==
  /\ Len(U!Order) = 15 /\ DOMAIN U!Order = 1 .. 15
  /\ U!Order[1] = "crypto" /\ U!Order[2] = "validation" /\ U!Order[3] = "audit"
  /\ U!Order[4] = "romfs" /\ U!Order[5] = "socket" /\ U!Order[6] = "nifm"
  /\ U!Order[7] = "secure" /\ U!Order[8] = "tasks" /\ U!Order[9] = "store"
  /\ U!Order[10] = "system" /\ U!Order[11] = "logger" /\ U!Order[12] = "verify"
  /\ U!Order[13] = "usb" /\ U!Order[14] = "titlekey" /\ U!Order[15] = "browser"
<1> DEFINE a == U!Security
           b == U!App
           c == U!Goldleaf
           S == {"crypto", "validation", "audit", "romfs", "socket", "nifm",
                 "secure", "tasks", "store", "system", "logger", "verify",
                 "usb", "titlekey", "browser"}
<1>1. a \in Seq(S) /\ b \in Seq(S) /\ c \in Seq(S)
  BY DEF U!Security, U!App, U!Goldleaf
<1>2. Len(a) = 3 /\ Len(b) = 8 /\ Len(c) = 4
  BY DEF U!Security, U!App, U!Goldleaf
<1>3. U!Order = (a \o b) \o c
  BY Zenon DEF U!Order
<1>4. /\ a[1] = "crypto" /\ a[2] = "validation" /\ a[3] = "audit"
      /\ b[1] = "romfs" /\ b[2] = "socket" /\ b[3] = "nifm" /\ b[4] = "secure"
      /\ b[5] = "tasks" /\ b[6] = "store" /\ b[7] = "system" /\ b[8] = "logger"
      /\ c[1] = "verify" /\ c[2] = "usb" /\ c[3] = "titlekey" /\ c[4] = "browser"
  BY DEF U!Security, U!App, U!Goldleaf
<1> HIDE DEF a, b, c, S
<1>5. /\ Len(U!Order) = Len(a) + Len(b) + Len(c)
      /\ DOMAIN U!Order = 1 .. Len(a) + Len(b) + Len(c)
      /\ \A i \in 1 .. Len(a) : U!Order[i] = a[i]
      /\ \A i \in 1 .. Len(b) : U!Order[Len(a) + i] = b[i]
      /\ \A i \in 1 .. Len(c) : U!Order[Len(a) + Len(b) + i] = c[i]
  BY <1>1, <1>3, JoinData
<1>6. /\ Len(U!Order) = 15 /\ DOMAIN U!Order = 1 .. 15
      /\ \A i \in 1 .. 3 : U!Order[i] = a[i]
      /\ \A i \in 1 .. 8 : U!Order[3 + i] = b[i]
      /\ \A i \in 1 .. 4 : U!Order[11 + i] = c[i]
  BY <1>2, <1>5
<1>7. /\ U!Order[3 + 1] = b[1] /\ U!Order[3 + 2] = b[2] /\ U!Order[3 + 3] = b[3]
      /\ U!Order[3 + 4] = b[4] /\ U!Order[3 + 5] = b[5] /\ U!Order[3 + 6] = b[6]
      /\ U!Order[3 + 7] = b[7] /\ U!Order[3 + 8] = b[8]
      /\ U!Order[11 + 1] = c[1] /\ U!Order[11 + 2] = c[2]
      /\ U!Order[11 + 3] = c[3] /\ U!Order[11 + 4] = c[4]
  BY <1>6
<1> QED
  BY <1>4, <1>6, <1>7

LEMMA BootStep ==
  ASSUME StartInv, U!Boot
  PROVE  StartInv'
<1>1. /\ phase = "starting" /\ booted \in 0 .. 14 /\ state = "disconnected"
      /\ booted' = booted + 1
      /\ phase' = IF booted' = 15 THEN "running" ELSE "starting"
      /\ UNCHANGED <<state, link, usb, attempts>>
  BY OrderData DEF StartInv, U!Boot
<1>2. /\ \/ up' = up \cup {U!Order[booted + 1]}
         \/ up' = up /\ U!Order[booted + 1] \in U!Optional
      /\ "nifm" \in up' => "socket" \in up'
  <2>1. \/ /\ up' = up \cup {U!Order[booted + 1]}
           /\ U!Order[booted + 1] = "nifm" => "socket" \in up
        \/ up' = up /\ U!Order[booted + 1] \in U!Optional
    BY DEF U!Boot, U!Starts, U!Skips, U!Next1
  <2>2. "nifm" \in up => "socket" \in up
    BY DEF StartInv, U!AllUp
  <2>3. CASE /\ up' = up \cup {U!Order[booted + 1]}
             /\ U!Order[booted + 1] = "nifm" => "socket" \in up
    <3>1. "nifm" \in up' => "socket" \in up'
      BY <2>2, <2>3
    <3> QED
      BY <2>3, <3>1
  <2>4. CASE up' = up /\ U!Order[booted + 1] \in U!Optional
    BY <2>2, <2>4
  <2> QED
    BY <2>1, <2>3, <2>4
<1>3. \A i \in 1 .. booted' : U!Order[i] \in up' \cup U!Optional
  BY <1>1, <1>2 DEF StartInv
<1>4. phase' = "running" => U!Services \ U!Optional \subseteq up'
  BY <1>1, <1>3, OrderData DEF U!Services
<1>5. U!LinkBacked'
  BY <1>1 DEF U!LinkBacked
<1> QED
  BY <1>1, <1>2, <1>3, <1>4, <1>5, OrderData DEF StartInv, U!AllUp

LEMMA StartStep ==
  ASSUME StartInv, U!Next
  PROVE  StartInv'
<1>1. CASE U!Boot
  BY <1>1, BootStep
<1>2. CASE U!GiveUp
  <2>1. "socket" \in up => "socket" \in up'
    BY <1>2 DEF U!GiveUp
  <2> QED
    BY <1>2, <2>1 DEF U!GiveUp, StartInv, U!LinkBacked, U!AllUp
<1>3. CASE U!StartService
  <2>1. CASE U!SetupFails
    BY <1>3, <2>1 DEF U!StartService, U!SetupFails, StartInv, U!LinkBacked, U!AllUp
  <2>2. CASE U!Registers
    <3>1. U!Held(U!Kinds)' \subseteq usb'
      BY <2>2 DEF U!Registers, U!Held
    <3>2. \A k, l \in U!Kinds : link'[k] = link'[l]
      BY <2>2 DEF U!Registers
    <3>3. /\ phase = "running" /\ "usb" \in up
          /\ UNCHANGED <<phase, booted, up>>
          /\ state' \in {"disconnected", "connected"}
      BY <1>3, <2>2 DEF U!StartService, U!Registers, U!SetupFails, StartInv
    <3> QED
      BY <3>1, <3>2, <3>3 DEF StartInv, U!LinkBacked, U!AllUp
  <2> QED
    BY <1>3, <2>1, <2>2 DEF U!StartService
<1>4. CASE U!StopService
  BY <1>4 DEF U!StopService, StartInv, U!LinkBacked, U!AllUp
<1>5. CASE U!AppExit
  BY <1>5 DEF U!AppExit, U!UsbExit, StartInv, U!LinkBacked, U!AllUp
<1> QED
  BY <1>1, <1>2, <1>3, <1>4, <1>5 DEF U!Next

LEMMA StartKept == Spec => []IStart
<1>1. Init => IStart
  <2> SUFFICES ASSUME U!Init PROVE StartInv
    BY DEF Init, IStart
  <2> QED
    BY OrderData DEF U!Init, StartInv, U!LinkBacked, U!AllUp
<1>2. IStart /\ [Next]_vars => IStart'
  <2> SUFFICES ASSUME IStart, [Next]_vars, running' = "started" PROVE StartInv'
    BY DEF IStart
  <2>1. CASE running = "started" /\ U!Next
    BY <2>1, StartStep DEF IStart
  <2>2. CASE UNCHANGED vars
    BY <2>2 DEF IStart, vars, startedVars, StartInv, U!LinkBacked, U!AllUp, U!Held
  <2> QED
    BY <2>1, <2>2 DEF Next, Others
<1> QED
  BY <1>1, <1>2, PTL DEF Spec

-----------------------------------------------------------------------------
(* The applets.                                                            *)

\* An instance as the registry has it.
Instance == [type : Types, name : Types, preserve : BOOLEAN,
             state : {"ready", "active", "suspended"},
             data : AppletData \cup {A!None}]

\* A state file is whole, torn or missing; a whole one is of a type that had
\* that state.
Honest(f) == f.type = A!None \/ <<f.type, f.data>> \in given

\* The memory counted is that of every slot used so far.
AppletsInv ==
  /\ loaded \in Seq(Instance \cup {A!Gone})
  /\ total = Len(loaded)
  /\ \A i \in A!Slots : loaded[i].data # A!None =>
       <<loaded[i].type, loaded[i].data>> \in given
  /\ states = [n \in Types |-> states[n]]
  /\ \A n \in Types : Honest(states[n])

IApplets == running = "applets" => AppletsInv

\* What a slot in use has.
LEMMA SlotData ==
  ASSUME AppletsInv, NEW i \in A!Slots
  PROVE  /\ i \in 1 .. Len(loaded) /\ loaded[i] \in Instance
         /\ loaded[i].data # A!None => <<loaded[i].type, loaded[i].data>> \in given
BY DEF AppletsInv, A!Slots

\* One slot written: the registry keeps its length, and what is in the others.
LEMMA SlotWritten ==
  ASSUME AppletsInv, NEW i \in A!Slots, NEW x \in Instance \cup {A!Gone},
         loaded' = [loaded EXCEPT ![i] = x],
         x # A!Gone /\ x.data # A!None => <<x.type, x.data>> \in given',
         given \subseteq given', total' = total
  PROVE  /\ loaded' \in Seq(Instance \cup {A!Gone})
         /\ total' = Len(loaded')
         /\ \A k \in A!Slots' : loaded'[k].data # A!None =>
              <<loaded'[k].type, loaded'[k].data>> \in given'
<1>1. /\ loaded \in Seq(Instance \cup {A!Gone}) /\ i \in DOMAIN loaded
      /\ total = Len(loaded)
      /\ \A k \in A!Slots : loaded[k].data # A!None =>
              <<loaded[k].type, loaded[k].data>> \in given
  BY DEF AppletsInv, A!Slots
<1>2. /\ loaded' \in Seq(Instance \cup {A!Gone}) /\ Len(loaded') = Len(loaded)
      /\ DOMAIN loaded' = DOMAIN loaded
      /\ \A k \in DOMAIN loaded : loaded'[k] = IF k = i THEN x ELSE loaded[k]
  BY <1>1
<1> QED
  BY <1>1, <1>2 DEF A!Slots

\* Writing a state leaves every file honest: whole, it is of an applet's type
\* and has its data.
LEMMA SavedHonest ==
  ASSUME AppletsInv, NEW i \in A!Slots, NEW f \in A!Saved(i)
  PROVE  f = [n \in Types |-> f[n]] /\ \A n \in Types : Honest(f[n])
<1>1. /\ states = [n \in Types |-> states[n]] /\ \A n \in Types : Honest(states[n])
      /\ loaded[i] \in Instance
      /\ loaded[i].data # A!None => <<loaded[i].type, loaded[i].data>> \in given
  BY SlotData DEF AppletsInv
<1>2. CASE f = states
  BY <1>1, <1>2
<1>3. CASE f # states
  <2>1. PICK g : /\ g \in {A!Torn, [type |-> loaded[i].type, data |-> loaded[i].data]}
                 /\ f = [states EXCEPT ![loaded[i].name] = g]
                 /\ loaded[i].data # A!None
    BY <1>3 DEF A!Saved
  <2>2. Honest(g)
    BY <1>1, <2>1 DEF Honest, A!Torn
  <2> QED
    BY <1>1, <2>1, <2>2
<1> QED
  BY <1>2, <1>3

\* Reading a state gives what an applet of the type had.
LEMMA RestoredHonest ==
  ASSUME AppletsInv, NEW i \in A!Slots, NEW d \in A!Restorable(i)
  PROVE  d \in AppletData \cup {A!None}
         /\ (d # A!None => <<loaded[i].type, d>> \in given)
<1>1. /\ loaded[i] \in Instance
      /\ loaded[i].data # A!None => <<loaded[i].type, loaded[i].data>> \in given
      /\ loaded[i].name \in Types /\ loaded[i].type \in Types
  BY SlotData DEF Instance
<1>2. CASE d = loaded[i].data
  BY <1>1, <1>2 DEF Instance
<1>3. CASE d # loaded[i].data
  <2>1. d \in AppletData /\ states[loaded[i].name] = [type |-> loaded[i].type, data |-> d]
    BY <1>3 DEF A!Restorable
  <2>2. Honest(states[loaded[i].name])
    BY <1>1 DEF AppletsInv
  <2>3. loaded[i].type # A!None
    BY <1>1, AppletsAssumption DEF A!None
  <2> QED
    BY <2>1, <2>2, <2>3 DEF Honest
<1> QED
  BY <1>2, <1>3

LEMMA UnloadedStep ==
  ASSUME AppletsInv, NEW i \in A!Slots, A!Unloaded(i), given' = given
  PROVE  AppletsInv'
<1>1. states' = [n \in Types |-> states'[n]] /\ \A n \in Types : Honest(states'[n])
  BY SavedHonest DEF A!Unloaded
<1>2. /\ loaded' \in Seq(Instance \cup {A!Gone})
      /\ total' = Len(loaded')
      /\ \A k \in A!Slots' : loaded'[k].data # A!None =>
           <<loaded'[k].type, loaded'[k].data>> \in given'
  BY SlotWritten DEF A!Unloaded
<1> QED
  BY <1>1, <1>2 DEF AppletsInv, Honest

LEMMA AppletsStep ==
  ASSUME AppletsInv, A!Next
  PROVE  AppletsInv'
<1>1. CASE states' = states /\ given' = given /\ loaded' = <<>> /\ total' = 0
  BY <1>1 DEF AppletsInv, Honest, A!Slots
<1>2. CASE A!Load
  <2>1. states' = states /\ given' = given
    BY <1>2 DEF A!Load
  <2>2. CASE UNCHANGED <<loaded, total>>
    BY <2>1, <2>2 DEF AppletsInv, Honest, A!Slots
  <2>3. ASSUME NEW type \in Types, A!Register(type) PROVE AppletsInv'
    <3>1. PICK c \in A!Config(type) :
            loaded' = Append(loaded, [type |-> c.type, name |-> c.name, preserve |-> c.preserve,
                                      state |-> "ready", data |-> A!None])
      BY <2>3 DEF A!Register
    <3>2. c.type \in Types /\ c.name \in Types /\ c.preserve \in BOOLEAN
      <4>1. CASE type = Browser
        <5>1. c = [type |-> Browser, name |-> Browser, preserve |-> TRUE]
          BY <3>1, <4>1 DEF A!Config
        <5>2. Browser \in Types
          BY <2>3, <4>1
        <5>3. c.type = Browser /\ c.name = Browser /\ c.preserve = TRUE
          BY <5>1
        <5> QED
          BY <5>2, <5>3
      <4>2. CASE type # Browser
        BY <3>1, <4>2 DEF A!Config
      <4> QED
        BY <4>1, <4>2
    <3> DEFINE x == [type |-> c.type, name |-> c.name, preserve |-> c.preserve,
                     state |-> "ready", data |-> A!None]
    <3>3. x \in Instance /\ x.data = A!None
      BY <3>2 DEF Instance
    <3> HIDE DEF x
    <3>4. loaded' = Append(loaded, x)
      BY <3>1 DEF x
    <3>5. loaded \in Seq(Instance \cup {A!Gone}) /\ total = Len(loaded) /\ total' = total + 1
      BY <2>3 DEF AppletsInv, A!Register
    <3>6. /\ loaded' \in Seq(Instance \cup {A!Gone}) /\ Len(loaded') = Len(loaded) + 1
          /\ DOMAIN loaded = 1 .. Len(loaded)
          /\ DOMAIN loaded' = 1 .. Len(loaded) + 1
          /\ \A k \in 1 .. Len(loaded) : loaded'[k] = loaded[k]
          /\ loaded'[Len(loaded) + 1] = x
          /\ Len(loaded) \in Nat
      BY <3>3, <3>4, <3>5
    <3>7. ASSUME NEW k \in A!Slots', loaded'[k].data # A!None
          PROVE  <<loaded'[k].type, loaded'[k].data>> \in given
      <4>1. k \in A!Slots /\ loaded'[k] = loaded[k]
        BY <3>3, <3>6, <3>7 DEF A!Slots
      <4> QED
        BY <3>7, <4>1 DEF AppletsInv
    <3> QED
      BY <2>1, <3>5, <3>6, <3>7 DEF AppletsInv, Honest
  <2> QED
    BY <1>2, <2>2, <2>3 DEF A!Load, A!RegistryFull
<1>3. CASE A!Unload
  BY <1>3, UnloadedStep DEF A!Unload
<1>4. CASE A!Suspend
  <2>1. PICK i \in A!Slots : /\ states' \in A!Saved(i)
                             /\ loaded' = [loaded EXCEPT ![i].state = "suspended"]
    BY <1>4 DEF A!Suspend
  <2>2. total' = total /\ given' = given
    BY <1>4 DEF A!Suspend
  <2> DEFINE x == [loaded[i] EXCEPT !.state = "suspended"]
  <2>3. x \in Instance /\ x.type = loaded[i].type /\ x.data = loaded[i].data
    BY SlotData DEF Instance
  <2>4. loaded' = [loaded EXCEPT ![i] = x]
    BY <2>1
  <2> HIDE DEF x
  <2>5. x.data # A!None => <<x.type, x.data>> \in given'
    BY <2>2, <2>3, SlotData
  <2>6. states' = [n \in Types |-> states'[n]] /\ \A n \in Types : Honest(states'[n])
    BY <2>1, SavedHonest
  <2>7. /\ loaded' \in Seq(Instance \cup {A!Gone})
        /\ total' = Len(loaded')
        /\ \A k \in A!Slots' : loaded'[k].data # A!None =>
             <<loaded'[k].type, loaded'[k].data>> \in given'
    BY <2>2, <2>3, <2>4, <2>5, SlotWritten
  <2> QED
    BY <2>2, <2>6, <2>7 DEF AppletsInv, Honest
<1>5. CASE A!Resume
  <2>i. PICK i \in A!Slots : \E d \in A!Restorable(i) :
          loaded' = [loaded EXCEPT ![i].state = "active", ![i].data = d]
    BY <1>5 DEF A!Resume
  <2>1. PICK d \in A!Restorable(i) :
          loaded' = [loaded EXCEPT ![i].state = "active", ![i].data = d]
    BY <2>i
  <2>2. total' = total /\ given' = given /\ states' = states
    BY <1>5 DEF A!Resume
  <2> DEFINE x == [loaded[i] EXCEPT !.state = "active", !.data = d]
  <2>3. /\ d \in AppletData \cup {A!None}
        /\ d # A!None => <<loaded[i].type, d>> \in given
    BY RestoredHonest
  <2>4. x \in Instance /\ x.type = loaded[i].type /\ x.data = d
    BY <2>3, SlotData DEF Instance
  <2>5. loaded' = [loaded EXCEPT ![i] = x]
    <3>1. i \in DOMAIN loaded
      BY DEF A!Slots
    <3> QED
      BY <2>1, <3>1
  <2> HIDE DEF x
  <2>6. /\ loaded' \in Seq(Instance \cup {A!Gone})
        /\ total' = Len(loaded')
        /\ \A k \in A!Slots' : loaded'[k].data # A!None =>
             <<loaded'[k].type, loaded'[k].data>> \in given'
    BY <2>2, <2>3, <2>4, <2>5, SlotWritten
  <2> QED
    BY <2>2, <2>6 DEF AppletsInv, Honest
<1>6. CASE A!Run
  <2>1. PICK i \in A!Slots, d \in AppletData :
          /\ loaded' = [loaded EXCEPT ![i].state = "active", ![i].data = d]
          /\ given' = given \cup {<<loaded[i].type, d>>}
    BY <1>6 DEF A!Run
  <2>2. total' = total /\ states' = states
    BY <1>6 DEF A!Run
  <2> DEFINE x == [loaded[i] EXCEPT !.state = "active", !.data = d]
  <2>3. x \in Instance /\ x.type = loaded[i].type /\ x.data = d
    BY SlotData DEF Instance
  <2>4. loaded' = [loaded EXCEPT ![i] = x]
    <3>1. i \in DOMAIN loaded
      BY DEF A!Slots
    <3> QED
      BY <2>1, <3>1
  <2> HIDE DEF x
  <2>5. /\ loaded' \in Seq(Instance \cup {A!Gone})
        /\ total' = Len(loaded')
        /\ \A k \in A!Slots' : loaded'[k].data # A!None =>
             <<loaded'[k].type, loaded'[k].data>> \in given'
    BY <2>1, <2>2, <2>3, <2>4, SlotWritten
  <2> QED
    BY <2>1, <2>2, <2>5 DEF AppletsInv, Honest
<1>7. CASE A!LeaveNext
  <2>1. CASE UNCHANGED <<states, loaded, total, given>>
    BY <2>1 DEF AppletsInv, Honest, A!Slots
  <2>2. CASE A!Unloaded(leaving) /\ leaving \in A!Slots /\ given' = given
    BY <2>2, UnloadedStep
  <2> QED
    BY <1>7, <2>1, <2>2 DEF A!LeaveNext, A!Slots
<1>8. CASE A!Kill
  <2>1. given' = given /\ loaded' = <<>> /\ total' = 0
    BY <1>8 DEF A!Kill
  <2>2. states' = [n \in Types |-> states'[n]] /\ \A n \in Types : Honest(states'[n])
    <3>1. states' = states \/ \E i \in A!Slots : states' \in A!Saved(i)
      BY <1>8 DEF A!Kill
    <3> QED
      BY <3>1, SavedHonest DEF AppletsInv
  <2> QED
    BY <2>1, <2>2 DEF AppletsInv, Honest, A!Slots
<1>9. CASE UNCHANGED <<states, loaded, total, given>>
  BY <1>9 DEF AppletsInv, Honest, A!Slots
<1> QED
  BY <1>1, <1>2, <1>3, <1>4, <1>5, <1>6, <1>7, <1>8, <1>9
  DEF A!Next, A!LoaderInit, A!LoaderExit, A!LeaveEnd

LEMMA AppletsKept == Spec => []IApplets
<1>1. Init => IApplets
  <2> SUFFICES ASSUME A!Init PROVE AppletsInv
    BY DEF Init, IApplets
  <2> QED
    BY DEF A!Init, AppletsInv, A!Slots, Honest, A!NoFile
<1>2. IApplets /\ [Next]_vars => IApplets'
  <2> SUFFICES ASSUME IApplets, [Next]_vars, running' = "applets" PROVE AppletsInv'
    BY DEF IApplets
  <2>1. CASE running = "applets" /\ A!Next
    BY <2>1, AppletsStep DEF IApplets
  <2>2. CASE UNCHANGED vars
    BY <2>2 DEF IApplets, vars, appletsVars, AppletsInv, Honest, A!Slots
  <2> QED
    BY <2>1, <2>2 DEF Next, Others
<1> QED
  BY <1>1, <1>2, PTL DEF Spec

\* The slots in use are some of those the registry has used.
LEMMA SlotsCounted ==
  ASSUME AppletsInv
  PROVE  Cardinality(A!Slots) <= total
<1>1. Len(loaded) \in Nat /\ total = Len(loaded) /\ A!Slots \subseteq 1 .. Len(loaded)
  BY DEF AppletsInv, A!Slots
<1>2. IsFiniteSet(1 .. Len(loaded)) /\ Cardinality(1 .. Len(loaded)) = Len(loaded)
  <2>1. 1 \in Int /\ Len(loaded) \in Int
    BY <1>1
  <2>2. /\ IsFiniteSet(1 .. Len(loaded))
        /\ Cardinality(1 .. Len(loaded)) =
             IF 1 > Len(loaded) THEN 0 ELSE Len(loaded) - 1 + 1
    BY <2>1, FS_Interval
  <2> QED
    BY <1>1, <2>2
<1>3. Cardinality(A!Slots) <= Cardinality(1 .. Len(loaded))
  BY <1>1, <1>2, FS_Subset
<1> QED
  BY <1>1, <1>2, <1>3

\* What a service is believed to have, it has: a link that is up its interface
\* and endpoints in a driver that is up; a running program every service it
\* cannot do without; an applet a state one of its type had, and the memory
\* counted for it (app.c, usb_service.c, applet_loader.c, state_manager.c).
THEOREM StandingHolds == Spec => []Standing
<1>1. IStart /\ IApplets => Standing
  <2> SUFFICES ASSUME IStart, IApplets PROVE Standing
    OBVIOUS
  <2>1. running = "started" => U!LinkBacked /\ U!AllUp
    BY DEF IStart, StartInv
  <2>2. running = "applets" => A!RegistrySound
    <3> SUFFICES ASSUME AppletsInv PROVE A!RegistrySound
      BY DEF IApplets
    <3>1. Cardinality(A!Slots) <= total
      BY SlotsCounted
    <3>2. \A i \in A!Slots : loaded[i].data # A!None =>
             <<loaded[i].type, loaded[i].data>> \in given
      BY DEF AppletsInv
    <3>3. A!Cardinality(A!Slots) = Cardinality(A!Slots)
      BY DEF A!Cardinality, A!IsFiniteSet, Cardinality, IsFiniteSet
    <3> QED
      BY <3>1, <3>2, <3>3 DEF A!RegistrySound
  <2> QED
    BY <2>1, <2>2 DEF Standing
<1> QED
  BY <1>1, StartKept, AppletsKept, PTL

-----------------------------------------------------------------------------
(* The favourites.  In the list and in the file is what the list keeps of  *)
(* labels, what loading makes of that, and what is left of broken lines.   *)

Lines ==
  {Kept(l) : l \in Labels} \cup {Trimmed(Kept(l)) : l \in Labels} \cup {Broken, Trimmed(Broken)}

\* A label that nothing else becomes.
Own(l) ==
  /\ \A m \in Labels : l \in {Kept(m), Trimmed(Kept(m))} => m = l
  /\ l \notin {Broken, Trimmed(Broken)}

Once(list) ==
  \A l \in Labels : Own(l) => \A i, k \in 1 .. Len(list) : list[i] = l /\ list[k] = l => i = k

FavList(list) == list \in Seq(Lines) /\ Len(list) <= MaxFavorites /\ Once(list)

FavInv == FavList(favorites) /\ (saved = B!NoFile \/ FavList(saved))

ILiked == running = "liked" => FavInv

\* A line that is a label of its own after loading it was that before.
LEMMA TrimmedOwn ==
  ASSUME NEW x \in Lines, NEW l \in Labels, Own(l), Trimmed(x) = l
  PROVE  x = l
<1>1. CASE \E m \in Labels : x = Kept(m)
  <2>1. PICK m \in Labels : x = Kept(m)
    BY <1>1
  <2>2. m = l
    BY <2>1 DEF Own
  <2> QED
    BY <2>1, <2>2, LabelsAssumption
<1>2. CASE \E m \in Labels : x = Trimmed(Kept(m))
  BY <1>2, LabelsAssumption
<1>3. CASE x \in {Broken, Trimmed(Broken)}
  BY <1>3, LabelsAssumption DEF Own
<1> QED
  BY <1>1, <1>2, <1>3 DEF Lines

LEMMA TrimmedLine ==
  ASSUME NEW x \in Lines
  PROVE  Trimmed(x) \in Lines
<1>1. CASE \E m \in Labels : x = Kept(m)
  BY <1>1 DEF Lines
<1>2. CASE \E m \in Labels : x = Trimmed(Kept(m))
  BY <1>2, LabelsAssumption DEF Lines
<1>3. CASE x \in {Broken, Trimmed(Broken)}
  BY <1>3, LabelsAssumption DEF Lines
<1> QED
  BY <1>1, <1>2, <1>3 DEF Lines

\* A list no longer than another, with a label of its own only where that has it.
LEMMA FavShortened ==
  ASSUME NEW s, FavList(s), NEW t \in Seq(Lines), Len(t) <= Len(s),
         \A i \in 1 .. Len(t) : \A l \in Labels : Own(l) /\ t[i] = l => s[i] = l
  PROVE  FavList(t)
<1>1. Len(s) \in Nat /\ Len(t) \in Nat /\ Len(s) <= MaxFavorites /\ Once(s)
  BY DEF FavList
<1>2. 1 .. Len(t) \subseteq 1 .. Len(s)
  BY <1>1
<1>3. Once(t)
  BY <1>1, <1>2 DEF Once
<1>4. Len(t) <= MaxFavorites
  BY <1>1, LabelsAssumption
<1> QED
  BY <1>3, <1>4 DEF FavList

LEMMA FavPrefix ==
  ASSUME NEW s \in Seq(Lines), NEW n \in 0 .. Len(s)
  PROVE  /\ SubSeq(s, 1, n) \in Seq(Lines)
         /\ Len(SubSeq(s, 1, n)) = n
         /\ \A i \in 1 .. n : SubSeq(s, 1, n)[i] = s[i]
<1>1. n \in Nat /\ n <= Len(s) /\ Len(s) \in Nat
  OBVIOUS
<1> QED
  BY <1>1

\* Whatever of a list is written, the file is again such a list.
LEMMA FavWritten ==
  ASSUME NEW list, FavList(list), saved = B!NoFile \/ FavList(saved),
         NEW t \in B!Written(list)
  PROVE  t = B!NoFile \/ FavList(t)
<1>1. list \in Seq(Lines) /\ Len(list) \in Nat
  BY DEF FavList
<1>2. CASE t = saved \/ t = list
  BY <1>2
<1>3. ASSUME NEW n \in 0 .. Len(list), t = SubSeq(list, 1, n) PROVE FavList(t)
  <2>1. /\ t \in Seq(Lines) /\ Len(t) = n /\ n <= Len(list)
        /\ \A i \in 1 .. n : t[i] = list[i]
    BY <1>1, <1>3, FavPrefix
  <2> QED
    BY <2>1, FavShortened
<1>4. ASSUME NEW n \in 1 .. Len(list), t = Append(SubSeq(list, 1, n - 1), Broken)
      PROVE  FavList(t)
  <2> DEFINE s == SubSeq(list, 1, n - 1)
  <2>1. n - 1 \in 0 .. Len(list) /\ n \in Nat /\ n <= Len(list)
    BY <1>1
  <2>2. s \in Seq(Lines) /\ Len(s) = n - 1 /\ \A i \in 1 .. n - 1 : s[i] = list[i]
    BY <1>1, <2>1, FavPrefix
  <2>3. t = Append(s, Broken)
    BY <1>4
  <2> HIDE DEF s
  <2>4. Broken \in Lines
    BY DEF Lines
  <2>5. /\ t \in Seq(Lines) /\ Len(t) = n /\ t[n] = Broken
        /\ \A i \in 1 .. n - 1 : t[i] = s[i]
    BY <2>1, <2>2, <2>3, <2>4
  <2>6. ASSUME NEW i \in 1 .. Len(t), NEW l \in Labels, Own(l), t[i] = l PROVE list[i] = l
    <3>1. t[i] # Broken
      BY <2>6 DEF Own
    <3>2. i \in 1 .. n - 1
      BY <2>1, <2>5, <3>1
    <3> QED
      BY <2>2, <2>5, <2>6, <3>2
  <2> QED
    BY <2>1, <2>5, <2>6, FavShortened
<1> QED
  BY <1>2, <1>3, <1>4 DEF B!Written

LEMMA FavRestored ==
  ASSUME FavInv
  PROVE  FavList(B!Restored)
<1>1. CASE saved = B!NoFile
  BY <1>1, LabelsAssumption DEF B!Restored, FavList, Once
<1>2. CASE saved # B!NoFile
  <2>1. FavList(saved) /\ saved \in Seq(Lines) /\ Len(saved) \in Nat /\ Len(saved) <= MaxFavorites
    BY <1>2 DEF FavInv, FavList
  <2> DEFINE shown == [i \in DOMAIN saved |-> Trimmed(saved[i])]
  <2>2. DOMAIN saved = 1 .. Len(saved) /\ \A i \in 1 .. Len(saved) : saved[i] \in Lines
    BY <2>1
  <2>3. \A i \in 1 .. Len(saved) : Trimmed(saved[i]) \in Lines
    BY <2>2, TrimmedLine
  <2>4. shown = [i \in 1 .. Len(saved) |-> Trimmed(saved[i])]
    BY <2>2
  <2> HIDE DEF shown
  <2>5. /\ shown \in Seq(Lines) /\ Len(shown) = Len(saved)
        /\ \A i \in 1 .. Len(saved) : shown[i] = Trimmed(saved[i])
    BY <2>1, <2>3, <2>4
  <2>6. PICK n \in 0 .. Len(shown) : B!Restored = SubSeq(shown, 1, n)
    <3>1. B!Restored = SubSeq(shown, 1, IF Len(shown) < MaxFavorites THEN Len(shown) ELSE MaxFavorites)
      BY <1>2 DEF B!Restored, shown
    <3>2. (IF Len(shown) < MaxFavorites THEN Len(shown) ELSE MaxFavorites) \in 0 .. Len(shown)
      BY <2>1, <2>5, LabelsAssumption
    <3> QED
      BY <3>1, <3>2
  <2> DEFINE t == B!Restored
  <2> HIDE DEF t
  <2>7. t \in Seq(Lines) /\ Len(t) = n /\ \A i \in 1 .. n : t[i] = shown[i]
    BY <2>5, <2>6, FavPrefix DEF t
  <2>8. ASSUME NEW i \in 1 .. Len(t), NEW l \in Labels, Own(l), t[i] = l PROVE saved[i] = l
    <3>1. i \in 1 .. Len(saved)
      BY <2>1, <2>5, <2>7
    <3>2. Trimmed(saved[i]) = l
      BY <2>5, <2>7, <2>8, <3>1
    <3> QED
      BY <2>2, <2>8, <3>1, <3>2, TrimmedOwn
  <2>9. FavList(t)
    <3>1. Len(t) <= Len(saved)
      BY <2>1, <2>5, <2>7
    <3> QED
      BY <2>1, <2>7, <2>8, <3>1, FavShortened
  <2> QED
    BY <2>9 DEF t
<1> QED
  BY <1>1, <1>2

LEMMA PairData ==
  ASSUME NEW S, NEW a \in Seq(S), NEW b \in Seq(S)
  PROVE  /\ a \o b \in Seq(S) /\ Len(a \o b) = Len(a) + Len(b)
         /\ \A i \in 1 .. Len(a) + Len(b) :
               (a \o b)[i] = IF i <= Len(a) THEN a[i] ELSE b[i - Len(a)]
OBVIOUS

\* A sequence without one of its elements.
LEMMA RemovedData ==
  ASSUME NEW S, NEW s \in Seq(S), NEW k \in 1 .. Len(s)
  PROVE  /\ B!RemoveAt(s, k) \in Seq(S)
         /\ Len(B!RemoveAt(s, k)) = Len(s) - 1
         /\ \A i \in 1 .. Len(s) - 1 :
               B!RemoveAt(s, k)[i] = IF i < k THEN s[i] ELSE s[i + 1]
<1>1. k \in Nat /\ k >= 1 /\ k <= Len(s) /\ Len(s) \in Nat
  OBVIOUS
<1> DEFINE a == SubSeq(s, 1, k - 1)
           b == SubSeq(s, k + 1, Len(s))
<1>2. /\ a \in Seq(S) /\ Len(a) = k - 1 /\ \A i \in 1 .. k - 1 : a[i] = s[i]
      /\ b \in Seq(S) /\ Len(b) = Len(s) - k
      /\ \A i \in 1 .. Len(s) - k : b[i] = s[i + k]
  BY <1>1
<1>3. B!RemoveAt(s, k) = a \o b
  BY DEF B!RemoveAt
<1> HIDE DEF a, b
<1>4. /\ a \o b \in Seq(S) /\ Len(a \o b) = Len(s) - 1
      /\ \A i \in 1 .. Len(s) - 1 :
            (a \o b)[i] = IF i <= Len(a) THEN a[i] ELSE b[i - Len(a)]
  <2>1. a \in Seq(S) /\ b \in Seq(S) /\ Len(a) + Len(b) = Len(s) - 1
    BY <1>1, <1>2
  <2> QED
    BY <2>1, PairData
<1>5. ASSUME NEW i \in 1 .. Len(s) - 1
      PROVE  (a \o b)[i] = IF i < k THEN s[i] ELSE s[i + 1]
  <2>1. CASE i < k
    <3>1. i <= Len(a) /\ i \in 1 .. k - 1
      BY <1>1, <1>2, <2>1
    <3>2. (a \o b)[i] = a[i]
      BY <1>4, <3>1
    <3> QED
      BY <1>2, <2>1, <3>1, <3>2
  <2>2. CASE ~(i < k)
    <3>1. ~(i <= Len(a)) /\ i - Len(a) \in 1 .. Len(s) - k /\ i - Len(a) + k = i + 1
      BY <1>1, <1>2, <2>2
    <3>2. (a \o b)[i] = b[i - Len(a)]
      BY <1>4, <3>1
    <3> QED
      BY <1>2, <2>2, <3>1, <3>2
  <2> QED
    BY <2>1, <2>2
<1> QED
  BY <1>3, <1>4, <1>5

LEMMA FavDropped ==
  ASSUME FavInv, NEW l \in Labels, B!Drop(l)
  PROVE  FavList(favorites')
<1>1. favorites \in Seq(Lines) /\ Len(favorites) \in Nat /\ Once(favorites)
      /\ Len(favorites) <= MaxFavorites
  BY DEF FavInv, FavList
<1>2. PICK d \in B!Listed(l) : favorites' = B!RemoveAt(favorites, d)
  BY DEF B!Drop
<1>3. d \in 1 .. Len(favorites)
  BY <1>1 DEF B!Listed
<1> DEFINE t == favorites'
<1>4. /\ t \in Seq(Lines) /\ Len(t) = Len(favorites) - 1
      /\ \A i \in 1 .. Len(favorites) - 1 :
           t[i] = IF i < d THEN favorites[i] ELSE favorites[i + 1]
  BY <1>1, <1>2, <1>3, RemovedData
<1> HIDE DEF t
<1>5. Once(t)
  <2> SUFFICES ASSUME NEW m \in Labels, Own(m),
                      NEW i \in 1 .. Len(t), NEW k \in 1 .. Len(t), t[i] = m, t[k] = m
               PROVE  i = k
    BY DEF Once
  <2> DEFINE was(j) == IF j < d THEN j ELSE j + 1
  <2>1. /\ favorites[was(i)] = m /\ was(i) \in 1 .. Len(favorites)
        /\ favorites[was(k)] = m /\ was(k) \in 1 .. Len(favorites)
    BY <1>1, <1>3, <1>4
  <2>2. was(i) = was(k)
    BY <1>1, <2>1 DEF Once
  <2> QED
    BY <1>1, <1>3, <1>4, <2>2
<1>6. Len(t) <= MaxFavorites
  BY <1>1, <1>4, LabelsAssumption
<1> QED
  BY <1>4, <1>5, <1>6 DEF FavList, t

\* What is added was not in the list, if it is a label of its own.
LEMMA FavAdded ==
  ASSUME FavInv, NEW l \in Labels, B!Add(l)
  PROVE  FavList(favorites')
<1>1. favorites \in Seq(Lines) /\ Len(favorites) \in Nat /\ Once(favorites)
      /\ Len(favorites) < MaxFavorites
  BY DEF FavInv, FavList, B!Add
<1>2. \A i \in 1 .. Len(favorites) : favorites[i] # l
  BY <1>1 DEF B!Add, B!Listed
<1>3. favorites' = Append(favorites, Kept(l)) /\ Kept(l) \in Lines
  BY DEF B!Add, Lines
<1> DEFINE t == favorites'
           x == Kept(l)
<1> HIDE DEF x
<1>4. x \in Lines /\ t = Append(favorites, x)
  BY <1>3 DEF x
<1> HIDE DEF t
<1>5. /\ t \in Seq(Lines) /\ Len(t) = Len(favorites) + 1 /\ t[Len(favorites) + 1] = x
      /\ \A i \in 1 .. Len(favorites) : t[i] = favorites[i]
  BY <1>1, <1>4
<1>6. Once(t)
  <2> SUFFICES ASSUME NEW m \in Labels, Own(m),
                      NEW i \in 1 .. Len(t), NEW k \in 1 .. Len(t), t[i] = m, t[k] = m
               PROVE  i = k
    BY DEF Once
  <2>1. CASE x = m
    <3>1. m = l
      BY <2>1 DEF Own, x
    <3> QED
      BY <1>1, <1>2, <1>5, <3>1
  <2>2. CASE x # m
    <3>1. /\ i \in 1 .. Len(favorites) /\ k \in 1 .. Len(favorites)
          /\ favorites[i] = m /\ favorites[k] = m
      BY <1>1, <1>5, <2>2
    <3> QED
      BY <1>1, <3>1 DEF Once
  <2> QED
    BY <2>1, <2>2
<1>7. Len(t) <= MaxFavorites
  BY <1>1, <1>5, LabelsAssumption
<1> QED
  BY <1>5, <1>6, <1>7 DEF FavList, t

LEMMA FavStep ==
  ASSUME FavInv, B!Next
  PROVE  FavInv'
<1>1. CASE B!Load
  <2>1. favorites' = B!Restored /\ saved' = saved
    BY <1>1 DEF B!Load
  <2>2. FavList(favorites')
    BY <2>1, FavRestored
  <2> QED
    BY <2>1, <2>2 DEF FavInv, B!NoFile
<1>2. ASSUME NEW l \in Labels, B!Toggle(l) PROVE FavInv'
  <2>1. FavList(favorites')
    BY <1>2, FavDropped, FavAdded DEF B!Toggle
  <2>2. saved' \in B!Written(favorites') /\ (saved = B!NoFile \/ FavList(saved))
    BY <1>2 DEF B!Toggle, FavInv
  <2> DEFINE list == favorites'
             file == saved'
  <2>3. FavList(list) /\ file \in B!Written(list)
    BY <2>1, <2>2
  <2> HIDE DEF list, file
  <2>4. file = B!NoFile \/ FavList(file)
    BY <2>2, <2>3, FavWritten
  <2> QED
    BY <2>1, <2>4 DEF FavInv, B!NoFile, file
<1>3. CASE B!Restart
  <2>1. favorites' = <<>> /\ saved' = saved
    BY <1>3 DEF B!Restart
  <2> QED
    BY <2>1, LabelsAssumption DEF FavInv, B!NoFile, FavList, Once
<1> QED
  BY <1>1, <1>2, <1>3 DEF B!Next

LEMMA LikedKept == Spec => []ILiked
<1>1. Init => ILiked
  <2> SUFFICES ASSUME B!Init PROVE FavInv
    BY DEF Init, ILiked
  <2> QED
    BY LabelsAssumption DEF B!Init, FavInv, FavList, Once
<1>2. ILiked /\ [Next]_vars => ILiked'
  <2> SUFFICES ASSUME ILiked, [Next]_vars, running' = "liked" PROVE FavInv'
    BY DEF ILiked
  <2>1. CASE running = "liked" /\ B!Next
    BY <2>1, FavStep DEF ILiked
  <2>2. CASE UNCHANGED vars
    BY <2>2 DEF ILiked, vars, likedVars, FavInv, B!NoFile
  <2> QED
    BY <2>1, <2>2 DEF Next, Others
<1> QED
  BY <1>1, <1>2, PTL DEF Spec

\* What the program keeps for itself on the card stays within its bounds: no
\* log outgrows its size by more than what was never counted, whatever is
\* written, rotated and passed on and whichever of it fails (logger.c); and the
\* favourites have a label at most once, unless it is too long or another one or
\* a line that broke off becomes it, in no more lines than there is room for,
\* whatever was toggled, saved in part, loaded and killed (ui_data.c).
THEOREM KeptInBoundsHolds == Spec => []KeptInBounds
<1>1. ILogs /\ ILiked => KeptInBounds
  <2> SUFFICES ASSUME ILogs, ILiked PROVE KeptInBounds
    OBVIOUS
  <2>1. running = "logging" => L!LogBounded
    BY LogsBounded
  <2>2. running = "liked" => B!FavouritesOnce
    <3> SUFFICES ASSUME FavInv PROVE B!FavouritesOnce
      BY DEF ILiked
    <3>1. DOMAIN favorites = 1 .. Len(favorites) /\ Once(favorites)
          /\ Len(favorites) <= MaxFavorites
      BY DEF FavInv, FavList
    <3>2. saved = B!NoFile \/ Len(saved) <= MaxFavorites
      BY DEF FavInv, FavList
    <3> QED
      BY <3>1, <3>2 DEF B!FavouritesOnce, Once, Own
  <2> QED
    BY <2>1, <2>2 DEF KeptInBounds
<1> QED
  BY <1>1, LogsKept, LikedKept, PTL

-----------------------------------------------------------------------------
(* The http client.  While a request is answered the call holds nothing it *)
(* returns; between two of them, nothing but the address and the copies of *)
(* a Location that nobody frees, which an answer read before has had.      *)

\* What was received is the beginning of an answer.
Begun(x) == \E a \in Answer, n \in Nat : x = [answer |-> a, got |-> n] /\ n <= Len(a.body)

HttpInv ==
  /\ requests \in 0 .. MaxRequests
  /\ buffer = H!Blank \/ Begun(buffer)
  /\ socket \in BOOLEAN
  /\ "location" \in memory => met \cap {"told", "twice"} # {}
  /\ ~H!Idle => /\ result = H!Pending /\ "body" \notin memory
                /\ buffer = H!Blank => ~socket /\ memory \ {"location"} = {"url"}
  /\ H!Settled

IFetched == running = "fetched" => HttpInv

LEMMA BlankOrBegun ==
  /\ ~Begun(H!Blank)
  /\ H!Blank.got = 0 /\ H!Blank.answer.kind = "none"
<1>1. H!Blank.got = 0 /\ H!Blank.answer.kind = "none"
  BY DEF H!Blank
<1>2. ASSUME Begun(H!Blank) PROVE FALSE
  <2>1. PICK a \in Answer, n \in Nat : H!Blank = [answer |-> a, got |-> n]
    BY <1>2 DEF Begun
  <2>2. H!Blank.answer = a
    BY <2>1
  <2> QED
    BY <1>1, <2>2, AnswersAssumption
<1> QED
  BY <1>1, <1>2

\* Of the answer received so far, its beginning is returned.
LEMMA DecodedBegins ==
  ASSUME Begun(buffer), NEW b \in H!Decoded
  PROVE  LET answered == IF H!HeaderIn THEN Tail(buffer.answer.body) ELSE buffer.answer.body
         IN  b = SubSeq(answered, 1, Len(b))
<1>1. PICK a \in Answer, n \in Nat : buffer = [answer |-> a, got |-> n] /\ n <= Len(a.body)
  BY DEF Begun
<1> DEFINE s == a.body
           S == {s[i] : i \in DOMAIN s}
<1>2. s \in Seq(S) /\ n \in Nat /\ n <= Len(s)
  BY <1>1, AnswersAssumption
<1>3. buffer.answer.body = s /\ buffer.got = n
  BY <1>1
<1>4. H!Got = SubSeq(s, 1, n)
  BY <1>3 DEF H!Got
<1> HIDE DEF s, S
<1> DEFINE t == SubSeq(s, 1, n)
<1>5. t \in Seq(S) /\ Len(t) = n /\ t = SubSeq(s, 1, Len(t))
  BY <1>2
<1>6. CASE ~H!HeaderIn
  <2>1. b = t
    BY <1>4, <1>6 DEF H!Decoded
  <2> QED
    BY <1>3, <1>5, <1>6, <2>1
<1>7. CASE H!HeaderIn
  <2>1. n > 0
    BY <1>3, <1>7 DEF H!HeaderIn
  <2>2. b = Tail(t) \/ (b = Tail(SubSeq(t, 1, n - 1)) /\ n >= 2)
    <3>1. CASE buffer.answer.kind = "chunked" /\ buffer.got \in 2 .. (Len(buffer.answer.body) - 1)
      <4>1. b \in {Tail(t), Tail(SubSeq(t, 1, n - 1))}
        BY <1>3, <1>4, <1>7, <3>1 DEF H!Decoded
      <4>2. n >= 2
        BY <1>2, <1>3, <3>1
      <4> QED
        BY <4>1, <4>2
    <3>2. CASE ~(buffer.answer.kind = "chunked"
                   /\ buffer.got \in 2 .. (Len(buffer.answer.body) - 1))
      <4>1. H!Decoded = {Tail(H!Got)}
        BY <1>7, <3>2 DEF H!Decoded
      <4>2. b = Tail(H!Got)
        BY <4>1
      <4>3. b = Tail(t)
        BY <1>4, <4>2
      <4> QED
        BY <4>3
    <3> QED
      BY <3>1, <3>2
  <2>3. CASE b = Tail(t)
    <3>1. Tail(t) = SubSeq(Tail(s), 1, n - 1) /\ Len(Tail(t)) = n - 1
      BY <1>2, <2>1
    <3> QED
      BY <1>3, <1>7, <2>3, <3>1
  <2>4. CASE b = Tail(SubSeq(t, 1, n - 1)) /\ n >= 2
    <3>1. SubSeq(t, 1, n - 1) = SubSeq(s, 1, n - 1)
      BY <1>2, <2>4
    <3>2. /\ Tail(SubSeq(s, 1, n - 1)) = SubSeq(Tail(s), 1, n - 2)
          /\ Len(Tail(SubSeq(s, 1, n - 1))) = n - 2
      BY <1>2, <2>4
    <3> QED
      BY <1>3, <1>7, <2>4, <3>1, <3>2
  <2> QED
    BY <2>2, <2>3, <2>4
<1> QED
  BY <1>6, <1>7

LEMMA RequestsCounted == MaxRequests \in Nat /\ 0 \in 0 .. MaxRequests
<1>1. MaxRequests \in Nat
  BY AnswersAssumption
<1> QED
  BY <1>1

LEMMA Results ==
  /\ H!Pending.rc = "pending" /\ H!Error.rc = "err" /\ H!Down.rc = "down"
  /\ H!Pending # H!Error
BY DEF H!Pending, H!Error, H!Down

LEMMA BusySettled ==
  ASSUME result' = H!Pending
  PROVE  H!Settled'
BY Results DEF H!Settled, H!Idle, H!Pending

LEMMA FailedSettled ==
  ASSUME result' \in {H!Error, H!Down}, ~socket', memory' \subseteq {"location"},
         "location" \in memory' => met' \cap {"told", "twice"} # {}
  PROVE  H!Settled'
<1>1. ~(result'.rc = "ok")
  BY Results
<1>2. (("body" \in memory') = (result'.rc = "ok")) /\ memory' \ {"body", "location"} = {}
  BY <1>1
<1> QED
  BY <1>1, <1>2, Zenon DEF H!Settled

\* What nobody frees is a copy of an answer's Location, and that answer was read.
LEMMA UnfreedRead ==
  ASSUME NEW copy \in H!Unfreed
  PROVE  /\ copy \subseteq {"location"}
         /\ copy # {} => H!HeaderIn /\ buffer.answer.kind \in {"told", "twice"}
  BY DEF H!Unfreed

LEMMA FetchedStep ==
  ASSUME HttpInv, H!Next
  PROVE  HttpInv'
<1>1. CASE H!Get
  <2>1. requests' = 0 /\ socket' = FALSE /\ buffer' = H!Blank
    BY <1>1 DEF H!Get, H!Blank
  <2>2. requests' \in 0 .. MaxRequests /\ socket' \in BOOLEAN
    BY <2>1, RequestsCounted
  <2>3. CASE result' = H!Pending /\ memory' = {"url"}
    <3>1. "body" \notin memory' /\ "location" \notin memory' /\ memory' \ {"location"} = {"url"}
      BY <2>3
    <3> QED
      BY <2>1, <2>2, <2>3, <3>1, BusySettled DEF HttpInv, H!Blank, H!Pending
  <2>4. CASE result' = H!Down /\ memory' = {}
    <3>1. H!Idle'
      BY <2>4, Results DEF H!Idle
    <3>2. memory' \subseteq {"location"} /\ "location" \notin memory'
      BY <2>4
    <3> QED
      BY <2>1, <2>2, <2>4, <3>1, <3>2, FailedSettled DEF HttpInv, H!Blank
  <2> QED
    BY <1>1, <2>3, <2>4 DEF H!Get, H!Pending, H!Down
<1>2. CASE H!Request
  <2>1. ~H!Idle /\ buffer = H!Blank /\ requests \in Nat /\ requests < MaxRequests
        /\ result = H!Pending
    BY <1>2, Results DEF H!Request, H!Idle, HttpInv
  <2>2. CASE H!Fails /\ UNCHANGED <<requests, buffer>>
    <3>1. /\ result' = H!Error /\ socket' = FALSE /\ met' = met
          /\ memory' = memory \cap {"location"}
      BY <1>2, <2>2 DEF H!Request, H!Fails, H!Error, H!Leaked
    <3>2. H!Idle'
      BY <3>1, Results DEF H!Idle
    <3>3. /\ memory' \subseteq {"location"}
          /\ "location" \in memory' => met' \cap {"told", "twice"} # {}
      BY <3>1 DEF HttpInv
    <3> QED
      BY <2>1, <2>2, <3>1, <3>2, <3>3, FailedSettled DEF HttpInv, H!Blank
  <2>3. CASE /\ socket' = TRUE /\ requests' = requests + 1
             /\ memory' = memory \cup {"url", "parts", "buffer"}
             /\ (\E a \in Answer : buffer' = [answer |-> a, got |-> 0])
             /\ UNCHANGED result
    <3>1. PICK a \in Answer : buffer' = [answer |-> a, got |-> 0]
      BY <2>3
    <3>2. Begun(buffer')
      <4>1. Len(a.body) \in Nat
        BY AnswersAssumption
      <4> QED
        BY <3>1, <4>1 DEF Begun
    <3>3. buffer' # H!Blank
      BY <3>2, BlankOrBegun
    <3>4. /\ "body" \notin memory' /\ result' = H!Pending
          /\ "location" \in memory' => met' \cap {"told", "twice"} # {}
      BY <1>2, <2>1, <2>3 DEF HttpInv, H!Request
    <3>5. requests' \in 0 .. MaxRequests
      BY <2>1, <2>3, RequestsCounted
    <3> QED
      BY <2>3, <3>2, <3>3, <3>4, <3>5, BusySettled DEF HttpInv, H!Blank, H!Pending
  <2> QED
    BY <1>2, <2>2, <2>3 DEF H!Request
<1>3. CASE H!Receive
  <2>1. ~H!Idle /\ buffer # H!Blank /\ Begun(buffer) /\ result = H!Pending
    BY <1>3 DEF H!Receive, HttpInv, H!Settled
  <2>2. CASE H!Fails /\ UNCHANGED buffer
    <3>1. /\ result' = H!Error /\ socket' = FALSE /\ UNCHANGED <<requests, met>>
          /\ memory' = memory \cap {"location"}
      BY <1>3, <2>2 DEF H!Fails, H!Error, H!Receive, H!Leaked
    <3>2. H!Idle'
      BY <3>1, Results DEF H!Idle
    <3>3. /\ memory' \subseteq {"location"}
          /\ "location" \in memory' => met' \cap {"told", "twice"} # {}
      BY <3>1 DEF HttpInv
    <3> QED
      BY <2>1, <2>2, <3>1, <3>2, <3>3, FailedSettled DEF HttpInv
  <2>3. CASE buffer.got < Len(buffer.answer.body) /\ buffer' = [buffer EXCEPT !.got = @ + 1]
             /\ UNCHANGED <<socket, memory, result>>
    <3>1. PICK a \in Answer, n \in Nat : buffer = [answer |-> a, got |-> n] /\ n <= Len(a.body)
      BY <2>1 DEF Begun
    <3>2. buffer' = [answer |-> a, got |-> n + 1] /\ n < Len(a.body) /\ Len(a.body) \in Nat
      BY <2>3, <3>1
    <3>3. Begun(buffer')
      BY <3>2 DEF Begun
    <3>4. buffer' # H!Blank
      BY <3>3, BlankOrBegun
    <3> QED
      BY <1>3, <2>1, <2>3, <3>3, <3>4, BusySettled DEF H!Receive, HttpInv, H!Blank, H!Pending
  <2>4. CASE socket' = FALSE /\ UNCHANGED <<buffer, memory, result>>
    BY <1>3, <2>1, <2>4, BusySettled DEF H!Receive, HttpInv, H!Blank, H!Pending
  <2> QED
    BY <1>3, <2>2, <2>3, <2>4 DEF H!Receive
<1>4. CASE H!Redirect
  <2>1. PICK copy \in H!Unfreed : memory' = {"url"} \cup H!Leaked \cup copy
    BY <1>4 DEF H!Redirect
  <2>2. /\ result' = H!Pending /\ buffer' = H!Blank /\ socket' = FALSE
        /\ requests' = requests /\ met' = met \cup {buffer.answer.kind}
    BY <1>4 DEF H!Redirect, H!Received, HttpInv, H!Blank, H!Pending
  <2>3. "body" \notin memory' /\ memory' \ {"location"} = {"url"}
    BY <2>1, UnfreedRead DEF H!Leaked
  <2>4. "location" \in memory' => met' \cap {"told", "twice"} # {}
    <3>1. CASE "location" \in memory
      BY <2>2, <3>1 DEF HttpInv
    <3>2. CASE "location" \notin memory
      <4>1. "location" \in memory' => copy # {}
        BY <2>1, <3>2 DEF H!Leaked
      <4> QED
        BY <2>2, <4>1, UnfreedRead
    <3> QED
      BY <3>1, <3>2
  <2> QED
    BY <2>2, <2>3, <2>4, BusySettled DEF HttpInv, H!Idle, H!Blank, H!Pending
<1>5. CASE H!TooMany
  <2>1. buffer = H!Blank /\ memory \ {"location"} = {"url"} /\ ~socket
        /\ requests = MaxRequests /\ "body" \notin memory
    BY <1>5, Results DEF H!TooMany, H!Received, HttpInv, H!Idle
  <2>2. result' = H!Error /\ result'.rc = "err"
        /\ UNCHANGED <<requests, socket, buffer, memory, met>>
    BY <1>5, Results DEF H!TooMany, H!Error
  <2>4. (("body" \in memory') = (result'.rc = "ok")) /\ ~(result'.rc = "ok")
    BY <2>1, <2>2
  <2>5. "location" \in memory' => met' \cap {"told", "twice"} # {}
    BY <2>2 DEF HttpInv
  <2>6. H!Settled'
    BY <2>1, <2>2, <2>4, <2>5 DEF H!Settled, H!Blank
  <2>7. H!Idle'
    BY <2>2 DEF H!Idle
  <2> QED
    BY <2>2, <2>5, <2>6, <2>7 DEF HttpInv, H!Blank
<1>6. CASE H!Deliver
  <2>1. Begun(buffer) /\ ~socket /\ UNCHANGED <<url, requests, socket, buffer>>
        /\ requests \in 0 .. MaxRequests
    BY <1>6 DEF H!Deliver, H!Received, HttpInv
  <2>2. H!HeaderIn' = H!HeaderIn /\ H!Redirects' = H!Redirects
    BY <2>1 DEF H!HeaderIn, H!Redirects
  <2>3. /\ met \subseteq met'
        /\ H!HeaderIn => buffer.answer.kind \in met'
        /\ H!Redirects => "no memory" \in met'
    BY <1>6 DEF H!Deliver
  <2>4. PICK copy \in H!Unfreed :
          \/ H!HeaderIn /\ result' = H!Error /\ memory' = H!Leaked \cup copy
          \/ \E b \in H!Decoded : /\ result' = [rc |-> "ok", body |-> b]
                                 /\ memory' = {"body"} \cup H!Leaked \cup copy
          \/ result' = H!Down /\ memory' = {}
    BY <1>6 DEF H!Deliver, H!Error, H!Down
  <2>5. H!Leaked \cup copy \subseteq {"location"}
    BY UnfreedRead DEF H!Leaked
  <2>6. "location" \in memory' => met' \cap {"told", "twice"} # {}
    <3>1. CASE "location" \in memory
      <4>1. met \cap {"told", "twice"} # {}
        BY <3>1 DEF HttpInv
      <4> QED
        BY <2>3, <4>1
    <3>2. CASE "location" \notin memory
      <4>1. "location" \in memory' => copy # {}
        BY <2>4, <3>2 DEF H!Leaked
      <4> QED
        BY <2>3, <4>1, UnfreedRead
    <3> QED
      BY <3>1, <3>2
  <2>7. CASE \/ H!HeaderIn /\ result' = H!Error /\ memory' = H!Leaked \cup copy
             \/ result' = H!Down /\ memory' = {}
    <3>1. result' \in {H!Error, H!Down} /\ memory' \subseteq {"location"} /\ ~socket'
      BY <2>1, <2>5, <2>7
    <3>2. H!Idle'
      BY <3>1, Results DEF H!Idle
    <3>3. H!Settled'
      BY <2>6, <3>1, FailedSettled
    <3> QED
      BY <2>1, <2>6, <3>2, <3>3 DEF HttpInv, H!Blank
  <2>8. CASE \E b \in H!Decoded : /\ result' = [rc |-> "ok", body |-> b]
                                 /\ memory' = {"body"} \cup H!Leaked \cup copy
    <3>1. PICK b \in H!Decoded : result' = [rc |-> "ok", body |-> b]
      BY <2>8
    <3>2. LET answered == IF H!HeaderIn THEN Tail(buffer.answer.body) ELSE buffer.answer.body
          IN  b = SubSeq(answered, 1, Len(b))
      BY <2>1, DecodedBegins
    <3>3. result'.rc = "ok" /\ result'.body = b /\ H!Idle'
      BY <3>1 DEF H!Idle
    <3>4. memory' = {"body"} \cup H!Leaked \cup copy
      BY <2>8
    <3>5. ("body" \in memory') = (result'.rc = "ok") /\ memory' \ {"body", "location"} = {}
      BY <2>5, <3>3, <3>4
    <3>6. LET answered == IF H!HeaderIn' THEN Tail(buffer'.answer.body) ELSE buffer'.answer.body
          IN  result'.body = SubSeq(answered, 1, Len(result'.body))
      BY <2>1, <2>2, <3>2, <3>3
    <3>7. H!Settled'
      BY <2>1, <2>2, <2>3, <2>6, <3>5, <3>6 DEF H!Settled
    <3> QED
      BY <2>1, <2>6, <3>3, <3>7 DEF HttpInv, H!Blank
  <2> QED
    BY <2>4, <2>7, <2>8
<1> QED
  BY <1>1, <1>2, <1>3, <1>4, <1>5, <1>6 DEF H!Next

\* A request that returns has given back what it held: its connection, and all
\* its memory but the body it returned, the address after the last redirect it
\* would follow (simple_http.c:152) and a Location no redirect used, or with
\* another behind it (simple_http.c:141); and what it returned is the beginning of
\* what the last server sent.
THEOREM SettledHolds == Spec => []Settled
<1>1. Init => IFetched
  <2> SUFFICES ASSUME H!Init PROVE HttpInv
    BY DEF Init, IFetched
  <2>1. /\ requests = 0 /\ socket = FALSE /\ buffer = H!Blank /\ memory = {}
        /\ result.rc = "err"
    BY Results DEF H!Init, H!Blank, H!Error
  <2>2. H!Settled
    <3>1. /\ ("body" \in memory) = (result.rc = "ok") /\ ~(result.rc = "ok")
          /\ memory \ {"body", "location"} = {} /\ "location" \notin memory
      BY <2>1
    <3> QED
      BY <2>1, <3>1 DEF H!Settled
  <2>3. requests \in 0 .. MaxRequests /\ socket \in BOOLEAN /\ H!Idle /\ "location" \notin memory
    BY <2>1, RequestsCounted DEF H!Idle
  <2> QED
    BY <2>1, <2>2, <2>3 DEF HttpInv
<1>2. IFetched /\ [Next]_vars => IFetched'
  <2> SUFFICES ASSUME IFetched, [Next]_vars, running' = "fetched" PROVE HttpInv'
    BY DEF IFetched
  <2>1. CASE running = "fetched" /\ H!Next
    BY <2>1, FetchedStep DEF IFetched
  <2>2. CASE UNCHANGED vars
    BY <2>2 DEF IFetched, vars, fetchedVars, HttpInv, H!Settled, H!Idle, H!Pending,
                H!Blank, H!HeaderIn, H!Redirects
  <2> QED
    BY <2>1, <2>2 DEF Next, Others
<1>3. IFetched => Settled
  BY DEF IFetched, HttpInv, Settled
<1> QED
  BY <1>1, <1>2, <1>3, PTL DEF Spec

-----------------------------------------------------------------------------
(* Moves.  While a call runs, its source is where it was; what is at the   *)
(* destination while it copies is a beginning of that, and once it has     *)
(* copied, all of it.                                                      *)

Chunk == UNION {{x[i] : i \in DOMAIN x} : x \in Data}

Place == {V!None, V!Dir} \cup {V!File(s) : s \in Seq(Chunk)}

Stages == {"rename", "open", "mkdir", "copy", "copied", "drop", "done"}

Move ==
  [op : {"none", "copy", "move", "organise", "dry"}, stage : Stages, from : Path, to : Path,
   before : Place, rc : {"ok", "err"}, clean : BOOLEAN]

\* A file that has the beginning of another one.
Begins(x, y) ==
  \E s \in Seq(Chunk) : \E n \in 0 .. Len(s) : y = V!File(s) /\ x = V!File(SubSeq(s, 1, n))

MoveInv(f, c) ==
  /\ f \in [Path -> Place] /\ c \in Move
  /\ c.stage # "done" => c.from # c.to /\ f[c.from] = c.before
  /\ c.stage = "copy" => Begins(f[c.to], c.before)
  /\ c.stage = "copied" /\ c.clean => f[c.to] = c.before
  /\ c.stage = "drop" => c.rc = "err"
  /\ c.clean /\ c.before # V!None => f[c.from] = c.before \/ f[c.to] = c.before
  /\ c.stage = "done" /\ c.op \in {"copy", "move"} /\ c.rc = "ok" /\ c.clean =>
       f[c.to] = c.before

IMoved == running = "moved" => MoveInv(files, moving)

LEMMA DataChunks == \A x \in Data : x \in Seq(Chunk)
<1> SUFFICES ASSUME NEW x \in Data PROVE x \in Seq(Chunk)
  OBVIOUS
<1>1. x \in Seq({x[i] : i \in DOMAIN x})
  BY FilesAssumption
<1>2. {x[i] : i \in DOMAIN x} \subseteq Chunk
  BY DEF Chunk
<1> QED
  BY <1>1, <1>2

LEMMA PlaceData ==
  /\ V!None \in Place /\ V!Dir \in Place /\ V!Dir # V!None
  /\ \A s \in Seq(Chunk) : V!File(s) \in Place
  /\ \A x \in Place : /\ x.data \in Seq(Chunk)
                      /\ x.kind = "file" => x = V!File(x.data)
                      /\ x.kind = "dir" => x = V!Dir
  /\ V!None.kind = "none" /\ V!Dir.kind = "dir"
  /\ \A s \in Seq(Chunk) : V!File(s).kind = "file" /\ V!File(s).data = s
<1>1. V!None.kind = "none" /\ V!Dir.kind = "dir" /\ V!None.data = <<>> /\ V!Dir.data = <<>>
  BY DEF V!None, V!Dir
<1>2. \A s \in Seq(Chunk) : V!File(s).kind = "file" /\ V!File(s).data = s
  BY DEF V!File
<1>3. <<>> \in Seq(Chunk)
  OBVIOUS
<1>4. \A x \in Place : /\ x.data \in Seq(Chunk)
                       /\ x.kind = "file" => x = V!File(x.data)
                       /\ x.kind = "dir" => x = V!Dir
  <2> SUFFICES ASSUME NEW x \in Place
               PROVE  /\ x.data \in Seq(Chunk)
                      /\ x.kind = "file" => x = V!File(x.data)
                      /\ x.kind = "dir" => x = V!Dir
    OBVIOUS
  <2>1. CASE x = V!None \/ x = V!Dir
    BY <1>1, <1>3, <2>1
  <2>2. ASSUME NEW s \in Seq(Chunk), x = V!File(s)
        PROVE  x.data = s /\ x.kind = "file"
    BY <1>2, <2>2
  <2> QED
    BY <2>1, <2>2 DEF Place
<1> QED
  BY <1>1, <1>2, <1>4 DEF Place

LEMMA MoveEdits ==
  ASSUME NEW c \in Move
  PROVE  /\ \A s \in Stages : /\ V!At(c, s) \in Move
                              /\ V!At(c, s).stage = s /\ V!At(c, s).op = c.op
                              /\ V!At(c, s).from = c.from /\ V!At(c, s).to = c.to
                              /\ V!At(c, s).before = c.before /\ V!At(c, s).rc = c.rc
                              /\ V!At(c, s).clean = c.clean
         /\ V!Failed(c) \in Move
         /\ V!Failed(c).stage = c.stage /\ V!Failed(c).op = c.op
         /\ V!Failed(c).from = c.from /\ V!Failed(c).to = c.to
         /\ V!Failed(c).before = c.before /\ V!Failed(c).rc = "err"
         /\ V!Failed(c).clean = c.clean
BY DEF Move, V!At, V!Failed

LEMMA NoMove ==
  /\ V!NoCall \in Move
  /\ V!NoCall.op = "none" /\ V!NoCall.stage = "done" /\ V!NoCall.before = V!None
  /\ V!NoCall.rc = "ok" /\ V!NoCall.clean = TRUE
BY FilesAssumption, PlaceData DEF V!NoCall, Move, Stages

\* A call that fails leaves what there is.
LEMMA MoveFails ==
  ASSUME NEW f, NEW c, MoveInv(f, c)
  PROVE  MoveInv(f, V!At(V!Failed(c), "done"))
<1> DEFINE d == V!At(V!Failed(c), "done")
<1>1. /\ d \in Move /\ d.stage = "done" /\ d.op = c.op /\ d.from = c.from /\ d.to = c.to
      /\ d.before = c.before /\ d.rc = "err" /\ d.clean = c.clean
  BY MoveEdits DEF MoveInv, Stages
<1> HIDE DEF d
<1>2. MoveInv(f, d)
  BY <1>1 DEF MoveInv
<1> QED
  BY <1>2 DEF d

\* Between two calls anything may happen to the card.
LEMMA NoMoveInv ==
  ASSUME NEW f \in [Path -> Place]
  PROVE  MoveInv(f, V!NoCall)
BY NoMove DEF MoveInv

LEMMA MoveStarts ==
  ASSUME MoveInv(files, moving), NEW op \in {"copy", "move", "organise", "dry"},
         NEW x \in Path, NEW y \in Path, V!Start(op, x, y)
  PROVE  MoveInv(files', moving')
<1>1. PICK s \in {"rename", "open", "mkdir"} :
        moving' = [V!NoCall EXCEPT !.op = op, !.stage = s, !.from = x, !.to = y,
                                   !.before = files[x]]
  BY DEF V!Start, V!Go
<1>2. x # y /\ files' = files /\ files \in [Path -> Place] /\ files[x] \in Place
  BY DEF V!Start, MoveInv
<1>3. /\ moving' \in Move
      /\ moving'.stage = s /\ moving'.from = x /\ moving'.to = y
      /\ moving'.before = files[x]
  BY <1>1, <1>2, NoMove DEF Move, Stages
<1> QED
  BY <1>2, <1>3 DEF MoveInv

LEMMA MoveOpens ==
  ASSUME MoveInv(files, moving), V!OpenBoth
  PROVE  MoveInv(files', moving')
<1>1. /\ moving.stage = "open" /\ moving \in Move /\ moving.from \in Path /\ moving.to \in Path
      /\ moving.from # moving.to /\ files[moving.from] = moving.before
      /\ files \in [Path -> Place]
  BY DEF V!OpenBoth, MoveInv, Move
<1>2. CASE V!Finish(V!Failed(moving)) /\ UNCHANGED files
  BY <1>2, MoveFails DEF V!Finish
<1>3. CASE V!IsFile(moving.from) /\ V!Put(moving.to, V!File(<<>>))
           /\ moving' \in {V!At(moving, "copy"), V!At(V!Failed(moving), "drop")}
  <2>1. /\ moving' \in Move /\ moving'.from = moving.from /\ moving'.to = moving.to
        /\ moving'.before = moving.before
        /\ moving'.stage = "copy" \/ (moving'.stage = "drop" /\ moving'.rc = "err")
    BY <1>1, <1>3, MoveEdits DEF Stages
  <2>2. <<>> \in Seq(Chunk) /\ V!File(<<>>) \in Place
    <3>1. <<>> \in Seq(Chunk)
      OBVIOUS
    <3> QED
      BY <3>1, PlaceData
  <2>3. /\ files' \in [Path -> Place] /\ files'[moving.to] = V!File(<<>>)
        /\ files'[moving.from] = moving.before
    BY <1>1, <1>3, <2>2 DEF V!Put
  <2>4. Begins(V!File(<<>>), moving.before)
    <3> DEFINE s == moving.before.data
    <3>1. s \in Seq(Chunk) /\ moving.before = V!File(s)
      BY <1>1, <1>3, PlaceData DEF V!IsFile, Move
    <3>2. SubSeq(s, 1, 0) = <<>> /\ 0 \in 0 .. Len(s)
      BY <3>1
    <3> QED
      BY <3>1, <3>2 DEF Begins
  <2> QED
    BY <1>1, <2>1, <2>3, <2>4 DEF MoveInv
<1> QED
  BY <1>2, <1>3 DEF V!OpenBoth, V!Go

LEMMA BeginsFurther ==
  ASSUME NEW x, NEW y \in Place, Begins(x, y), Len(x.data) < Len(y.data)
  PROVE  /\ V!File(Append(x.data, y.data[Len(x.data) + 1])) \in Place
         /\ Begins(V!File(Append(x.data, y.data[Len(x.data) + 1])), y)
<1>1. PICK s \in Seq(Chunk) : \E n \in 0 .. Len(s) : y = V!File(s) /\ x = V!File(SubSeq(s, 1, n))
  BY DEF Begins
<1>2. PICK n \in 0 .. Len(s) : y = V!File(s) /\ x = V!File(SubSeq(s, 1, n))
  BY <1>1
<1>3. SubSeq(s, 1, n) \in Seq(Chunk) /\ Len(SubSeq(s, 1, n)) = n /\ n \in Nat /\ Len(s) \in Nat
  OBVIOUS
<1>4. y.data = s /\ x.data = SubSeq(s, 1, n) /\ n < Len(s)
  BY <1>2, <1>3, PlaceData
<1>5. Append(SubSeq(s, 1, n), s[n + 1]) = SubSeq(s, 1, n + 1) /\ n + 1 \in 0 .. Len(s)
      /\ SubSeq(s, 1, n + 1) \in Seq(Chunk)
  BY <1>3, <1>4
<1>6. V!File(Append(x.data, y.data[Len(x.data) + 1])) = V!File(SubSeq(s, 1, n + 1))
  BY <1>3, <1>4, <1>5
<1> QED
  BY <1>2, <1>5, <1>6, PlaceData DEF Begins

LEMMA BeginsWhole ==
  ASSUME NEW x, NEW y \in Place, Begins(x, y), Len(x.data) = Len(y.data)
  PROVE  x = y
<1>1. PICK s \in Seq(Chunk) : \E n \in 0 .. Len(s) : y = V!File(s) /\ x = V!File(SubSeq(s, 1, n))
  BY DEF Begins
<1>2. PICK n \in 0 .. Len(s) : y = V!File(s) /\ x = V!File(SubSeq(s, 1, n))
  BY <1>1
<1>3. SubSeq(s, 1, n) \in Seq(Chunk) /\ Len(SubSeq(s, 1, n)) = n /\ n \in Nat /\ Len(s) \in Nat
      /\ SubSeq(s, 1, Len(s)) = s
  OBVIOUS
<1>4. n = Len(s)
  <2>1. y.data = s /\ x.data = SubSeq(s, 1, n)
    BY <1>2, <1>3, PlaceData
  <2>2. Len(SubSeq(s, 1, n)) = Len(s)
    BY <2>1
  <2>3. Len(SubSeq(s, 1, n)) = n
    BY <1>3
  <2> QED
    BY <2>2, <2>3, Zenon
<1> QED
  BY <1>2, <1>3, <1>4

LEMMA MoveCopies ==
  ASSUME MoveInv(files, moving), V!CopyChunk
  PROVE  MoveInv(files', moving')
<1>1. /\ moving.stage = "copy" /\ moving \in Move /\ moving.from \in Path /\ moving.to \in Path
      /\ moving.from # moving.to /\ files[moving.from] = moving.before
      /\ files \in [Path -> Place] /\ Begins(files[moving.to], moving.before)
      /\ moving.before \in Place
  BY DEF V!CopyChunk, MoveInv, Move
<1> DEFINE from == files[moving.from].data
           got  == Len(V!Copied)
           more == V!File(Append(V!Copied, from[got + 1]))
<1>2. CASE got < Len(from) /\ V!Put(moving.to, more) /\ moving' = moving
  <2>1. more \in Place /\ Begins(more, moving.before)
    BY <1>1, <1>2, BeginsFurther DEF V!Copied
  <2> HIDE DEF more
  <2>2. /\ files' \in [Path -> Place] /\ files'[moving.to] = more
        /\ files'[moving.from] = moving.before
    BY <1>1, <1>2, <2>1 DEF V!Put
  <2> QED
    BY <1>1, <1>2, <2>1, <2>2 DEF MoveInv
<1>3. CASE files' = files
           /\ moving' = [V!At(moving, "copied") EXCEPT !.clean = @ /\ got = Len(from)]
  <2>1. /\ moving' \in Move /\ moving'.from = moving.from /\ moving'.to = moving.to
        /\ moving'.before = moving.before /\ moving'.stage = "copied"
        /\ moving'.clean => got = Len(from)
    <3>1. V!At(moving, "copied") \in Move
      BY <1>1, MoveEdits DEF Stages
    <3>2. /\ V!At(moving, "copied").from = moving.from /\ V!At(moving, "copied").to = moving.to
          /\ V!At(moving, "copied").before = moving.before
          /\ V!At(moving, "copied").stage = "copied"
      BY <1>1, MoveEdits DEF Stages
    <3> HIDE DEF from, got
    <3> DEFINE c == V!At(moving, "copied")
    <3> HIDE DEF c
    <3>3. c \in Move /\ c.from = moving.from /\ c.to = moving.to /\ c.before = moving.before
          /\ c.stage = "copied"
      BY <3>1, <3>2 DEF c
    <3>4. moving' = [c EXCEPT !.clean = @ /\ got = Len(from)]
      BY <1>3 DEF c
    <3> QED
      BY <3>3, <3>4 DEF Move
  <2>2. moving'.clean => files[moving.to] = moving.before
    BY <1>1, <2>1, BeginsWhole DEF V!Copied
  <2> QED
    BY <1>1, <1>3, <2>1, <2>2 DEF MoveInv
<1>4. CASE files' = files /\ moving' = V!At(V!Failed(moving), "drop")
  <2>1. /\ moving' \in Move /\ moving'.from = moving.from /\ moving'.to = moving.to
        /\ moving'.before = moving.before /\ moving'.stage = "drop" /\ moving'.rc = "err"
    BY <1>1, <1>4, MoveEdits DEF Stages
  <2> QED
    BY <1>1, <1>4, <2>1 DEF MoveInv
<1> QED
  BY <1>2, <1>3, <1>4 DEF V!CopyChunk, V!Go

LEMMA MoveStep ==
  ASSUME MoveInv(files, moving), V!Next
  PROVE  MoveInv(files', moving')
<1>1. /\ moving \in Move /\ moving.from \in Path /\ moving.to \in Path /\ moving.before \in Place
      /\ files \in [Path -> Place]
  BY DEF MoveInv, Move
<1>2. CASE V!Drop
  <2>1. PICK x \in {V!None, files[moving.to]} : V!Put(moving.to, x)
    BY <1>2 DEF V!Drop
  <2>2. /\ moving.stage = "drop" /\ moving.rc = "err" /\ moving.from # moving.to
        /\ files[moving.from] = moving.before
    BY <1>2 DEF V!Drop, MoveInv
  <2>3. /\ moving' \in Move /\ moving'.from = moving.from /\ moving'.to = moving.to
        /\ moving'.before = moving.before /\ moving'.stage = "done" /\ moving'.rc = "err"
    BY <1>1, <1>2, <2>2, MoveEdits DEF V!Drop, V!Finish, Stages
  <2>4. files' \in [Path -> Place] /\ files'[moving.from] = moving.before
    BY <1>1, <2>1, <2>2, PlaceData DEF V!Put
  <2> QED
    BY <2>3, <2>4 DEF MoveInv
<1>3. CASE V!AfterCopy
  <2>1. /\ moving.stage = "copied" /\ moving.from # moving.to
        /\ files[moving.from] = moving.before
        /\ moving.clean => files[moving.to] = moving.before
    BY <1>3 DEF V!AfterCopy, MoveInv
  <2>2. CASE V!Finish(V!Failed(moving)) /\ UNCHANGED files
    BY <2>2, MoveFails DEF V!Finish
  <2>3. CASE V!Finish(moving) /\ (V!Put(moving.from, V!None) \/ UNCHANGED files)
    <3>1. /\ moving' \in Move /\ moving'.from = moving.from /\ moving'.to = moving.to
          /\ moving'.before = moving.before /\ moving'.stage = "done"
          /\ moving'.clean = moving.clean
      BY <1>1, <2>3, MoveEdits DEF V!Finish, Stages
    <3>2. files' \in [Path -> Place] /\ files'[moving.to] = files[moving.to]
      BY <1>1, <2>1, <2>3, PlaceData DEF V!Put
    <3> QED
      BY <2>1, <3>1, <3>2 DEF MoveInv
  <2> QED
    BY <1>3, <2>2, <2>3 DEF V!AfterCopy
<1>4. CASE V!Rename
  <2>1. /\ moving.stage = "rename" /\ moving.from # moving.to
        /\ files[moving.from] = moving.before
    BY <1>4 DEF V!Rename, MoveInv
  <2>2. CASE V!Finish(moving)
             /\ files' = [files EXCEPT ![moving.to] = files[moving.from], ![moving.from] = V!None]
    <3>1. /\ moving' \in Move /\ moving'.from = moving.from /\ moving'.to = moving.to
          /\ moving'.before = moving.before /\ moving'.stage = "done"
      BY <1>1, <2>2, MoveEdits DEF V!Finish, Stages
    <3>2. files' \in [Path -> Place] /\ files'[moving.to] = moving.before
      BY <1>1, <2>1, <2>2, PlaceData
    <3> QED
      BY <3>1, <3>2 DEF MoveInv
  <2>3. CASE files' = files /\ moving' = V!At(moving, "open")
    <3>1. /\ moving' \in Move /\ moving'.from = moving.from /\ moving'.to = moving.to
          /\ moving'.before = moving.before /\ moving'.stage = "open"
      BY <1>1, <2>3, MoveEdits DEF Stages
    <3> QED
      BY <1>1, <2>1, <2>3, <3>1 DEF MoveInv
  <2> QED
    BY <1>4, <2>2, <2>3 DEF V!Rename, V!Go
<1>5. CASE V!MakeFolders
  <2>1. /\ moving.stage = "mkdir" /\ moving.from # moving.to
        /\ files[moving.from] = moving.before
    BY <1>5 DEF V!MakeFolders, MoveInv
  <2>2. PICK x \in Place : V!Put(moving.to, x)
    BY <1>1, <1>5, PlaceData DEF V!MakeFolders
  <2>3. files' \in [Path -> Place] /\ files'[moving.from] = moving.before
    BY <1>1, <2>1, <2>2 DEF V!Put
  <2>4. /\ moving' \in Move /\ moving'.from = moving.from /\ moving'.to = moving.to
        /\ moving'.before = moving.before /\ moving'.op = moving.op
        /\ moving'.stage = "rename" \/ (moving'.stage = "done" /\ moving.op = "dry")
    BY <1>1, <1>5, MoveEdits DEF V!MakeFolders, V!Finish, V!Go, Stages
  <2> QED
    BY <2>1, <2>3, <2>4 DEF MoveInv
<1>6. CASE V!Delete \/ V!Mkdir \/ V!NewFile
  <2>1. files' \in [Path -> Place]
    BY <1>1, <1>6, PlaceData, DataChunks DEF V!Delete, V!Mkdir, V!NewFile, V!Put
  <2>2. moving' = V!At(V!NoCall, "done")
    BY <1>6 DEF V!Delete, V!Mkdir, V!NewFile, V!Finish
  <2>3. moving' = V!NoCall
    BY <2>2 DEF V!At, V!NoCall
  <2> QED
    BY <2>1, <2>3, NoMoveInv
<1>7. CASE V!Cancel
  BY <1>7 DEF V!Cancel
<1>8. CASE V!Kill
  BY <1>8, MoveFails DEF V!Kill, V!Finish
<1> QED
  BY <1>2, <1>3, <1>4, <1>5, <1>6, <1>7, <1>8, MoveStarts, MoveOpens, MoveCopies DEF V!Next

LEMMA MovedKept == Spec => []IMoved
<1>1. Init => IMoved
  <2> SUFFICES ASSUME V!Init PROVE MoveInv(files, moving)
    BY DEF Init, IMoved
  <2>1. files \in [Path -> Place] /\ moving = V!NoCall
    BY DataChunks, PlaceData DEF V!Init
  <2> QED
    BY <2>1, NoMoveInv
<1>2. IMoved /\ [Next]_vars => IMoved'
  <2> SUFFICES ASSUME IMoved, [Next]_vars, running' = "moved"
               PROVE  MoveInv(files', moving')
    BY DEF IMoved
  <2>1. CASE running = "moved" /\ V!Next
    BY <2>1, MoveStep DEF IMoved
  <2>2. CASE UNCHANGED vars
    BY <2>2 DEF IMoved, vars, movedVars
  <2> QED
    BY <2>1, <2>2 DEF Next, Others
<1> QED
  BY <1>1, <1>2, PTL DEF Spec

-----------------------------------------------------------------------------
(* Installations.  Until the backup is made the old program is the program; *)
(* what was received and what the server still has to say are, as long as   *)
(* nothing got lost, a program.                                             *)

Piece == UNION {{x[i] : i \in DOMAIN x} : x \in Program}

Held == {N!None} \cup {N!File(s) : s \in Seq(Piece)}

Link == [up : BOOLEAN, header : Nat, said : Seq(Piece), good : BOOLEAN]

InstallStages == {"done", "header", "body", "received", "backup", "rename", "open", "copy"}

Install ==
  [op : {"none", "staged", "local"}, stage : InstallStages, old : Held, taken : Nat,
   rc : {"ok", "err"}, whole : BOOLEAN]

\* Of an application, a backup, a part, a connection and a call.
InstallInv(a, b, f, k, c) ==
  /\ a \in Held /\ b \in Held /\ f \in Held /\ k \in Link /\ c \in Install
  /\ c.stage # "done" => c.op # "none"
  /\ c.stage = "header" => f = N!File(<<>>)
  /\ c.stage \in {"header", "body"} => c.op = "staged" /\ (c.whole => f.data \o k.said \in Program)
  /\ c.stage \in {"header", "body", "received"} => f.kind = "file"
  /\ c.stage \in {"backup", "rename"} /\ c.op = "staged" => f.kind = "file" /\ f.data # <<>>
  /\ c.stage \in {"received", "backup", "rename"} /\ c.op = "staged" /\ c.whole =>
       f.data = <<>> \/ f.data \in Program
  /\ c.stage \in {"header", "body", "received", "backup"} => a = c.old
  /\ c.stage \in {"open", "copy"} => c.op = "local" /\ (c.old # N!None => b = c.old)
  /\ c.old # N!None => a = c.old \/ b = c.old
  /\ c.stage = "done" /\ c.op = "staged" /\ c.rc = "ok" /\ c.whole =>
       a.kind = "file" /\ a.data \in Program

IInstalled == running = "installed" => InstallInv(app, bak, part, connection, installing)

LEMMA ProgramPieces == \A x \in Program : x \in Seq(Piece)
<1> SUFFICES ASSUME NEW x \in Program PROVE x \in Seq(Piece)
  OBVIOUS
<1>1. x \in Seq({x[i] : i \in DOMAIN x})
  BY FilesAssumption
<1>2. {x[i] : i \in DOMAIN x} \subseteq Piece
  BY DEF Piece
<1> QED
  BY <1>1, <1>2

LEMMA HeldData ==
  /\ N!None \in Held /\ N!None.kind = "none"
  /\ \A s \in Seq(Piece) : /\ N!File(s) \in Held
                           /\ N!File(s).kind = "file" /\ N!File(s).data = s
  /\ \A x \in Held : /\ x.data \in Seq(Piece)
                     /\ x.kind = "file" => x = N!File(x.data)
<1>1. N!None.kind = "none" /\ N!None.data = <<>>
  BY DEF N!None
<1>2. \A s \in Seq(Piece) : N!File(s).kind = "file" /\ N!File(s).data = s
  BY DEF N!File
<1>3. <<>> \in Seq(Piece)
  OBVIOUS
<1>4. \A x \in Held : x.data \in Seq(Piece) /\ (x.kind = "file" => x = N!File(x.data))
  <2> SUFFICES ASSUME NEW x \in Held
               PROVE  x.data \in Seq(Piece) /\ (x.kind = "file" => x = N!File(x.data))
    OBVIOUS
  <2>1. CASE x = N!None
    BY <1>1, <1>3, <2>1
  <2>2. ASSUME NEW s \in Seq(Piece), x = N!File(s)
        PROVE  x.data = s /\ x.kind = "file"
    BY <1>2, <2>2
  <2> QED
    BY <2>1, <2>2 DEF Held
<1> QED
  BY <1>1, <1>2, <1>4 DEF Held

\* Closing a file leaves a file.
LEMMA StoredData ==
  ASSUME NEW f \in Held, NEW g \in N!Stored(f)
  PROVE  g \in Held /\ (f.kind = "file" => g.kind = "file")
<1>1. CASE g = f
  BY <1>1
<1>2. ASSUME NEW n \in 0 .. Len(f.data), g = N!File(SubSeq(f.data, 1, n))
      PROVE  g \in Held /\ g.kind = "file"
  <2>1. f.data \in Seq(Piece)
    BY HeldData
  <2>2. SubSeq(f.data, 1, n) \in Seq(Piece)
    BY <2>1
  <2> QED
    BY <1>2, <2>2, HeldData
<1> QED
  BY <1>1, <1>2 DEF N!Stored

LEMMA InstallEdits ==
  ASSUME NEW c \in Install
  PROVE  /\ \A s \in InstallStages :
              /\ N!At(c, s) \in Install
              /\ N!At(c, s).stage = s /\ N!At(c, s).op = c.op /\ N!At(c, s).old = c.old
              /\ N!At(c, s).rc = c.rc /\ N!At(c, s).whole = c.whole
         /\ N!Failed(c) \in Install
         /\ N!Failed(c).stage = c.stage /\ N!Failed(c).op = c.op /\ N!Failed(c).old = c.old
         /\ N!Failed(c).rc = "err" /\ N!Failed(c).whole = c.whole
         /\ \A w \in BOOLEAN :
              LET d == [c EXCEPT !.whole = w]
              IN  /\ d \in Install
                  /\ d.stage = c.stage /\ d.op = c.op /\ d.old = c.old /\ d.rc = c.rc
                  /\ d.whole = w
BY DEF Install, N!At, N!Failed

LEMMA InstallBegins ==
  ASSUME NEW a \in Held, app = a, NEW op \in {"staged", "local"}
  PROVE  /\ N!Begun(op) \in Install
         /\ N!Begun(op).op = op /\ N!Begun(op).old = a /\ N!Begun(op).whole = TRUE
<1>1. /\ N!NoCall \in Install /\ N!NoCall.whole = TRUE
  BY HeldData DEF N!NoCall, Install, InstallStages
<1> QED
  BY <1>1 DEF N!Begun, Install

\* An installation that fails leaves what there is.
LEMMA InstallFails ==
  ASSUME NEW a, NEW b, NEW f, NEW k, NEW l \in Link, NEW c, InstallInv(a, b, f, k, c)
  PROVE  InstallInv(a, b, f, l, N!At(N!Failed(c), "done"))
<1> DEFINE d == N!At(N!Failed(c), "done")
<1>1. d \in Install /\ d.stage = "done" /\ d.old = c.old /\ d.rc = "err"
  BY InstallEdits DEF InstallInv, InstallStages
<1> HIDE DEF d
<1>2. InstallInv(a, b, f, l, d)
  BY <1>1 DEF InstallInv
<1> QED
  BY <1>2 DEF d

LEMMA LinkData ==
  /\ N!Closed \in Link
  /\ \A h \in Nat, p \in Program, g \in BOOLEAN :
       /\ [up |-> TRUE, header |-> h, said |-> p, good |-> g] \in Link
       /\ [up |-> TRUE, header |-> h, said |-> p, good |-> g].said = p
<1>1. <<>> \in Seq(Piece)
  OBVIOUS
<1>2. N!Closed \in Link
  BY <1>1 DEF N!Closed, Link
<1> QED
  BY <1>2, ProgramPieces DEF Link

LEMMA ConnectStep ==
  ASSUME InstallInv(app, bak, part, connection, installing), N!Connect \/ N!ConnectFtp
  PROVE  InstallInv(app, bak, part', connection', installing')
<1>1. app \in Held /\ bak \in Held /\ part \in Held /\ connection \in Link
  BY DEF InstallInv
<1> DEFINE c == N!Begun("staged")
<1>2. c \in Install /\ c.op = "staged" /\ c.old = app /\ c.whole = TRUE
  BY <1>1, InstallBegins
<1> HIDE DEF c
<1>3. CASE N!Refused
  <2>1. installing' = N!At(N!Failed(c), "done") /\ part' = part /\ connection' = connection
    BY <1>3 DEF N!Refused, N!Finish, c
  <2>2. /\ installing' \in Install /\ installing'.stage = "done" /\ installing'.old = app
        /\ installing'.rc = "err"
    BY <1>2, <2>1, InstallEdits DEF InstallStages
  <2> QED
    BY <1>1, <2>1, <2>2 DEF InstallInv
<1>4. ASSUME NEW h \in Nat, NEW g \in BOOLEAN, N!Answers(h, g)
      PROVE  InstallInv(app, bak, part', connection', installing')
  <2>1. PICK p \in Program : connection' = [up |-> TRUE, header |-> h, said |-> p, good |-> g]
    BY <1>4 DEF N!Answers
  <2>2. part' = N!File(<<>>) /\ installing' = N!At(c, "header")
    BY <1>4 DEF N!Answers, N!Go, c
  <2>3. /\ installing' \in Install /\ installing'.stage = "header" /\ installing'.op = "staged"
        /\ installing'.old = app
    BY <1>2, <2>2, InstallEdits DEF InstallStages
  <2>4. connection' \in Link /\ connection'.said = p
    BY <2>1, LinkData
  <2>5. <<>> \in Seq(Piece)
    OBVIOUS
  <2>6. part' \in Held /\ part'.kind = "file" /\ part'.data = <<>>
    BY <2>2, <2>5, HeldData
  <2>7. <<>> \o p = p
    BY ProgramPieces
  <2>8. part'.data \o connection'.said \in Program
    BY <2>4, <2>6, <2>7
  <2> QED
    BY <1>1, <2>2, <2>3, <2>4, <2>6, <2>8 DEF InstallInv
<1>5. N!Refused \/ \E h \in Nat, g \in BOOLEAN : N!Answers(h, g)
  <2>1. 1 .. HeaderRoom + 1 \subseteq Nat /\ 0 \in Nat
    BY FilesAssumption
  <2> QED
    BY <2>1 DEF N!Connect, N!ConnectFtp
<1> QED
  BY <1>3, <1>4, <1>5

LEMMA HeaderStep ==
  ASSUME InstallInv(app, bak, part, connection, installing), N!ReadHeader
  PROVE  InstallInv(app, bak, part, connection', installing')
<1>1. /\ app \in Held /\ bak \in Held /\ part \in Held /\ connection \in Link
      /\ installing \in Install /\ installing.stage = "header" /\ installing.op = "staged"
      /\ installing.old = app /\ part = N!File(<<>>) /\ part.kind = "file"
      /\ installing.whole => part.data \o connection.said \in Program
  BY DEF InstallInv, N!ReadHeader
<1>2. part.data = <<>>
  <2>1. <<>> \in Seq(Piece)
    OBVIOUS
  <2> QED
    BY <1>1, <2>1, HeldData
\* Nothing of the program was received.
<1>3. ASSUME NEW c \in Install, c.stage = "received", c.op = "staged", c.old = app,
             installing' = c, connection' = N!Closed
      PROVE  InstallInv(app, bak, part, connection', installing')
  BY <1>1, <1>2, <1>3, LinkData DEF InstallInv
<1>4. CASE N!HangUp(N!At(installing, "received"))
  BY <1>1, <1>3, <1>4, InstallEdits DEF N!HangUp, InstallStages
<1>5. CASE N!HangUp([N!At(installing, "received") EXCEPT !.whole = FALSE])
  <2> DEFINE c == N!At(installing, "received")
  <2>1. c \in Install /\ c.stage = "received" /\ c.op = "staged" /\ c.old = app
    BY <1>1, InstallEdits DEF InstallStages
  <2> HIDE DEF c
  <2>2. installing' = [c EXCEPT !.whole = FALSE] /\ connection' = N!Closed
    BY <1>5 DEF N!HangUp, c
  <2>3. /\ installing' \in Install /\ installing'.stage = "received"
        /\ installing'.op = "staged" /\ installing'.old = app
    BY <2>1, <2>2, InstallEdits
  <2> QED
    BY <1>3, <2>2, <2>3
<1>6. CASE N!HangUp(N!At(N!Failed(installing), "done"))
  BY <1>6, LinkData, InstallFails DEF N!HangUp
<1>7. CASE installing' = [installing EXCEPT !.taken = @ + 1] /\ connection' = connection
  <2>1. /\ installing' \in Install /\ installing'.stage = "header" /\ installing'.op = "staged"
        /\ installing'.old = app /\ installing'.whole = installing.whole
    BY <1>1, <1>7 DEF Install
  <2> QED
    BY <1>1, <1>7, <2>1 DEF InstallInv
<1>8. CASE installing' = N!At(installing, "body") /\ connection' = connection
  <2>1. /\ installing' \in Install /\ installing'.stage = "body" /\ installing'.op = "staged"
        /\ installing'.old = app /\ installing'.whole = installing.whole
    BY <1>1, <1>8, InstallEdits DEF InstallStages
  <2> QED
    BY <1>1, <1>8, <2>1 DEF InstallInv
<1>9. CASE /\ connection' = [connection EXCEPT !.said = Tail(@)]
           /\ installing' = [N!At(installing, "body") EXCEPT !.whole = FALSE]
           /\ connection.said # <<>>
  <2> DEFINE c == N!At(installing, "body")
  <2>1. c \in Install /\ c.stage = "body" /\ c.op = "staged" /\ c.old = app
    BY <1>1, InstallEdits DEF InstallStages
  <2> HIDE DEF c
  <2>2. installing' = [c EXCEPT !.whole = FALSE]
    BY <1>9 DEF c
  <2>3. /\ installing' \in Install /\ installing'.stage = "body" /\ installing'.op = "staged"
        /\ installing'.old = app /\ ~installing'.whole
    BY <2>1, <2>2, InstallEdits
  <2>4. connection' \in Link
    <3>1. Tail(connection.said) \in Seq(Piece)
      BY <1>1, <1>9 DEF Link
    <3> QED
      BY <1>1, <1>9, <3>1 DEF Link
  <2> QED
    BY <1>1, <2>3, <2>4 DEF InstallInv
<1> QED
  BY <1>4, <1>5, <1>6, <1>7, <1>8, <1>9 DEF N!ReadHeader, N!Go

LEMMA HeadMoves ==
  ASSUME NEW S, NEW x \in Seq(S), NEW y \in Seq(S), y # <<>>
  PROVE  /\ Append(x, Head(y)) \in Seq(S) /\ Tail(y) \in Seq(S)
         /\ Append(x, Head(y)) \o Tail(y) = x \o y
OBVIOUS

LEMMA BodyStep ==
  ASSUME InstallInv(app, bak, part, connection, installing), N!ReadBody
  PROVE  InstallInv(app, bak, part', connection', installing')
<1>1. /\ app \in Held /\ bak \in Held /\ part \in Held /\ connection \in Link
      /\ installing \in Install /\ installing.stage = "body" /\ installing.op = "staged"
      /\ installing.old = app /\ part.kind = "file"
      /\ installing.whole => part.data \o connection.said \in Program
  BY DEF InstallInv, N!ReadBody
<1> DEFINE x == part.data
           y == connection.said
<1>2. x \in Seq(Piece) /\ y \in Seq(Piece)
  BY <1>1, HeldData DEF Link
<1>3. CASE /\ y # <<>> /\ part' = N!File(Append(x, Head(y)))
           /\ connection' = [connection EXCEPT !.said = Tail(@)] /\ installing' = installing
  <2> HIDE DEF x, y
  <2>1. /\ Append(x, Head(y)) \in Seq(Piece) /\ Tail(y) \in Seq(Piece)
        /\ Append(x, Head(y)) \o Tail(y) = x \o y
    BY <1>2, <1>3, HeadMoves
  <2>2. part' \in Held /\ part'.kind = "file" /\ part'.data = Append(x, Head(y))
    BY <1>3, <2>1, HeldData
  <2>3. connection' \in Link /\ connection'.said = Tail(y)
    BY <1>1, <1>3, <2>1 DEF Link, y
  <2>4. installing.whole => part'.data \o connection'.said \in Program
    BY <1>1, <2>1, <2>2, <2>3 DEF x, y
  <2> QED
    BY <1>1, <1>3, <2>2, <2>3, <2>4 DEF InstallInv
<1>4. CASE part' \in N!Stored(part) /\ N!HangUp(N!At(N!Failed(installing), "done"))
  <2>1. part' \in Held
    BY <1>1, <1>4, StoredData
  <2>2. /\ installing' \in Install /\ installing'.stage = "done"
        /\ installing'.old = app /\ installing'.rc = "err"
    BY <1>1, <1>4, InstallEdits DEF N!HangUp, InstallStages
  <2>3. connection' \in Link
    BY <1>4, LinkData DEF N!HangUp
  <2> QED
    BY <1>1, <2>1, <2>2, <2>3 DEF InstallInv
<1>5. CASE /\ part' \in N!Stored(part)
           /\ N!HangUp([N!At(installing, "received") EXCEPT !.whole = @ /\ y = <<>> /\ part' = part])
  <2> DEFINE c == N!At(installing, "received")
  <2>0. part' \in Held /\ part'.kind = "file"
    BY <1>1, <1>5, StoredData
  <2>1. /\ c \in Install /\ c.stage = "received" /\ c.op = "staged" /\ c.old = app
        /\ c.whole = installing.whole
    BY <1>1, InstallEdits DEF InstallStages
  <2>2. installing' = [c EXCEPT !.whole = @ /\ y = <<>> /\ part' = part] /\ connection' = N!Closed
    BY <1>5 DEF N!HangUp
  <2> HIDE DEF c
  <2>3. /\ installing' \in Install /\ installing'.stage = "received"
        /\ installing'.op = "staged" /\ installing'.old = app
        /\ installing'.whole => installing.whole /\ y = <<>> /\ part' = part
    <3> HIDE DEF y
    <3> QED
      BY <2>1, <2>2 DEF Install
  <2>4. y = <<>> => x \o y = x
    BY <1>2
  <2>5. installing'.whole => part'.data \in Program
    BY <1>1, <2>3, <2>4
  <2> QED
    BY <1>1, <2>0, <2>2, <2>3, <2>5, LinkData DEF InstallInv
<1> QED
  BY <1>3, <1>4, <1>5 DEF N!ReadBody

LEMMA BackupStep ==
  ASSUME InstallInv(app, bak, part, connection, installing), N!Backup
  PROVE  InstallInv(app', bak', part', connection', installing')
<1>1. /\ app \in Held /\ bak \in Held /\ part \in Held /\ connection \in Link
      /\ installing \in Install /\ installing.stage = "backup"
      /\ installing.op \in {"staged", "local"} /\ installing.old = app
      /\ part' = part /\ connection' = connection
  BY DEF InstallInv, N!Backup, Install
<1> DEFINE on == IF installing.op = "staged" THEN "rename" ELSE "open"
\* What the call is when it goes on.
<1>2. ASSUME NEW c \in Install, c.op = installing.op, c.stage = "backup",
             c.whole = installing.whole
      PROVE  LET d == N!At(c, IF c.op = "staged" THEN "rename" ELSE "open")
             IN  /\ d \in Install /\ d.op = installing.op /\ d.old = c.old
                 /\ d.stage = on /\ d.whole = installing.whole
  BY <1>2, InstallEdits DEF InstallStages
<1>3. CASE app # N!None /\ bak' = app /\ app' = N!None /\ N!Onward(installing)
  <2>1. /\ installing' \in Install /\ installing'.op = installing.op
        /\ installing'.old = app /\ installing'.stage = on
        /\ installing'.whole = installing.whole
    BY <1>1, <1>2, <1>3 DEF N!Onward, N!Go
  <2>2. app' \in Held /\ bak' \in Held
    BY <1>1, <1>3, HeldData
  <2> QED
    BY <1>1, <1>3, <2>1, <2>2 DEF InstallInv
<1>4. CASE /\ UNCHANGED <<app, bak>>
           /\ N!Onward([installing EXCEPT !.old = IF installing.op = "local" THEN N!None ELSE @])
  <2> DEFINE c == [installing EXCEPT !.old = IF installing.op = "local" THEN N!None ELSE @]
  <2>1. /\ c \in Install /\ c.op = installing.op /\ c.stage = "backup"
        /\ c.whole = installing.whole
        /\ c.old = IF installing.op = "local" THEN N!None ELSE app
    BY <1>1, HeldData DEF Install
  <2>2. installing' = N!At(c, IF c.op = "staged" THEN "rename" ELSE "open")
    BY <1>4 DEF N!Onward, N!Go
  <2> HIDE DEF c
  <2>3. /\ installing' \in Install /\ installing'.op = installing.op
        /\ installing'.old = c.old /\ installing'.stage = on
        /\ installing'.whole = installing.whole
    BY <1>2, <2>1, <2>2
  <2> QED
    BY <1>1, <1>4, <2>1, <2>3 DEF InstallInv
<1> QED
  BY <1>3, <1>4 DEF N!Backup

LEMMA InstallStep ==
  ASSUME InstallInv(app, bak, part, connection, installing), N!Next
  PROVE  InstallInv(app', bak', part', connection', installing')
<1>1. /\ app \in Held /\ bak \in Held /\ part \in Held /\ connection \in Link
      /\ installing \in Install
  BY DEF InstallInv
<1>2. CASE N!Connect \/ N!ConnectFtp
  <2>1. app' = app /\ bak' = bak
    BY <1>2 DEF N!Connect, N!ConnectFtp
  <2> QED
    BY <1>2, <2>1, ConnectStep
<1>3. CASE N!ReadHeader
  <2>1. app' = app /\ bak' = bak /\ part' = part
    BY <1>3 DEF N!ReadHeader
  <2> QED
    BY <1>3, <2>1, HeaderStep
<1>4. CASE N!ReadBody
  <2>1. app' = app /\ bak' = bak
    BY <1>4 DEF N!ReadBody
  <2> QED
    BY <1>4, <2>1, BodyStep
<1>5. CASE N!Received
  <2>1. UNCHANGED <<app, bak, part, connection>>
    BY <1>5 DEF N!Received
  <2>2. CASE N!Finish(N!Failed(installing))
    BY <1>1, <2>1, <2>2, InstallFails DEF N!Finish
  <2>3. CASE part.data # <<>> /\ N!Go(N!At(installing, "backup"))
    <3>1. /\ installing' \in Install /\ installing'.stage = "backup"
          /\ installing'.op = installing.op /\ installing'.old = installing.old
          /\ installing'.whole = installing.whole
      BY <1>1, <2>3, InstallEdits DEF N!Go, InstallStages
    <3>2. installing.stage = "received"
      BY <1>5 DEF N!Received
    <3> QED
      BY <1>1, <2>1, <2>3, <3>1, <3>2 DEF InstallInv
  <2> QED
    BY <1>5, <2>2, <2>3 DEF N!Received
<1>6. CASE N!Backup
  BY <1>6, BackupStep
<1>7. CASE N!Rename
  <2>1. installing.stage = "rename" /\ bak' = bak /\ connection' = connection
    BY <1>7 DEF N!Rename
  <2>2. CASE app = N!None /\ app' = part /\ part' = N!None /\ N!Finish(installing)
    <3>1. /\ installing' \in Install /\ installing'.stage = "done"
          /\ installing'.op = installing.op /\ installing'.old = installing.old
          /\ installing'.rc = installing.rc /\ installing'.whole = installing.whole
      BY <1>1, <2>2, InstallEdits DEF N!Finish, InstallStages
    <3> QED
      BY <1>1, <2>1, <2>2, <3>1, HeldData DEF InstallInv
  <2>3. CASE UNCHANGED <<app, part>> /\ N!Finish(N!Failed(installing))
    BY <1>1, <2>1, <2>3, InstallFails DEF N!Finish
  <2> QED
    BY <1>7, <2>2, <2>3 DEF N!Rename
<1>8. CASE N!StartLocal
  <2> DEFINE c == N!Begun("local")
  <2>1. c \in Install /\ c.op = "local" /\ c.old = app
    BY <1>1, InstallBegins
  <2>2. installing' = N!At(c, "backup") /\ UNCHANGED <<app, bak, part, connection>>
    BY <1>8 DEF N!StartLocal, N!Go
  <2> HIDE DEF c
  <2>3. /\ installing' \in Install /\ installing'.stage = "backup"
        /\ installing'.op = "local" /\ installing'.old = app
    BY <2>1, <2>2, InstallEdits DEF InstallStages
  <2> QED
    BY <1>1, <2>2, <2>3 DEF InstallInv
<1>9. CASE N!OpenLocal
  <2>1. installing.stage = "open" /\ UNCHANGED <<bak, part, connection>>
    BY <1>9 DEF N!OpenLocal
  <2>2. CASE N!Finish(N!Failed(installing)) /\ UNCHANGED app
    BY <1>1, <2>1, <2>2, InstallFails DEF N!Finish
  <2>3. CASE app' = N!File(<<>>) /\ N!Go(N!At(installing, "copy"))
    <3>1. /\ installing' \in Install /\ installing'.stage = "copy"
          /\ installing'.op = installing.op /\ installing'.old = installing.old
      BY <1>1, <2>3, InstallEdits DEF N!Go, InstallStages
    <3>2. <<>> \in Seq(Piece)
      OBVIOUS
    <3>3. app' \in Held
      BY <2>3, <3>2, HeldData
    <3> QED
      BY <1>1, <2>1, <3>1, <3>3 DEF InstallInv
  <2> QED
    BY <1>9, <2>2, <2>3 DEF N!OpenLocal
<1>10. CASE N!CopyLocal
  <2>1. installing.stage = "copy" /\ UNCHANGED <<bak, part, connection>>
    BY <1>10 DEF N!CopyLocal
  <2>2. installing.op = "local"
    BY <2>1 DEF InstallInv
  <2>3. installing.old # N!None => bak = installing.old
    BY <2>1 DEF InstallInv
  <2>4. CASE app' \in N!Stored(app) /\ (N!Finish(installing) \/ N!Finish(N!Failed(installing)))
    <3>1. app' \in Held
      BY <1>1, <2>4, StoredData
    <3>2. /\ installing' \in Install /\ installing'.stage = "done"
          /\ installing'.op = "local" /\ installing'.old = installing.old
      <4>1. CASE N!Finish(installing)
        BY <1>1, <2>2, <4>1, InstallEdits DEF N!Finish, InstallStages
      <4>2. CASE N!Finish(N!Failed(installing))
        BY <1>1, <2>2, <4>2 DEF N!Finish, N!Failed, N!At, Install, InstallStages
      <4> QED
        BY <2>4, <4>1, <4>2
    <3> QED
      BY <1>1, <2>1, <2>3, <3>1, <3>2 DEF InstallInv
  <2>5. ASSUME NEW p \in Program, Len(app.data) < Len(p), installing' = installing,
               app' = N!File(Append(app.data, p[Len(app.data) + 1]))
        PROVE  InstallInv(app', bak', part', connection', installing')
    <3>1. p \in Seq(Piece) /\ app.data \in Seq(Piece)
      BY <1>1, HeldData, ProgramPieces
    <3>2. Append(app.data, p[Len(app.data) + 1]) \in Seq(Piece)
      <4>1. Len(app.data) + 1 \in 1 .. Len(p)
        BY <2>5, <3>1
      <4>2. p[Len(app.data) + 1] \in Piece
        BY <3>1, <4>1
      <4> QED
        BY <3>1, <4>2
    <3>3. app' \in Held
      BY <2>5, <3>2, HeldData
    <3> QED
      BY <1>1, <2>1, <2>2, <2>3, <2>5, <3>3 DEF InstallInv
  <2> QED
    BY <1>10, <2>4, <2>5 DEF N!CopyLocal
<1>11. CASE N!Clear
  <2>1. app' \in Held /\ bak' \in Held /\ part' = part /\ connection' = connection
    BY <1>1, <1>11, HeldData DEF N!Clear
  <2>2. installing' = N!At(N!NoCall, "done")
    BY <1>11 DEF N!Clear, N!Finish
  <2>3. /\ installing' \in Install /\ installing'.stage = "done" /\ installing'.op = "none"
        /\ installing'.old = N!None
    BY <2>2, HeldData DEF N!At, N!NoCall, Install, InstallStages
  <2> QED
    BY <1>1, <2>1, <2>3 DEF InstallInv
<1>12. CASE N!Kill
  <2>1. connection' = N!Closed /\ UNCHANGED <<app, bak, part>>
    BY <1>12 DEF N!Kill
  <2> QED
    BY <1>12, <2>1, LinkData, InstallFails DEF N!Kill, N!Finish
<1> QED
  BY <1>2, <1>3, <1>4, <1>5, <1>6, <1>7, <1>8, <1>9, <1>10, <1>11, <1>12 DEF N!Next

LEMMA InstalledKept == Spec => []IInstalled
<1>1. Init => IInstalled
  <2> SUFFICES ASSUME N!Init PROVE InstallInv(app, bak, part, connection, installing)
    BY DEF Init, IInstalled
  <2>1. app \in Held /\ bak \in Held /\ part \in Held /\ connection \in Link
    BY HeldData, ProgramPieces, LinkData DEF N!Init
  <2>2. /\ installing \in Install /\ installing.stage = "done" /\ installing.op = "none"
        /\ installing.old = N!None
    BY HeldData DEF N!Init, N!NoCall, Install, InstallStages
  <2> QED
    BY <2>1, <2>2 DEF InstallInv
<1>2. IInstalled /\ [Next]_vars => IInstalled'
  <2> SUFFICES ASSUME IInstalled, [Next]_vars, running' = "installed"
               PROVE  InstallInv(app', bak', part', connection', installing')
    BY DEF IInstalled
  <2>1. CASE running = "installed" /\ N!Next
    BY <2>1, InstallStep DEF IInstalled
  <2>2. CASE UNCHANGED vars
    BY <2>2 DEF IInstalled, vars, installedVars
  <2> QED
    BY <2>1, <2>2 DEF Next, Others
<1> QED
  BY <1>1, <1>2, PTL DEF Spec

\* A file being moved, or a program being replaced, is whole in one of its two
\* places at every step, whichever of them fails and whenever the console is
\* switched off; what is reported moved or installed arrived whole (fs_ops.c,
\* auto_folders.c, install.c).  Excepted are moves and copies after a fault the
\* code does not look at, installations from the card whose backup could not be
\* made, and the success of an installation whose answer stopped early, whose
\* header left no room for what came with it, or whose part lost its end.
THEOREM NothingLostHolds == Spec => []NothingLost
<1>1. IMoved /\ IInstalled => NothingLost
  <2> SUFFICES ASSUME IMoved, IInstalled PROVE NothingLost
    OBVIOUS
  <2>1. running = "moved" => V!MovedNotLost /\ V!ReportedMoved
    <3> SUFFICES ASSUME MoveInv(files, moving) PROVE V!MovedNotLost /\ V!ReportedMoved
      BY DEF IMoved
    <3> QED
      BY DEF MoveInv, V!MovedNotLost, V!ReportedMoved, V!Idle
  <2>2. running = "installed" => N!OldKept /\ N!InstalledWhole
    <3> SUFFICES ASSUME InstallInv(app, bak, part, connection, installing)
                 PROVE  N!OldKept /\ N!InstalledWhole
      BY DEF IInstalled
    <3>1. N!OldKept
      BY DEF InstallInv, N!OldKept
    <3>2. N!InstalledWhole
      <4> SUFFICES ASSUME N!Idle, installing.op = "staged", installing.rc = "ok", installing.whole
                   PROVE  \E p \in Program : app = N!File(p)
        BY DEF N!InstalledWhole
      <4>1. app \in Held /\ app.kind = "file" /\ app.data \in Program
        BY DEF InstallInv, N!Idle
      <4> QED
        BY <4>1, HeldData
    <3> QED
      BY <3>1, <3>2
  <2> QED
    BY <2>1, <2>2 DEF NothingLost
<1> QED
  BY <1>1, MovedKept, InstalledKept, PTL

-----------------------------------------------------------------------------
(* Sums over sets.  A sum takes one element after the other, as CHOOSE has  *)
(* it; what follows says that the order makes no difference.  There is no   *)
(* induction over the sets: a set for which a claim fails is looked at that *)
(* has no element without which it still fails.                            *)

LEMMA LessIsWellFounded ==
  IsWellFoundedOn({p \in Nat \X Nat : p[1] < p[2]}, Nat)
  BY NatLessThanWellFounded, Zenon DEF OpToRel

\* A non-empty set of natural numbers has a least element.
LEMMA Least ==
  ASSUME NEW S, S \subseteq Nat, S # {}
  PROVE  \E i \in S : \A j \in S : i <= j
<1>1. PICK i \in S : \A j \in S : <<j, i>> \notin {p \in Nat \X Nat : p[1] < p[2]}
  BY LessIsWellFounded, WFMin
<1>2. \A j \in S : i <= j
  <2> TAKE j \in S
  <2>1. i \in Nat /\ j \in Nat /\ <<j, i>> \notin {p \in Nat \X Nat : p[1] < p[2]}
    BY <1>1
  <2>2. ~(j < i)
    BY <2>1
  <2> QED
    BY <2>1, <2>2
<1> QED
  BY <1>2

\* Among sets of things some are smallest.
LEMMA Smallest ==
  ASSUME NEW All, IsFiniteSet(All), NEW S \in SUBSET (SUBSET All), S # {}
  PROVE  \E s \in S : \A x \in s : s \ {x} \notin S
<1> DEFINE N0 == {Cardinality(s) : s \in S}
<1>1. \A s \in S : IsFiniteSet(s) /\ Cardinality(s) \in Nat
  BY FS_Subset, FS_CardinalityType
<1>2. PICK n \in N0 : \A m \in N0 : n <= m
  <2>1. N0 \subseteq Nat /\ N0 # {}
    BY <1>1
  <2> HIDE DEF N0
  <2> QED
    BY <2>1, Least
<1>3. PICK s \in S : n = Cardinality(s)
  BY <1>2
<1>4. ASSUME NEW x \in s, s \ {x} \in S PROVE FALSE
  <2>1. Cardinality(s \ {x}) = Cardinality(s) - 1
    BY <1>1, <1>4, FS_RemoveElement
  <2>2. Cardinality(s) <= Cardinality(s \ {x})
    BY <1>2, <1>3, <1>4
  <2> QED
    BY <1>1, <1>4, <2>1, <2>2
<1> QED
  BY <1>4

One(s) == CHOOSE x \in s : TRUE

Step(f, w, s) == IF s = {} THEN 0 ELSE w[One(s)] + f[s \ {One(s)}]

\* The sums of w over the subsets of All.
IsFold(f, w, All) == f = [s \in SUBSET All |-> Step(f, w, s)]

LEMMA OneIsIn ==
  ASSUME NEW s, s # {}
  PROVE  One(s) \in s
BY DEF One

LEMMA FoldExists ==
  ASSUME NEW All, IsFiniteSet(All), NEW w
  PROVE  \E f : IsFold(f, w, All)
<1> DEFINE P(f, n) == \A s \in SUBSET All : Cardinality(s) <= n => f[s] = Step(f, w, s)
           S == {n \in Nat : ~ \E f : P(f, n)}
<1>1. \A s \in SUBSET All : IsFiniteSet(s) /\ Cardinality(s) \in Nat
  BY FS_Subset, FS_CardinalityType
<1>2. ASSUME NEW m \in S, \A k \in S : m <= k PROVE FALSE
  <2>1. m \in Nat /\ ~ \E f : P(f, m)
    OBVIOUS
  <2>2. CASE m = 0
    <3> DEFINE f == [s \in SUBSET All |-> 0]
    <3>1. ASSUME NEW s \in SUBSET All, Cardinality(s) <= 0 PROVE f[s] = Step(f, w, s)
      <4>1. s = {}
        BY <1>1, <3>1, FS_EmptySet
      <4> QED
        BY <4>1 DEF Step
    <3>2. P(f, m)
      BY <2>2, <3>1
    <3> QED
      BY <2>1, <3>2
  <2>3. CASE m # 0
    <3>1. m - 1 \in Nat /\ m - 1 \notin S
      BY <1>2, <2>1, <2>3
    <3>2. PICK g : P(g, m - 1)
      BY <3>1
    <3> DEFINE f == [s \in SUBSET All |-> IF Cardinality(s) = m THEN Step(g, w, s) ELSE g[s]]
    <3>3. ASSUME NEW s \in SUBSET All, Cardinality(s) <= m PROVE f[s] = Step(f, w, s)
      <4>1. CASE s = {}
        <5>1. Cardinality(s) = 0
          BY <4>1, FS_EmptySet
        <5>2. f[s] = 0
          <6>1. g[s] = Step(g, w, s)
            BY <2>1, <2>3, <3>1, <3>2, <5>1
          <6> QED
            BY <4>1, <6>1 DEF Step
        <5> QED
          BY <4>1, <5>2 DEF Step
      <4>2. CASE s # {}
        <5> DEFINE t == s \ {One(s)}
        <5>1. t \in SUBSET All /\ Cardinality(t) = Cardinality(s) - 1
          BY <1>1, <4>2, OneIsIn, FS_RemoveElement
        <5>2. f[t] = g[t]
          BY <1>1, <2>1, <3>3, <5>1
        <5>3. Step(f, w, s) = Step(g, w, s)
          BY <4>2, <5>2 DEF Step
        <5>4. f[s] = Step(g, w, s)
          <6>1. CASE Cardinality(s) = m
            BY <6>1
          <6>2. CASE Cardinality(s) # m
            <7>1. Cardinality(s) <= m - 1
              BY <1>1, <2>1, <3>3, <6>2
            <7> QED
              BY <3>2, <6>2, <7>1
          <6> QED
            BY <6>1, <6>2
        <5> QED
          BY <5>3, <5>4
      <4> QED
        BY <4>1, <4>2
    <3>4. P(f, m)
      BY <3>3
    <3> QED
      BY <2>1, <3>4
  <2> QED
    BY <2>2, <2>3
<1>3. S = {}
  <2>1. S \subseteq Nat
    OBVIOUS
  <2> HIDE DEF S
  <2> QED
    BY <1>2, <2>1, Least
<1>4. Cardinality(All) \in Nat /\ \A s \in SUBSET All : Cardinality(s) <= Cardinality(All)
  BY FS_Subset, FS_CardinalityType
<1>5. PICK g : P(g, Cardinality(All))
  BY <1>3, <1>4
<1>6. \A s \in SUBSET All : g[s] = Step(g, w, s)
  BY <1>4, <1>5
<1> DEFINE f == [s \in SUBSET All |-> g[s]]
<1>7. ASSUME NEW s \in SUBSET All PROVE g[s] = Step(f, w, s)
  <2>1. s # {} => f[s \ {One(s)}] = g[s \ {One(s)}]
    OBVIOUS
  <2> QED
    BY <1>6, <2>1 DEF Step
<1>8. f = [s \in SUBSET All |-> Step(f, w, s)]
  BY <1>7
<1> QED
  BY <1>8, Zenon DEF IsFold

LEMMA FoldAt ==
  ASSUME NEW f, NEW w, NEW All, IsFold(f, w, All)
  PROVE  /\ f[{}] = 0
         /\ \A s \in SUBSET All : s # {} =>
              One(s) \in s /\ f[s] = w[One(s)] + f[s \ {One(s)}]
<1>1. \A s \in SUBSET All : f[s] = Step(f, w, s)
  BY DEF IsFold
<1> QED
  BY <1>1, OneIsIn DEF Step

LEMMA FoldNat ==
  ASSUME NEW All, IsFiniteSet(All), NEW w, \A x \in All : w[x] \in Nat, NEW f, IsFold(f, w, All)
  PROVE  \A s \in SUBSET All : f[s] \in Nat
<1> DEFINE S == {s \in SUBSET All : f[s] \notin Nat}
<1>0. /\ f[{}] = 0
      /\ \A s \in SUBSET All : s # {} =>
           One(s) \in s /\ f[s] = w[One(s)] + f[s \ {One(s)}]
  BY FoldAt
<1>1. ASSUME NEW s \in S, \A x \in s : s \ {x} \notin S PROVE FALSE
  <2>1. s # {}
    <3> SUFFICES ASSUME s = {} PROVE f[s] \in Nat
      OBVIOUS
    <3>1. f[s] = 0
      BY <1>0
    <3> QED
      BY <3>1
  <2>2. One(s) \in s /\ f[s] = w[One(s)] + f[s \ {One(s)}]
    BY <1>0, <2>1
  <2>3. f[s \ {One(s)}] \in Nat /\ w[One(s)] \in Nat
    BY <1>1, <2>2
  <2> QED
    BY <2>2, <2>3
<1>2. S \in SUBSET (SUBSET All)
  OBVIOUS
<1>3. S = {}
  <2> HIDE DEF S
  <2> QED
    BY <1>1, <1>2, Smallest
<1> QED
  BY <1>3

\* Any element may be taken first.
LEMMA FoldTakes ==
  ASSUME NEW All, IsFiniteSet(All), NEW w, \A x \in All : w[x] \in Nat, NEW f, IsFold(f, w, All),
         NEW r \in SUBSET All, NEW y \in r
  PROVE  f[r] = w[y] + f[r \ {y}]
<1> DEFINE S == {s \in SUBSET All : \E x \in s : f[s] # w[x] + f[s \ {x}]}
<1>1. ASSUME NEW s \in S, \A x \in s : s \ {x} \notin S PROVE FALSE
  <2>1. PICK x \in s : f[s] # w[x] + f[s \ {x}]
    OBVIOUS
  <2>2. One(s) \in s /\ f[s] = w[One(s)] + f[s \ {One(s)}]
    BY <2>1, FoldAt
  <2> DEFINE c == One(s)
  <2> HIDE DEF c
  <2>3. c \in s /\ c # x /\ f[s] = w[c] + f[s \ {c}]
    BY <2>1, <2>2 DEF c
  <2>4. f[s \ {c}] = w[x] + f[(s \ {c}) \ {x}]
    BY <1>1, <2>3
  <2>5. f[s \ {x}] = w[c] + f[(s \ {x}) \ {c}]
    BY <1>1, <2>3
  <2>6. (s \ {c}) \ {x} = (s \ {x}) \ {c} /\ (s \ {x}) \ {c} \in SUBSET All
    OBVIOUS
  <2>7. f[(s \ {x}) \ {c}] \in Nat /\ w[c] \in Nat /\ w[x] \in Nat
    BY <2>3, <2>6, FoldNat
  <2>8. f[s] = w[c] + (w[x] + f[(s \ {x}) \ {c}])
    BY <2>3, <2>4, <2>6
  <2>9. w[c] + (w[x] + f[(s \ {x}) \ {c}]) = w[x] + (w[c] + f[(s \ {x}) \ {c}])
    BY <2>7
  <2> QED
    BY <2>1, <2>5, <2>8, <2>9
<1>2. S \in SUBSET (SUBSET All)
  OBVIOUS
<1>3. S = {}
  <2> HIDE DEF S
  <2> QED
    BY <1>1, <1>2, Smallest
<1>4. r \notin S
  BY <1>3
<1> QED
  BY <1>4

\* What two sets have in common is counted twice.
LEMMA FoldJoins ==
  ASSUME NEW All, IsFiniteSet(All), NEW w, \A x \in All : w[x] \in Nat, NEW f, IsFold(f, w, All),
         NEW s \in SUBSET All
  PROVE  \A t \in SUBSET All : f[s \cup t] <= f[s] + f[t]
<1> DEFINE S == {t \in SUBSET All : ~(f[s \cup t] <= f[s] + f[t])}
<1>0. \A t \in SUBSET All : f[t] \in Nat
  BY FoldNat
<1>1. ASSUME NEW t \in S, \A x \in t : t \ {x} \notin S PROVE FALSE
  <2>1. t # {}
    <3>1. s \cup {} = s /\ f[{}] = 0 /\ f[s] \in Nat
      BY <1>0, FoldAt
    <3> QED
      BY <3>1
  <2>2. PICK x \in t : TRUE
    BY <2>1
  <2> DEFINE r == t \ {x}
  <2>3. f[s \cup r] <= f[s] + f[r] /\ r \in SUBSET All /\ s \cup r \in SUBSET All
    BY <1>1
  <2>4. f[t] = w[x] + f[r]
    BY FoldTakes
  <2>5. f[s] \in Nat /\ f[r] \in Nat /\ w[x] \in Nat /\ f[s \cup r] \in Nat
    BY <1>0, <2>3
  <2>6. CASE x \in s
    <3>1. s \cup t = s \cup r
      BY <2>6
    <3>2. f[s \cup r] <= f[s] + f[t]
      BY <2>3, <2>4, <2>5
    <3> QED
      BY <3>1, <3>2
  <2>7. CASE x \notin s
    <3>1. (s \cup t) \ {x} = s \cup r /\ x \in s \cup t /\ s \cup t \in SUBSET All
      BY <2>7
    <3>2. f[s \cup t] = w[x] + f[s \cup r]
      BY <3>1, FoldTakes
    <3>3. f[s \cup t] <= f[s] + f[t]
      BY <2>3, <2>4, <2>5, <3>2
    <3> QED
      BY <3>3
  <2> QED
    BY <2>6, <2>7
<1>2. S \in SUBSET (SUBSET All)
  OBVIOUS
<1>3. S = {}
  <2> HIDE DEF S
  <2> QED
    BY <1>1, <1>2, Smallest
<1> QED
  BY <1>3

\* A sum does not depend on the set whose subsets are summed over.
LEMMA FoldLocal ==
  ASSUME NEW All, IsFiniteSet(All), NEW w, NEW f, IsFold(f, w, All),
         NEW Some \in SUBSET All, NEW v, \A x \in Some : v[x] = w[x], NEW g, IsFold(g, v, Some)
  PROVE  g[Some] = f[Some]
<1> DEFINE S == {s \in SUBSET Some : g[s] # f[s]}
<1>0. /\ f[{}] = 0
      /\ \A s \in SUBSET All : s # {} =>
           One(s) \in s /\ f[s] = w[One(s)] + f[s \ {One(s)}]
      /\ g[{}] = 0
      /\ \A s \in SUBSET Some : s # {} => g[s] = v[One(s)] + g[s \ {One(s)}]
  BY FoldAt
<1>1. ASSUME NEW s \in S, \A x \in s : s \ {x} \notin S PROVE FALSE
  <2>1. s # {}
    BY <1>0
  <2>2. One(s) \in s /\ f[s] = w[One(s)] + f[s \ {One(s)}]
    BY <1>0, <2>1
  <2>3. g[s] = v[One(s)] + g[s \ {One(s)}]
    BY <1>0, <2>1
  <2>4. g[s \ {One(s)}] = f[s \ {One(s)}] /\ v[One(s)] = w[One(s)]
    BY <1>1, <2>2
  <2> QED
    BY <2>2, <2>3, <2>4
<1>2. S \in SUBSET (SUBSET All)
  OBVIOUS
<1>3. S = {}
  <2> HIDE DEF S
  <2> QED
    BY <1>1, <1>2, Smallest
<1> QED
  BY <1>3

-----------------------------------------------------------------------------
(* The listings and the cleanup.                                           *)

\* The sum of the sizes of files.
LEMMA TotalFold ==
  ASSUME NEW s \in SUBSET Item, NEW f, IsFold(f, Size, Item)
  PROVE  F!Total(s) = f[s]
<1> DEFINE g == CHOOSE h : h = [t \in SUBSET s |->
                  IF t = {} THEN 0
                  ELSE Size[CHOOSE x \in t : TRUE] + h[t \ {CHOOSE x \in t : TRUE}]]
<1>1. F!Total(s) = g[s]
  BY Zenon DEF F!Total, F!MapThenSumSet, F!MapThenFoldSet
<1>2. IsFiniteSet(s)
  BY ItemsAssumption, FS_Subset
<1>3. IsFold(g, Size, s)
  <2>1. PICK h : IsFold(h, Size, s)
    BY <1>2, FoldExists
  <2>2. h = [t \in SUBSET s |->
               IF t = {} THEN 0
               ELSE Size[CHOOSE x \in t : TRUE] + h[t \ {CHOOSE x \in t : TRUE}]]
    BY <2>1, Zenon DEF IsFold, Step, One
  <2>3. g = [t \in SUBSET s |->
               IF t = {} THEN 0
               ELSE Size[CHOOSE x \in t : TRUE] + g[t \ {CHOOSE x \in t : TRUE}]]
    BY <2>2, Zenon
  <2> HIDE DEF g
  <2> QED
    BY <2>3, Zenon DEF IsFold, Step, One
<1> HIDE DEF g
<1> QED
  BY <1>1, <1>3, ItemsAssumption, FoldLocal

\* Sums of what several sets have, added up, cover what is in any of them.
LEMMA SumCovers ==
  ASSUME NEW All, IsFiniteSet(All), NEW w, \A x \in All : w[x] \in Nat,
         NEW f, IsFold(f, w, All),
         NEW p, IsFiniteSet(p), NEW c, \A x \in p : c[x] \in SUBSET All,
         NEW v, \A x \in p : v[x] = f[c[x]], NEW g, IsFold(g, v, p)
  PROVE  f[UNION {c[x] : x \in p}] <= g[p]
<1> DEFINE Any(q) == UNION {c[x] : x \in q}
           S == {q \in SUBSET p : ~(f[Any(q)] <= g[q])}
<1>1. \A s \in SUBSET All : f[s] \in Nat
  BY FoldNat
<1>2. \A x \in p : v[x] \in Nat
  BY <1>1
<1>3. \A q \in SUBSET p : g[q] \in Nat
  BY <1>2, FoldNat
<1>4. /\ f[{}] = 0 /\ g[{}] = 0
      /\ \A q \in SUBSET p : q # {} => One(q) \in q /\ g[q] = v[One(q)] + g[q \ {One(q)}]
  <2>1. f[{}] = 0
    BY FoldAt
  <2>2. /\ g[{}] = 0
        /\ \A q \in SUBSET p : q # {} => One(q) \in q /\ g[q] = v[One(q)] + g[q \ {One(q)}]
    BY FoldAt
  <2> QED
    BY <2>1, <2>2
<1>5. ASSUME NEW q \in S, \A x \in q : q \ {x} \notin S PROVE FALSE
  <2>1. q # {}
    <3> SUFFICES ASSUME q = {} PROVE f[Any(q)] <= g[q]
      OBVIOUS
    <3>1. Any(q) = {}
      OBVIOUS
    <3>2. f[Any(q)] = 0 /\ g[q] = 0
      BY <1>4, <3>1
    <3> QED
      BY <3>2
  <2> DEFINE d == One(q)
             r == q \ {d}
  <2>2. d \in q /\ g[q] = v[d] + g[r]
    BY <1>4, <2>1
  <2> HIDE DEF d
  <2>3. Any(q) = c[d] \cup Any(r)
    BY <2>2
  <2>4. c[d] \in SUBSET All /\ Any(r) \in SUBSET All
    BY <2>2
  <2>5. f[Any(r)] <= g[r]
    BY <1>5, <2>2
  <2>6. f[c[d] \cup Any(r)] <= f[c[d]] + f[Any(r)]
    BY <2>4, FoldJoins
  <2>7. /\ f[c[d]] \in Nat /\ f[Any(r)] \in Nat /\ g[r] \in Nat /\ v[d] = f[c[d]]
        /\ f[Any(q)] \in Nat
    <3>1. c[d] \cup Any(r) \in SUBSET All
      BY <2>4
    <3> QED
      BY <1>1, <1>3, <2>2, <2>3, <2>4, <3>1
  <2>8. f[Any(q)] <= g[q]
    <3>1. f[Any(q)] <= f[c[d]] + f[Any(r)]
      BY <2>3, <2>6
    <3> HIDE DEF Any, r
    <3> QED
      BY <2>2, <2>5, <2>7, <3>1
  <2> QED
    BY <2>8
<1>6. S \in SUBSET (SUBSET p)
  OBVIOUS
<1>7. S = {}
  <2> HIDE DEF S
  <2> QED
    BY <1>5, <1>6, Smallest
<1>8. p \notin S
  BY <1>7
<1> QED
  BY <1>8

LEMMA FreedCovers ==
  ASSUME NEW p \in SUBSET F!Passes, NEW walk \in [p -> SUBSET Item]
  PROVE  F!Total(UNION {F!Chosen(pass, walk[pass]) : pass \in p}) <=
           F!MapThenSumSet(LAMBDA pass : F!Total(F!Chosen(pass, walk[pass])), p)
<1> DEFINE g == CHOOSE h : h = [t \in SUBSET p |->
                  IF t = {} THEN 0
                  ELSE F!Total(F!Chosen(CHOOSE x \in t : TRUE, walk[CHOOSE x \in t : TRUE]))
                         + h[t \ {CHOOSE x \in t : TRUE}]]
           c == [pass \in p |-> F!Chosen(pass, walk[pass])]
           v == [pass \in p |-> F!Total(F!Chosen(pass, walk[pass]))]
<1>1. F!MapThenSumSet(LAMBDA pass : F!Total(F!Chosen(pass, walk[pass])), p) = g[p]
  BY Zenon DEF F!MapThenSumSet, F!MapThenFoldSet
<1>2. IsFiniteSet(p)
  <2>1. IsFiniteSet({} \cup {"temp"} \cup {"part"} \cup {"old"})
    <3>1. IsFiniteSet({} \cup {"temp"})
      BY FS_EmptySet, FS_AddElement
    <3>2. IsFiniteSet({} \cup {"temp"} \cup {"part"})
      BY <3>1, FS_AddElement
    <3> QED
      BY <3>2, FS_AddElement
  <2>2. F!Passes = {} \cup {"temp"} \cup {"part"} \cup {"old"}
    BY DEF F!Passes
  <2> QED
    BY <2>1, <2>2, FS_Subset
<1>3. \A x \in p : c[x] \in SUBSET Item
  BY DEF F!Chosen
<1>4. IsFiniteSet(Item) /\ \A x \in Item : Size[x] \in Nat
  BY ItemsAssumption
<1>5. PICK f : IsFold(f, Size, Item)
  BY <1>4, FoldExists
<1>6. \A x \in p : v[x] = f[c[x]]
  <2> SUFFICES ASSUME NEW x \in p PROVE v[x] = f[c[x]]
    OBVIOUS
  <2>1. F!Total(c[x]) = f[c[x]]
    BY <1>3, <1>5, TotalFold
  <2> QED
    BY <2>1
<1>7. IsFold(g, v, p)
  <2>1. PICK h : IsFold(h, v, p)
    BY <1>2, FoldExists
  <2>2. \A t \in SUBSET p : t # {} => One(t) \in p
    BY OneIsIn
  <2>3. \A t \in SUBSET p : t # {} => v[One(t)] = F!Total(F!Chosen(One(t), walk[One(t)]))
    BY <2>2
  <2> HIDE DEF v, g
  <2> DEFINE Body(k, t) ==
               IF t = {} THEN 0
               ELSE F!Total(F!Chosen(CHOOSE x \in t : TRUE, walk[CHOOSE x \in t : TRUE]))
                      + k[t \ {CHOOSE x \in t : TRUE}]
  <2>4. ASSUME NEW k, NEW t \in SUBSET p PROVE Step(k, v, t) = Body(k, t)
    <3>1. CASE t = {}
      BY <3>1 DEF Step
    <3>2. CASE t # {}
      <4>1. v[One(t)] = F!Total(F!Chosen(One(t), walk[One(t)]))
        BY <2>3, <3>2
      <4>2. Step(k, v, t) = v[One(t)] + k[t \ {One(t)}]
        BY <3>2 DEF Step
      <4>3. Body(k, t) = F!Total(F!Chosen(One(t), walk[One(t)])) + k[t \ {One(t)}]
        BY <3>2, Zenon DEF One
      <4> HIDE DEF Body
      <4> QED
        BY <4>1, <4>2, <4>3
    <3> QED
      BY <3>1, <3>2
  <2>5. g = CHOOSE k : k = [t \in SUBSET p |-> Body(k, t)]
    BY Zenon DEF g
  <2> HIDE DEF Body
  <2>6. h = [t \in SUBSET p |-> Body(h, t)]
    BY <2>1, <2>4 DEF IsFold
  <2>7. g = [t \in SUBSET p |-> Body(g, t)]
    BY <2>5, <2>6, Zenon
  <2>8. [t \in SUBSET p |-> Body(g, t)] = [t \in SUBSET p |-> Step(g, v, t)]
    BY <2>4
  <2> QED
    BY <2>7, <2>8, Zenon DEF IsFold
<1>8. UNION {c[x] : x \in p} = UNION {F!Chosen(pass, walk[pass]) : pass \in p}
  <2>1. \A x \in p : c[x] = F!Chosen(x, walk[x])
    OBVIOUS
  <2> HIDE DEF c
  <2> QED
    BY <2>1
<1> HIDE DEF g, c, v
<1>9. UNION {c[x] : x \in p} \in SUBSET Item
  BY <1>3
<1>10. F!Total(UNION {c[x] : x \in p}) = f[UNION {c[x] : x \in p}]
  BY <1>5, <1>9, TotalFold
<1>11. f[UNION {c[x] : x \in p}] <= g[p]
  BY <1>2, <1>3, <1>4, <1>5, <1>6, <1>7, SumCovers
<1> QED
  BY <1>1, <1>8, <1>10, <1>11

LEMMA TotalOfNone == F!Total({}) = 0
<1>1. PICK f : IsFold(f, Size, Item)
  BY ItemsAssumption, FoldExists
<1>2. f[{}] = 0
  BY <1>1, FoldAt
<1>3. {} \in SUBSET Item
  OBVIOUS
<1> QED
  BY <1>1, <1>2, <1>3, TotalFold

\* A listing whose count is its selection and what it dropped, whatever room it has.
Listings(rooms) ==
  [up : BOOLEAN, entries : SUBSET Item, picked : SUBSET Item, room : rooms, selected : Nat,
   dropped : Nat]

IsListing(l) ==
  /\ \E rooms : l \in Listings(rooms)
  /\ l.picked \subseteq l.entries
  /\ l.selected = Cardinality(l.picked) + l.dropped

Erased(tasks) == {t[2] : t \in {x \in tasks : x[1] = "delete"}}

OrgInv ==
  /\ card \in SUBSET Item
  /\ IsListing(listing)
  /\ F!Total(Erased(sent.tasks)) <= sent.freed

IOrganised == running = "organised" => OrgInv

LEMMA ItemsFinite ==
  \A s \in SUBSET Item : IsFiniteSet(s) /\ Cardinality(s) \in Nat
BY ItemsAssumption, FS_Subset, FS_CardinalityType

LEMMA NothingSent ==
  ASSUME NEW x, x = F!Nothing
  PROVE  F!Total(Erased(x.tasks)) <= x.freed
<1>1. x.tasks = {} /\ x.freed = 0
  BY DEF F!Nothing
<1>2. Erased(x.tasks) = {}
  BY <1>1 DEF Erased
<1>3. F!Total(Erased(x.tasks)) = 0
  BY <1>2, TotalOfNone, Zenon
<1> QED
  BY <1>1, <1>3

LEMMA NewListing ==
  ASSUME NEW l, NEW r,
         l = F!NoListing \/ l = [F!NoListing EXCEPT !.up = TRUE, !.room = r]
  PROVE  IsListing(l)
<1>1. Cardinality({}) = 0
  BY FS_EmptySet
<1>2. /\ F!NoListing \in Listings({0})
      /\ F!NoListing.picked = {} /\ F!NoListing.entries = {} /\ F!NoListing.selected = 0
      /\ F!NoListing.dropped = 0
  BY DEF F!NoListing, Listings
<1>3. CASE l = F!NoListing
  BY <1>1, <1>2, <1>3 DEF IsListing
<1>4. CASE l = [F!NoListing EXCEPT !.up = TRUE, !.room = r]
  <2>1. /\ l \in Listings({r})
        /\ l.picked = {} /\ l.entries = {} /\ l.selected = 0 /\ l.dropped = 0
    BY <1>2, <1>4 DEF Listings
  <2> QED
    BY <1>1, <2>1 DEF IsListing
<1> QED
  BY <1>3, <1>4

LEMMA ListingFields ==
  ASSUME NEW l, IsListing(l)
  PROVE  /\ l.entries \in SUBSET Item /\ l.picked \in SUBSET l.entries
         /\ l.selected \in Nat /\ l.dropped \in Nat /\ l.selected = Cardinality(l.picked) + l.dropped
BY DEF IsListing, Listings

\* Whatever is read into a listing,
LEMMA ReadAgain ==
  ASSUME NEW l, IsListing(l), NEW e \in SUBSET Item, NEW r, NEW d \in Nat, d = l.dropped + Cardinality(l.picked)
  PROVE  IsListing([l EXCEPT !.entries = e, !.picked = {}, !.room = r, !.dropped = d])
<1> DEFINE m == [l EXCEPT !.entries = e, !.picked = {}, !.room = r, !.dropped = d]
<1>1. PICK rooms : l \in Listings(rooms)
  BY DEF IsListing
<1>2. /\ m \in Listings({r})
      /\ m.entries = e /\ m.picked = {} /\ m.selected = l.selected /\ m.dropped = d
  BY <1>1 DEF Listings
<1>3. l.selected \in Nat /\ l.dropped \in Nat /\ l.selected = Cardinality(l.picked) + l.dropped
  BY ListingFields
<1>4. Cardinality(l.picked) \in Nat
  BY ListingFields, ItemsFinite
<1> HIDE DEF m
<1>5. Cardinality(m.picked) = 0 /\ m.picked \subseteq m.entries
  BY <1>2, FS_EmptySet
<1>6. m.selected = Cardinality(m.picked) + m.dropped
  BY <1>2, <1>3, <1>4, <1>5
<1>7. IsListing(m)
  BY <1>2, <1>5, <1>6 DEF IsListing
<1> QED
  BY <1>7 DEF m

\* left out of it
LEMMA NarrowedListing ==
  ASSUME NEW l, IsListing(l), NEW e \in SUBSET l.entries, NEW d, d = l.dropped + Cardinality(l.picked \ e)
  PROVE  IsListing([l EXCEPT !.entries = e, !.picked = @ \cap e, !.dropped = d])
<1> DEFINE m == [l EXCEPT !.entries = e, !.picked = @ \cap e, !.dropped = d]
<1>1. PICK rooms : l \in Listings(rooms)
  BY DEF IsListing
<1>2. /\ l.entries \in SUBSET Item /\ l.picked \in SUBSET l.entries
      /\ l.selected \in Nat /\ l.dropped \in Nat /\ l.selected = Cardinality(l.picked) + l.dropped
  BY ListingFields
<1>3. /\ e \in SUBSET Item /\ l.picked \cap e \in SUBSET Item /\ l.picked \ e \in SUBSET Item
      /\ l.picked \in SUBSET Item
  BY <1>2
<1>4. /\ IsFiniteSet(l.picked) /\ Cardinality(l.picked) \in Nat
      /\ IsFiniteSet(l.picked \cap e) /\ Cardinality(l.picked \cap e) \in Nat
      /\ IsFiniteSet(l.picked \ e) /\ Cardinality(l.picked \ e) \in Nat
  BY <1>3, ItemsFinite
<1>5. d \in Nat
  BY <1>2, <1>4
<1>6. /\ m \in Listings(rooms)
      /\ m.entries = e /\ m.picked = l.picked \cap e /\ m.selected = l.selected /\ m.dropped = d
  BY <1>1, <1>3, <1>5 DEF Listings
<1> HIDE DEF m
<1>7. Cardinality(l.picked) = Cardinality(l.picked \cap e) + Cardinality(l.picked \ e)
  <2>1. /\ l.picked = (l.picked \cap e) \cup (l.picked \ e)
        /\ (l.picked \cap e) \cap (l.picked \ e) = {}
    OBVIOUS
  <2>2. Cardinality((l.picked \cap e) \cup (l.picked \ e)) =
          Cardinality(l.picked \cap e) + Cardinality(l.picked \ e)
          - Cardinality((l.picked \cap e) \cap (l.picked \ e))
    BY <1>4, FS_Union
  <2>3. Cardinality((l.picked \cap e) \cap (l.picked \ e)) = 0
    BY <2>1, FS_EmptySet
  <2>4. Cardinality((l.picked \cap e) \cup (l.picked \ e)) = Cardinality(l.picked)
    BY <2>1
  <2> QED
    BY <1>4, <2>2, <2>3, <2>4
<1>8. m.selected = Cardinality(m.picked) + m.dropped
  BY <1>2, <1>4, <1>6, <1>7
<1>9. IsListing(m)
  BY <1>6, <1>8 DEF IsListing
<1> QED
  BY <1>9 DEF m

\* or selected in it.
LEMMA SelectedListing ==
  ASSUME NEW l, IsListing(l), NEW s \in SUBSET l.entries, NEW n \in Nat, NEW d \in Nat, n = Cardinality(s) + d
  PROVE  IsListing([l EXCEPT !.picked = s, !.selected = n, !.dropped = d])
<1> DEFINE m == [l EXCEPT !.picked = s, !.selected = n, !.dropped = d]
<1>1. PICK rooms : l \in Listings(rooms)
  BY DEF IsListing
<1>2. s \in SUBSET Item
  BY ListingFields
<1>3. /\ m \in Listings(rooms)
      /\ m.entries = l.entries /\ m.picked = s /\ m.selected = n /\ m.dropped = d
  BY <1>1, <1>2 DEF Listings
<1> HIDE DEF m
<1>4. IsListing(m)
  BY <1>3 DEF IsListing
<1> QED
  BY <1>4 DEF m

LEMMA ErasedOf ==
  ASSUME NEW hit
  PROVE  Erased({<<"delete", i>> : i \in hit}) = hit
<1> DEFINE tasks == {<<"delete", i>> : i \in hit}
<1>1. ASSUME NEW x \in Erased(tasks) PROVE x \in hit
  <2>1. PICK t \in tasks : x = t[2]
    BY DEF Erased
  <2>2. PICK i \in hit : t = <<"delete", i>>
    BY <2>1
  <2> QED
    BY <2>1, <2>2
<1>2. ASSUME NEW x \in hit PROVE x \in Erased(tasks)
  <2>1. <<"delete", x>> \in tasks
    OBVIOUS
  <2>2. <<"delete", x>>[1] = "delete" /\ <<"delete", x>>[2] = x
    OBVIOUS
  <2> HIDE DEF tasks
  <2> QED
    BY <2>1, <2>2, Zenon DEF Erased
<1> QED
  BY <1>1, <1>2

LEMMA OrgStep ==
  ASSUME OrgInv, F!Next
  PROVE  OrgInv'
<1>1. /\ card \in SUBSET Item /\ IsListing(listing)
      /\ listing.entries \in SUBSET Item /\ listing.picked \in SUBSET listing.entries
      /\ listing.selected \in Nat /\ listing.dropped \in Nat
      /\ listing.selected = Cardinality(listing.picked) + listing.dropped
  BY ListingFields DEF OrgInv
<1>2. ASSUME card' \in SUBSET Item, IsListing(listing'), sent' = F!Nothing
      PROVE  OrgInv'
  <2>1. F!Total(Erased(sent'.tasks)) <= sent'.freed
    BY <1>2, NothingSent
  <2> QED
    BY <1>2, <2>1 DEF OrgInv
<1>3. CASE F!ListingInit \/ F!ListingFree
  <2>1. sent' = F!Nothing /\ card' = card
    BY <1>3 DEF F!ListingInit, F!ListingFree, F!Nothing
  <2>2. listing' = F!NoListing \/ listing' = [F!NoListing EXCEPT !.up = TRUE, !.room = FirstRoom]
    BY <1>3, Zenon DEF F!ListingInit, F!ListingFree
  <2>3. IsListing(listing')
    BY <2>2, NewListing, Zenon
  <2> QED
    BY <1>1, <1>2, <2>1, <2>3
<1>same. ASSUME NEW s PROVE F!Cardinality(s) = Cardinality(s)
  BY DEF F!Cardinality, F!IsFiniteSet, Cardinality, IsFiniteSet
<1>4. CASE F!ListFiles
  <2>1. sent' = F!Nothing /\ card' = card
    BY <1>4 DEF F!ListFiles, F!Nothing
  <2>2. PICK s \in SUBSET {i \in card : F!InRoot(i)} :
          listing' = [listing EXCEPT !.entries = s, !.picked = {},
                                     !.room = F!Grown(@, F!Cardinality(s)),
                                     !.dropped = @ + F!Cardinality(listing.picked)]
    BY <1>4, Zenon DEF F!ListFiles
  <2> DEFINE r == F!Grown(listing.room, F!Cardinality(s))
             d == listing.dropped + F!Cardinality(listing.picked)
  <2>3. listing' = [listing EXCEPT !.entries = s, !.picked = {}, !.room = r, !.dropped = d]
    BY <2>2, Zenon
  <2>4. s \in SUBSET Item /\ listing.picked \in SUBSET Item
    BY <1>1
  <2>5. d \in Nat /\ d = listing.dropped + Cardinality(listing.picked)
    BY <1>1, <1>same, <2>4, ItemsFinite
  <2> HIDE DEF r, d
  <2>6. IsListing([listing EXCEPT !.entries = s, !.picked = {}, !.room = r, !.dropped = d])
    BY <1>1, <2>4, <2>5, ReadAgain, Zenon
  <2> QED
    BY <1>1, <1>2, <2>1, <2>3, <2>6
<1>5. CASE F!Filter \/ F!Search
  <2>1. sent' = F!Nothing /\ card' = card
    BY <1>5 DEF F!Filter, F!Search, F!Nothing
  <2>2. PICK s \in SUBSET listing.entries : listing' = F!Narrowed(listing, s)
    <3>1. CASE F!Search
      BY <3>1 DEF F!Search
    <3>2. CASE F!Filter
      BY <3>2 DEF F!Filter
    <3> QED
      BY <1>5, <3>1, <3>2
  <2> DEFINE d == listing.dropped + F!Cardinality(listing.picked \ s)
  <2>3. listing' = [listing EXCEPT !.entries = s, !.picked = @ \cap s, !.dropped = d]
    BY <2>2, Zenon DEF F!Narrowed
  <2>4. d = listing.dropped + Cardinality(listing.picked \ s)
    BY <1>same
  <2> HIDE DEF d
  <2>5. IsListing([listing EXCEPT !.entries = s, !.picked = @ \cap s, !.dropped = d])
    BY <1>1, <2>4, NarrowedListing, Zenon
  <2>6. IsListing(listing')
    BY <2>3, <2>5
  <2> QED
    BY <1>1, <1>2, <2>1, <2>6
<1>6. CASE F!SelectItem
  <2>1. sent' = F!Nothing /\ card' = card
    BY <1>6 DEF F!SelectItem, F!Nothing
  <2>2. PICK i \in listing.entries :
          listing' = IF i \in listing.picked
                     THEN [listing EXCEPT !.picked = @ \ {i}, !.selected = @ - 1]
                     ELSE [listing EXCEPT !.picked = @ \cup {i}, !.selected = @ + 1]
    BY <1>6, Zenon DEF F!SelectItem
  <2> DEFINE s == listing.picked
             n == listing.selected
             d == listing.dropped
  <2>3. IsFiniteSet(s) /\ Cardinality(s) \in Nat
    BY <1>1, ItemsFinite
  <2>4. CASE i \in s
    <3>1. Cardinality(s \ {i}) = Cardinality(s) - 1 /\ Cardinality(s \ {i}) \in Nat
      <4>1. s \ {i} \in SUBSET Item
        BY <1>1
      <4> QED
        BY <2>3, <2>4, <4>1, FS_RemoveElement, ItemsFinite
    <3>2. n - 1 \in Nat /\ n - 1 = Cardinality(s \ {i}) + d /\ d \in Nat
      BY <1>1, <2>3, <3>1
    <3>3. listing' = [listing EXCEPT !.picked = s \ {i}, !.selected = n - 1, !.dropped = d]
      <4>1. listing' = [listing EXCEPT !.picked = s \ {i}, !.selected = n - 1]
        BY <2>2, <2>4, Zenon
      <4> QED
        BY <1>1, <4>1 DEF IsListing, Listings
    <3>4. s \ {i} \in SUBSET listing.entries
      BY <1>1
    <3> HIDE DEF s, n, d
    <3>5. IsListing([listing EXCEPT !.picked = s \ {i}, !.selected = n - 1, !.dropped = d])
      BY <1>1, <3>2, <3>4, SelectedListing, Zenon
    <3>6. IsListing(listing')
      BY <3>3, <3>5
    <3> QED
      BY <1>1, <1>2, <2>1, <3>6
  <2>5. CASE i \notin s
    <3>1. Cardinality(s \cup {i}) = Cardinality(s) + 1
      BY <2>3, <2>5, FS_AddElement
    <3>2. n + 1 \in Nat /\ n + 1 = Cardinality(s \cup {i}) + d /\ d \in Nat
      BY <1>1, <2>3, <3>1
    <3>3. listing' = [listing EXCEPT !.picked = s \cup {i}, !.selected = n + 1, !.dropped = d]
      <4>1. listing' = [listing EXCEPT !.picked = s \cup {i}, !.selected = n + 1]
        BY <2>2, <2>5, Zenon
      <4> QED
        BY <1>1, <4>1 DEF IsListing, Listings
    <3>4. s \cup {i} \in SUBSET listing.entries
      BY <1>1
    <3> HIDE DEF s, n, d
    <3>5. IsListing([listing EXCEPT !.picked = s \cup {i}, !.selected = n + 1, !.dropped = d])
      BY <1>1, <3>2, <3>4, SelectedListing, Zenon
    <3>6. IsListing(listing')
      BY <3>3, <3>5
    <3> QED
      BY <1>1, <1>2, <2>1, <3>6
  <2> QED
    BY <2>4, <2>5
<1>7. CASE F!SelectAll \/ F!DeselectAll
  <2>1. sent' = F!Nothing /\ card' = card
    BY <1>7 DEF F!SelectAll, F!DeselectAll, F!Nothing
  <2>2. CASE F!SelectAll
    <3>1. F!Cardinality(listing.entries) = Cardinality(listing.entries)
      BY <1>same
    <3>2. listing' = [listing EXCEPT !.picked = listing.entries,
                                     !.selected = Cardinality(listing.entries), !.dropped = 0]
      BY <2>2, <3>1, Zenon DEF F!SelectAll
    <3>3. /\ Cardinality(listing.entries) \in Nat /\ 0 \in Nat
          /\ Cardinality(listing.entries) = Cardinality(listing.entries) + 0
      BY <1>1, ItemsFinite
    <3>4. IsListing([listing EXCEPT !.picked = listing.entries,
                                    !.selected = Cardinality(listing.entries), !.dropped = 0])
      BY <1>1, <3>3, SelectedListing, Zenon
    <3>5. IsListing(listing')
      BY <3>2, <3>4
    <3> QED
      BY <1>1, <1>2, <2>1, <3>5
  <2>3. CASE F!DeselectAll
    <3>1. listing' = [listing EXCEPT !.picked = {}, !.selected = 0, !.dropped = 0]
      BY <2>3, Zenon DEF F!DeselectAll
    <3>2. {} \in SUBSET listing.entries /\ 0 \in Nat /\ 0 = Cardinality({}) + 0
      BY FS_EmptySet
    <3>3. IsListing([listing EXCEPT !.picked = {}, !.selected = 0, !.dropped = 0])
      BY <1>1, <3>2, SelectedListing, Zenon
    <3>4. IsListing(listing')
      BY <3>1, <3>3
    <3> QED
      BY <1>1, <1>2, <2>1, <3>4
  <2> QED
    BY <1>7, <2>2, <2>3
<1>8. CASE F!ProcessSelected
  <2>1. card' = card /\ listing' = listing
    BY <1>8 DEF F!ProcessSelected
  <2>2. PICK op \in {"copy", "move"} :
          sent' = [F!Nothing EXCEPT !.tasks = {<<op, i>> : i \in listing.picked}]
    BY <1>8 DEF F!ProcessSelected
  <2>3. sent'.tasks = {<<op, i>> : i \in listing.picked} /\ sent'.freed = 0
    BY <2>2 DEF F!Nothing
  <2>4. Erased(sent'.tasks) = {}
    BY <2>3 DEF Erased
  <2>5. F!Total(Erased(sent'.tasks)) = 0
    BY <2>4, TotalOfNone, Zenon
  <2>6. F!Total(Erased(sent'.tasks)) <= sent'.freed
    BY <2>3, <2>5
  <2> QED
    BY <1>1, <2>1, <2>6 DEF OrgInv
<1>9. CASE F!DeleteItem \/ F!Appears
  <2>1. sent' = F!Nothing /\ listing' = listing
    BY <1>9 DEF F!DeleteItem, F!Appears, F!Nothing
  <2>2. card' \in SUBSET Item
    BY <1>1, <1>9 DEF F!DeleteItem, F!Appears
  <2> QED
    BY <1>1, <1>2, <2>1, <2>2
<1>10. CASE F!Scan
  <2>1. card' = card /\ listing' = listing
    BY <1>10 DEF F!Scan
  <2>2. PICK p \in SUBSET F!Passes : \E walk \in [p -> F!Walks] :
          sent' = [tasks |-> {<<"delete", i>> :
                                i \in UNION {F!Chosen(pass, walk[pass]) : pass \in p}},
                   freed |-> F!MapThenSumSet(LAMBDA pass : F!Total(F!Chosen(pass, walk[pass])), p)]
    BY <1>10, Zenon DEF F!Scan
  <2>3. PICK walk \in [p -> F!Walks] :
          sent' = [tasks |-> {<<"delete", i>> :
                                i \in UNION {F!Chosen(pass, walk[pass]) : pass \in p}},
                   freed |-> F!MapThenSumSet(LAMBDA pass : F!Total(F!Chosen(pass, walk[pass])), p)]
    BY <2>2
  <2>4. walk \in [p -> SUBSET Item]
    <3>1. F!Walks \subseteq SUBSET Item
      BY <1>1 DEF F!Walks
    <3> QED
      BY <3>1
  <2> DEFINE hit == UNION {F!Chosen(pass, walk[pass]) : pass \in p}
             freed == F!MapThenSumSet(LAMBDA pass : F!Total(F!Chosen(pass, walk[pass])), p)
  <2>5. F!Total(hit) <= freed
    BY <2>4, FreedCovers
  <2>6. sent' = [tasks |-> {<<"delete", i>> : i \in hit}, freed |-> freed]
    BY <2>3, Zenon
  <2> HIDE DEF hit, freed
  <2>7. sent'.tasks = {<<"delete", i>> : i \in hit} /\ sent'.freed = freed
    BY <2>6
  <2>8. Erased(sent'.tasks) = hit
    BY <2>7, ErasedOf
  <2>9. F!Total(Erased(sent'.tasks)) <= sent'.freed
    BY <2>5, <2>7, <2>8
  <2> QED
    BY <1>1, <2>1, <2>9 DEF OrgInv
<1> QED
  BY <1>3, <1>4, <1>5, <1>6, <1>7, <1>8, <1>9, <1>10 DEF F!Next

\* The count of what is selected is that of the selection, which is among the
\* entries shown, and of what was lost while selected since all or none were
\* (file_org.c); and the space a cleanup reports is never less than what it
\* queued for deletion, whatever its passes found (file_cleanup.c).
THEOREM CountsCoverHolds == Spec => []CountsCover
<1>1. Init => IOrganised
  <2> SUFFICES ASSUME F!Init PROVE OrgInv
    BY DEF Init, IOrganised
  <2>1. card \in SUBSET Item /\ listing = F!NoListing /\ sent = F!Nothing
    BY DEF F!Init, F!NoListing, F!Nothing
  <2>2. F!Total(Erased(sent.tasks)) <= sent.freed
    BY <2>1, NothingSent
  <2>3. IsListing(listing)
    BY <2>1, NewListing, Zenon
  <2> QED
    BY <2>1, <2>2, <2>3 DEF OrgInv
<1>2. IOrganised /\ [Next]_vars => IOrganised'
  <2> SUFFICES ASSUME IOrganised, [Next]_vars, running' = "organised" PROVE OrgInv'
    BY DEF IOrganised
  <2>1. CASE running = "organised" /\ F!Next
    BY <2>1, OrgStep DEF IOrganised
  <2>2. CASE UNCHANGED vars
    BY <2>2 DEF IOrganised, vars, organisedVars, OrgInv
  <2> QED
    BY <2>1, <2>2 DEF Next, Others
<1>3. IOrganised => CountsCover
  <2> SUFFICES ASSUME OrgInv PROVE F!CountsCover
    BY DEF IOrganised, CountsCover
  <2>1. F!Cardinality(listing.picked) = Cardinality(listing.picked)
    BY DEF F!Cardinality, F!IsFiniteSet, Cardinality, IsFiniteSet
  <2>2. /\ listing.picked \in SUBSET listing.entries /\ listing.entries \in SUBSET Item
        /\ listing.selected = Cardinality(listing.picked) + listing.dropped
    BY ListingFields DEF OrgInv
  <2>4. listing.selected = F!Cardinality(listing.picked) + listing.dropped
    BY <2>1, <2>2
  <2>5. F!Total(Erased(sent.tasks)) <= sent.freed
    BY DEF OrgInv
  <2> QED
    BY <2>2, <2>4, <2>5 DEF F!CountsCover, Erased
<1> QED
  BY <1>1, <1>2, <1>3, PTL DEF Spec

-----------------------------------------------------------------------------
(* Paths: what is kept is what the segments mean.                          *)

\* How many of the segments from i + 1 to j are in X.
Times(s, X, i, j) == Cardinality({k \in (i + 1) .. j : s[k] \in X})

LEMMA TimesNext ==
  ASSUME NEW s, NEW X, NEW i \in Nat, NEW k \in Nat, i <= k
  PROVE  /\ Times(s, X, i, k) \in Nat
         /\ Times(s, X, i, k + 1) = IF s[k + 1] \in X THEN Times(s, X, i, k) + 1
                                    ELSE Times(s, X, i, k)
<1> DEFINE T == {m \in (i + 1) .. k : s[m] \in X}
           U2 == {m \in (i + 1) .. (k + 1) : s[m] \in X}
<1>1. IsFiniteSet(T) /\ Cardinality(T) \in Nat
  <2>1. IsFiniteSet((i + 1) .. k)
    BY FS_Interval
  <2>2. T \subseteq (i + 1) .. k
    OBVIOUS
  <2>3. IsFiniteSet(T)
    BY <2>1, <2>2, FS_Subset
  <2> QED
    BY <2>3, FS_CardinalityType
<1>2. k + 1 \notin T
  OBVIOUS
<1>3. CASE s[k + 1] \in X
  <2>1. U2 = T \cup {k + 1}
    BY <1>3
  <2> HIDE DEF T, U2
  <2>2. Cardinality(U2) = Cardinality(T) + 1
    BY <1>1, <1>2, <2>1, FS_AddElement
  <2> QED
    BY <1>1, <1>3, <2>2 DEF Times, T, U2
<1>4. CASE s[k + 1] \notin X
  <2>1. U2 = T
    BY <1>4
  <2> QED
    BY <1>1, <1>4, <2>1 DEF Times
<1> QED
  BY <1>3, <1>4

LEMMA TimesNone ==
  ASSUME NEW s, NEW X, NEW i \in Nat
  PROVE  Times(s, X, i, i) = 0
<1>1. {k \in (i + 1) .. i : s[k] \in X} = {}
  OBVIOUS
<1> QED
  BY <1>1, FS_EmptySet DEF Times

Ups(s, i, j)   == Times(s, {".."}, i, j)
Downs(s, i, j) == Times(s, Names, i, j)

LEMMA UpsAndDowns ==
  ASSUME NEW s, NEW k \in Nat, NEW i \in 1 .. k
  PROVE  /\ Ups(s, i, k) \in Nat /\ Downs(s, i, k) \in Nat
         /\ s[k + 1] = ".." => Ups(s, i, k + 1) = Ups(s, i, k) + 1
         /\ s[k + 1] # ".." => Ups(s, i, k + 1) = Ups(s, i, k)
         /\ s[k + 1] \in Names => Downs(s, i, k + 1) = Downs(s, i, k) + 1
         /\ s[k + 1] \notin Names => Downs(s, i, k + 1) = Downs(s, i, k)
<1>1. i \in Nat /\ i <= k
  OBVIOUS
<1>2. s[k + 1] = ".." <=> s[k + 1] \in {".."}
  OBVIOUS
<1>3. /\ Ups(s, i, k) \in Nat
      /\ Ups(s, i, k + 1) = IF s[k + 1] \in {".."} THEN Ups(s, i, k) + 1 ELSE Ups(s, i, k)
  BY <1>1, TimesNext DEF Ups
<1>4. /\ Downs(s, i, k) \in Nat
      /\ Downs(s, i, k + 1) = IF s[k + 1] \in Names THEN Downs(s, i, k) + 1
                              ELSE Downs(s, i, k)
  BY <1>1, TimesNext DEF Downs
<1> QED
  BY <1>2, <1>3, <1>4

\* A name is not undone by the segments up to the one at k.
Stays(s, i, k) == s[i] \in Names /\ \A j \in i .. k : Ups(s, i, j) <= Downs(s, i, j)

LEMMA StaysNext ==
  ASSUME NEW s, NEW k \in Nat, NEW i \in 1 .. k
  PROVE  Stays(s, i, k + 1) <=> /\ Stays(s, i, k)
                                /\ Ups(s, i, k + 1) <= Downs(s, i, k + 1)
<1>1. i .. (k + 1) = (i .. k) \cup {k + 1}
  OBVIOUS
<1> QED
  BY <1>1 DEF Stays

LEMMA StaysLast ==
  ASSUME NEW s, NEW k \in Nat
  PROVE  Stays(s, k + 1, k + 1) <=> s[k + 1] \in Names
<1>1. Ups(s, k + 1, k + 1) = 0 /\ Downs(s, k + 1, k + 1) = 0
  BY TimesNone DEF Ups, Downs
<1>2. (k + 1) .. (k + 1) = {k + 1}
  OBVIOUS
<1> QED
  BY <1>1, <1>2 DEF Stays

LEMMA WithoutLast ==
  ASSUME NEW S, NEW x \in Seq(S), x # <<>>
  PROVE  /\ Len(x) \in Nat \ {0} /\ SubSeq(x, 1, Len(x) - 1) \in Seq(S)
         /\ Len(SubSeq(x, 1, Len(x) - 1)) = Len(x) - 1
         /\ \A n \in 1 .. Len(x) - 1 : SubSeq(x, 1, Len(x) - 1)[n] = x[n]
<1>1. Len(x) \in Nat /\ Len(x) # 0
  OBVIOUS
<1>2. \A n \in 1 .. Len(x) - 1 : x[n] \in S
  BY <1>1
<1>3. SubSeq(x, 1, Len(x) - 1) \in Seq(S)
  BY <1>1, <1>2
<1>4. PICK m \in Nat : m = Len(x) - 1
  BY <1>1
<1>5. Len(SubSeq(x, 1, m)) = m
  OBVIOUS
<1>6. \A n \in 1 .. m : SubSeq(x, 1, m)[n] = x[n]
  OBVIOUS
<1> QED
  BY <1>1, <1>3, <1>4, <1>5, <1>6

\* What is kept of the first k segments of s: where the tokens are from.  Behind
\* each, as many names more than parents came as tokens are behind it.
Places(f, s, k, t) ==
  /\ f \in [1 .. Len(t) -> 1 .. k]
  /\ \A m, n \in 1 .. Len(t) : m < n => f[m] < f[n]
  /\ \A n \in 1 .. Len(t) :
       /\ t[n] = s[f[n]] /\ Stays(s, f[n], k)
       /\ Downs(s, f[n], k) = Ups(s, f[n], k) + (Len(t) - n)
  /\ \A i \in 1 .. k : Stays(s, i, k) => \E n \in 1 .. Len(t) : f[n] = i

\* A segment that is neither a name nor a parent, or a parent of the root.
LEMMA PlacesSkip ==
  ASSUME NEW f, NEW s, NEW k \in Nat, NEW t, Len(t) \in Nat, Places(f, s, k, t),
         s[k + 1] \notin Names, s[k + 1] # ".." \/ Len(t) = 0
  PROVE  Places(f, s, k + 1, t)
<1>1. /\ f \in [1 .. Len(t) -> 1 .. k]
      /\ \A m, n \in 1 .. Len(t) : m < n => f[m] < f[n]
  BY DEF Places
<1>2. ASSUME NEW n \in 1 .. Len(t)
      PROVE  /\ t[n] = s[f[n]] /\ Stays(s, f[n], k + 1)
             /\ Downs(s, f[n], k + 1) = Ups(s, f[n], k + 1) + (Len(t) - n)
  <2>1. /\ f[n] \in 1 .. k /\ t[n] = s[f[n]] /\ Stays(s, f[n], k)
        /\ Downs(s, f[n], k) = Ups(s, f[n], k) + (Len(t) - n)
    BY DEF Places
  <2>2. /\ Downs(s, f[n], k + 1) = Downs(s, f[n], k) /\ Downs(s, f[n], k) \in Nat
        /\ Ups(s, f[n], k + 1) = Ups(s, f[n], k) /\ Ups(s, f[n], k) \in Nat
    <3>1. s[k + 1] # ".."
      OBVIOUS
    <3> QED
      BY <2>1, <3>1, UpsAndDowns
  <2>3. Stays(s, f[n], k + 1)
    BY <2>1, <2>2, StaysNext
  <2> QED
    BY <2>1, <2>2, <2>3
<1>3. ASSUME NEW i \in 1 .. (k + 1), Stays(s, i, k + 1)
      PROVE  \E n \in 1 .. Len(t) : f[n] = i
  <2>1. i # k + 1
    BY <1>3, StaysLast
  <2>2. i \in 1 .. k
    BY <2>1
  <2>3. Stays(s, i, k)
    BY <1>3, <2>2, StaysNext
  <2> QED
    BY <2>2, <2>3 DEF Places
<1>4. f \in [1 .. Len(t) -> 1 .. (k + 1)]
  BY <1>1
<1> QED
  BY <1>1, <1>2, <1>3, <1>4 DEF Places

\* A name.
LEMMA PlacesKeep ==
  ASSUME NEW f, NEW s, NEW k \in Nat, NEW t \in Seq(Names), Places(f, s, k, t),
         s[k + 1] \in Names, ".." \notin Names
  PROVE  Places([n \in 1 .. Len(t) + 1 |-> IF n = Len(t) + 1 THEN k + 1 ELSE f[n]],
                s, k + 1, Append(t, s[k + 1]))
<1> DEFINE g == [n \in 1 .. Len(t) + 1 |-> IF n = Len(t) + 1 THEN k + 1 ELSE f[n]]
           r == Append(t, s[k + 1])
<1>1. /\ Len(r) = Len(t) + 1 /\ Len(t) \in Nat /\ r[Len(t) + 1] = s[k + 1]
      /\ \A n \in 1 .. Len(t) : r[n] = t[n]
  OBVIOUS
<1>2. /\ f \in [1 .. Len(t) -> 1 .. k]
      /\ \A m, n \in 1 .. Len(t) : m < n => f[m] < f[n]
  BY DEF Places
<1> HIDE DEF r
<1>3. /\ g \in [1 .. Len(r) -> 1 .. (k + 1)] /\ g[Len(t) + 1] = k + 1
      /\ \A n \in 1 .. Len(t) : g[n] = f[n] /\ f[n] \in 1 .. k
  <2>1. Len(t) + 1 \in 1 .. Len(t) + 1 /\ 1 .. Len(t) \subseteq 1 .. Len(t) + 1
    BY <1>1
  <2>2. g[Len(t) + 1] = k + 1
    BY <1>1, <2>1
  <2>3. ASSUME NEW n \in 1 .. Len(t) PROVE g[n] = f[n] /\ f[n] \in 1 .. k
    BY <1>1, <1>2, <2>1
  <2>4. ASSUME NEW n \in 1 .. Len(t) + 1 PROVE g[n] \in 1 .. (k + 1)
    <3>1. n = Len(t) + 1 \/ n \in 1 .. Len(t)
      BY <1>1
    <3>2. CASE n = Len(t) + 1
      BY <2>2, <3>2
    <3>3. CASE n \in 1 .. Len(t)
      <4>1. g[n] \in 1 .. k
        BY <2>3, <3>3
      <4> HIDE DEF g
      <4> QED
        BY <4>1
    <3> QED
      BY <3>1, <3>2, <3>3
  <2>5. g \in [1 .. Len(t) + 1 -> 1 .. (k + 1)]
    BY <2>4
  <2> QED
    BY <1>1, <2>2, <2>3, <2>5
<1> HIDE DEF g
<1>4. \A m, n \in 1 .. Len(r) : m < n => g[m] < g[n]
  BY <1>1, <1>2, <1>3
<1>5. ASSUME NEW n \in 1 .. Len(r)
      PROVE  /\ r[n] = s[g[n]] /\ Stays(s, g[n], k + 1)
             /\ Downs(s, g[n], k + 1) = Ups(s, g[n], k + 1) + (Len(r) - n)
  <2>1. CASE n = Len(t) + 1
    <3>1. Ups(s, k + 1, k + 1) = 0 /\ Downs(s, k + 1, k + 1) = 0
      BY TimesNone DEF Ups, Downs
    <3>2. Stays(s, k + 1, k + 1)
      BY StaysLast
    <3> QED
      BY <1>1, <1>3, <2>1, <3>1, <3>2
  <2>2. CASE n \in 1 .. Len(t)
    <3>1. /\ f[n] \in 1 .. k /\ t[n] = s[f[n]] /\ Stays(s, f[n], k)
          /\ Downs(s, f[n], k) = Ups(s, f[n], k) + (Len(t) - n)
      BY <2>2 DEF Places
    <3>2. /\ Downs(s, f[n], k + 1) = Downs(s, f[n], k) + 1 /\ Downs(s, f[n], k) \in Nat
          /\ Ups(s, f[n], k + 1) = Ups(s, f[n], k) /\ Ups(s, f[n], k) \in Nat
      BY <3>1, UpsAndDowns
    <3>3. Ups(s, f[n], k + 1) <= Downs(s, f[n], k + 1)
      BY <1>1, <2>2, <3>1, <3>2
    <3>4. Stays(s, f[n], k + 1)
      BY <3>1, <3>3, StaysNext
    <3> QED
      BY <1>1, <1>3, <2>2, <3>1, <3>2, <3>4
  <2> QED
    BY <1>1, <2>1, <2>2
<1>6. ASSUME NEW i \in 1 .. (k + 1), Stays(s, i, k + 1)
      PROVE  \E n \in 1 .. Len(r) : g[n] = i
  <2>1. CASE i = k + 1
    BY <1>1, <1>3, <2>1
  <2>2. CASE i \in 1 .. k
    <3>1. Stays(s, i, k)
      BY <1>6, <2>2, StaysNext
    <3>2. PICK n \in 1 .. Len(t) : f[n] = i
      BY <2>2, <3>1 DEF Places
    <3> QED
      BY <1>1, <1>3, <3>2
  <2> QED
    BY <2>1, <2>2
<1>7. Places(g, s, k + 1, r)
  BY <1>3, <1>4, <1>5, <1>6 DEF Places
<1> QED
  BY <1>7 DEF g, r

\* A parent: the last token goes, for it is the one with as many parents as names
\* behind it.
LEMMA PlacesUp ==
  ASSUME NEW f, NEW s, NEW k \in Nat, NEW t \in Seq(Names), t # <<>>, Places(f, s, k, t),
         s[k + 1] = "..", ".." \notin Names
  PROVE  Places([n \in 1 .. Len(t) - 1 |-> f[n]], s, k + 1, SubSeq(t, 1, Len(t) - 1))
<1> DEFINE g == [n \in 1 .. Len(t) - 1 |-> f[n]]
           r == SubSeq(t, 1, Len(t) - 1)
<1>1. /\ Len(r) = Len(t) - 1 /\ Len(t) \in Nat \ {0}
      /\ \A n \in 1 .. Len(t) - 1 : r[n] = t[n]
  BY WithoutLast
<1>2. /\ f \in [1 .. Len(t) -> 1 .. k]
      /\ \A m, n \in 1 .. Len(t) : m < n => f[m] < f[n]
  BY DEF Places
<1>3. /\ g \in [1 .. Len(r) -> 1 .. (k + 1)]
      /\ \A n \in 1 .. Len(r) : g[n] = f[n]
  BY <1>1, <1>2
<1> HIDE DEF g, r
<1>4. \A m, n \in 1 .. Len(r) : m < n => g[m] < g[n]
  BY <1>1, <1>2, <1>3
<1>5. ASSUME NEW n \in 1 .. Len(t)
      PROVE  /\ f[n] \in 1 .. k /\ t[n] = s[f[n]] /\ Stays(s, f[n], k)
             /\ Ups(s, f[n], k) \in Nat
             /\ Downs(s, f[n], k + 1) = Ups(s, f[n], k) + (Len(t) - n)
             /\ Ups(s, f[n], k + 1) = Ups(s, f[n], k) + 1
  <2>1. /\ f[n] \in 1 .. k /\ t[n] = s[f[n]] /\ Stays(s, f[n], k)
        /\ Downs(s, f[n], k) = Ups(s, f[n], k) + (Len(t) - n)
    BY <1>2 DEF Places
  <2>2. /\ Downs(s, f[n], k + 1) = Downs(s, f[n], k)
        /\ Ups(s, f[n], k + 1) = Ups(s, f[n], k) + 1 /\ Ups(s, f[n], k) \in Nat
    BY <2>1, UpsAndDowns
  <2> QED
    BY <2>1, <2>2
<1>6. ASSUME NEW n \in 1 .. Len(r)
      PROVE  /\ r[n] = s[g[n]] /\ Stays(s, g[n], k + 1)
             /\ Downs(s, g[n], k + 1) = Ups(s, g[n], k + 1) + (Len(r) - n)
  <2>1. n \in 1 .. Len(t) /\ n <= Len(t) - 1
    BY <1>1
  <2>2. Ups(s, f[n], k + 1) <= Downs(s, f[n], k + 1)
    BY <1>1, <1>5, <2>1
  <2>3. Stays(s, f[n], k + 1)
    BY <1>5, <2>1, <2>2, StaysNext
  <2>4. Downs(s, f[n], k + 1) = Ups(s, f[n], k + 1) + (Len(r) - n)
    BY <1>1, <1>5, <2>1
  <2> QED
    BY <1>1, <1>3, <1>5, <2>1, <2>3, <2>4
<1>7. ASSUME NEW i \in 1 .. (k + 1), Stays(s, i, k + 1)
      PROVE  \E n \in 1 .. Len(r) : g[n] = i
  <2>1. i # k + 1
    BY <1>7, StaysLast
  <2>2. i \in 1 .. k
    BY <2>1
  <2>3. Stays(s, i, k) /\ Ups(s, i, k + 1) <= Downs(s, i, k + 1)
    BY <1>7, <2>2, StaysNext
  <2>4. PICK n \in 1 .. Len(t) : f[n] = i
    BY <2>2, <2>3 DEF Places
  <2>5. n # Len(t)
    BY <1>1, <1>5, <2>3, <2>4
  <2>6. n \in 1 .. Len(r)
    BY <1>1, <2>4, <2>5
  <2> QED
    BY <1>3, <2>4, <2>6
<1>8. Places(g, s, k + 1, r)
  BY <1>3, <1>4, <1>6, <1>7 DEF Places
<1> QED
  BY <1>8 DEF g, r

LEMMA PlacesNone ==
  ASSUME NEW s
  PROVE  Places([n \in 1 .. 0 |-> 0], s, 0, <<>>)
<1>1. Len(<<>>) = 0 /\ 1 .. 0 = {}
  OBVIOUS
<1>2. [n \in 1 .. 0 |-> 0] \in [1 .. 0 -> 1 .. 0]
  BY <1>1
<1> QED
  BY <1>1, <1>2 DEF Places

\* The token at n is from the n-th of the segments that stay.
LEMMA PlacesCount ==
  ASSUME NEW f, NEW s, NEW k \in Nat, NEW t, Len(t) \in Nat, Places(f, s, k, t),
         NEW n \in 0 .. Len(t), NEW i \in 0 .. k,
         (i = k /\ n = Len(t)) \/ (n # 0 /\ i = f[n])
  PROVE  Cardinality({m \in 1 .. i : Stays(s, m, k)}) = n
<1> DEFINE S == {m \in 1 .. i : Stays(s, m, k)}
           g == [j \in 1 .. n |-> f[j]]
<1>1. /\ f \in [1 .. Len(t) -> 1 .. k]
      /\ \A m, j \in 1 .. Len(t) : m < j => f[m] < f[j]
      /\ \A j \in 1 .. Len(t) : Stays(s, f[j], k)
      /\ \A m \in 1 .. k : Stays(s, m, k) => \E j \in 1 .. Len(t) : f[j] = m
  BY DEF Places
<1>2. ASSUME NEW j \in 1 .. Len(t) PROVE f[j] <= i <=> j <= n
  <2>1. f[j] \in 1 .. k
    BY <1>1
  <2>2. CASE i = k /\ n = Len(t)
    BY <2>1, <2>2
  <2>3. CASE n # 0 /\ i = f[n]
    <3>1. n \in 1 .. Len(t) /\ f[n] \in 1 .. k
      BY <1>1, <2>3
    <3>2. j < n => f[j] < f[n]
      BY <1>1, <3>1
    <3>3. n < j => f[n] < f[j]
      BY <1>1, <3>1
    <3> QED
      BY <2>1, <2>3, <3>1, <3>2, <3>3
  <2> QED
    BY <2>2, <2>3
<1>3. \A j \in 1 .. n : j \in 1 .. Len(t) /\ f[j] \in S /\ g[j] = f[j]
  BY <1>1, <1>2
<1>4. \A m \in S : \E j \in 1 .. n : f[j] = m
  <2> TAKE m \in S
  <2>1. m \in 1 .. k /\ Stays(s, m, k) /\ m <= i
    OBVIOUS
  <2>2. PICK j \in 1 .. Len(t) : f[j] = m
    BY <1>1, <2>1
  <2>3. j <= n
    BY <1>2, <2>1, <2>2
  <2> QED
    BY <2>2, <2>3
<1> HIDE DEF S
<1>5. \A j, m \in 1 .. n : f[j] = f[m] => j = m
  <2> TAKE j, m \in 1 .. n
  <2>1. j \in 1 .. Len(t) /\ m \in 1 .. Len(t) /\ f[j] \in 1 .. k /\ f[m] \in 1 .. k
    BY <1>1, <1>3
  <2>2. (j < m => f[j] < f[m]) /\ (m < j => f[m] < f[j])
    BY <1>1, <2>1
  <2> QED
    BY <2>1, <2>2
<1>6. g \in [1 .. n -> S]
  BY <1>3
<1>7. g \in Bijection(1 .. n, S)
  <2>1. g \in Injection(1 .. n, S)
    BY <1>3, <1>5, <1>6, Fun_IsInj
  <2>2. g \in Surjection(1 .. n, S)
    BY <1>3, <1>4, <1>6, Fun_IsSurj
  <2> QED
    BY <2>1, <2>2, Fun_IsBij
<1>8. ExistsBijection(1 .. n, S)
  BY <1>7 DEF ExistsBijection
<1> QED
  BY <1>8, FS_CountingElements DEF S

\* The segments that stay, in their order.
Meaning(s, k) ==
  [n \in 1 .. Cardinality({i \in 1 .. k : Stays(s, i, k)}) |->
     s[CHOOSE i \in 1 .. k :
         Stays(s, i, k) /\ Cardinality({m \in 1 .. i : Stays(s, m, k)}) = n]]

LEMMA PlacesMean ==
  ASSUME NEW f, NEW s, NEW k \in Nat, NEW t \in Seq(Names), Places(f, s, k, t)
  PROVE  t = Meaning(s, k)
<1>1. /\ f \in [1 .. Len(t) -> 1 .. k] /\ Len(t) \in Nat
      /\ \A n \in 1 .. Len(t) : t[n] = s[f[n]] /\ Stays(s, f[n], k)
      /\ \A i \in 1 .. k : Stays(s, i, k) => \E n \in 1 .. Len(t) : f[n] = i
  BY DEF Places
<1>2. Cardinality({i \in 1 .. k : Stays(s, i, k)}) = Len(t)
  <2>1. k \in 0 .. k /\ Len(t) \in 0 .. Len(t) /\ Len(t) \in Nat
    BY <1>1
  <2>2. (k = k /\ Len(t) = Len(t)) \/ (Len(t) # 0 /\ k = f[Len(t)])
    OBVIOUS
  <2> QED
    BY <2>1, <2>2, PlacesCount, Zenon
<1>3. ASSUME NEW n \in 1 .. Len(t)
      PROVE  Cardinality({m \in 1 .. f[n] : Stays(s, m, k)}) = n
  <2>1. f[n] \in 0 .. k /\ n \in 0 .. Len(t) /\ Len(t) \in Nat
    BY <1>1
  <2>2. PICK i \in 0 .. k : i = f[n]
    BY <2>1
  <2>3. (i = k /\ n = Len(t)) \/ (n # 0 /\ i = f[n])
    BY <2>2
  <2>4. Cardinality({m \in 1 .. i : Stays(s, m, k)}) = n
    BY <2>1, <2>3, PlacesCount, Zenon
  <2> QED
    BY <2>2, <2>4
<1>4. ASSUME NEW n \in 1 .. Len(t)
      PROVE  t[n] = s[CHOOSE i \in 1 .. k :
                        Stays(s, i, k) /\ Cardinality({m \in 1 .. i : Stays(s, m, k)}) = n]
  <2> DEFINE Is(i) == Stays(s, i, k) /\ Cardinality({m \in 1 .. i : Stays(s, m, k)}) = n
  <2>1. f[n] \in 1 .. k /\ Is(f[n])
    BY <1>1, <1>3
  <2>2. ASSUME NEW i \in 1 .. k, Is(i) PROVE i = f[n]
    <3>1. PICK j \in 1 .. Len(t) : f[j] = i
      BY <1>1, <2>2
    <3>2. Cardinality({m \in 1 .. i : Stays(s, m, k)}) = j
      BY <1>3, <3>1
    <3> QED
      BY <2>2, <3>1, <3>2
  <2> HIDE DEF Is
  <2>3. (CHOOSE i \in 1 .. k : Is(i)) = f[n]
    BY <2>1, <2>2
  <2> QED
    BY <1>1, <2>3 DEF Is
<1>5. t = [n \in 1 .. Len(t) |-> t[n]]
  OBVIOUS
<1> QED
  BY <1>2, <1>4, <1>5 DEF Meaning

\* The one path is the other, but for names there was no memory for.
Named(u, t) == Len(u) = Len(t) /\ \A n \in 1 .. Len(t) : u[n] \in {t[n], R!NoName}

Tokens == Names \cup {R!NoName}

\* Every token is from the segment that gave it, no segment before the one
\* looked at was refused, and no path that is too long is one that begins with
\* a slash.
Followed ==
  /\ asked.segs \in Seq(R!Segments) /\ tokens \in Seq(Tokens)
  /\ asked.long => asked.prefix = "sdmc:/"
  /\ at \in Nat /\ at <= Len(asked.segs)
  /\ \A i \in 1 .. at : asked.segs[i] # "bad"
  /\ \E t \in Seq(Names) : Named(tokens, t) /\ \E f : Places(f, asked.segs, at, t)

\* Only the root is listed without its parent.
ParentShown == lines # <<>> => (lines[1] = R!UpLine <=> tokens # <<>>)

PathsInv ==
  /\ status \in {"walking", "done"} => Followed
  /\ status = "walking" => lines = <<>>
  /\ ParentShown

IPaths == running = "resolved" => PathsInv

\* One of the tokens that are kept is a name: none but the first line is "..".
LEMMA NamesListed ==
  ASSUME NEW S, S \subseteq Names, NEW n \in 1 .. R!Cardinality(S)
  PROVE  R!SetToSeq(S)[n] \in Names
<1>1. R!Cardinality(S) = Cardinality(S)
  BY DEF R!Cardinality, R!IsFiniteSet, Cardinality, IsFiniteSet
<1>2. IsFiniteSet(S)
  BY NamesAssumption, FS_Subset
<1>3. \E f \in [1 .. R!Cardinality(S) -> S] : R!IsInjective(f)
  <2>1. ExistsBijection(1 .. Cardinality(S), S)
    BY <1>2, FS_CardinalityType
  <2>2. PICK f : f \in Bijection(1 .. Cardinality(S), S)
    BY <2>1 DEF ExistsBijection
  <2>3. f \in [1 .. Cardinality(S) -> S]
        /\ \A a, b \in 1 .. Cardinality(S) : f[a] = f[b] => a = b
    BY <2>2 DEF Bijection, Injection, IsInjective
  <2>4. R!IsInjective(f)
    BY <2>3 DEF R!IsInjective
  <2> QED
    BY <1>1, <2>3, <2>4
<1>4. R!SetToSeq(S) \in [1 .. R!Cardinality(S) -> S]
  BY <1>3 DEF R!SetToSeq
<1> QED
  BY <1>4

\* What follows a path goes on following it.
LEMMA NamedOn ==
  ASSUME NEW u \in Seq(Tokens), NEW t \in Seq(Names), Named(u, t)
  PROVE  /\ u = <<>> <=> t = <<>>
         /\ \A x \in Names, y \in Tokens :
              y \in {x, R!NoName} => /\ Append(u, y) \in Seq(Tokens)
                                    /\ Named(Append(u, y), Append(t, x))
         /\ t # <<>> => /\ SubSeq(u, 1, Len(u) - 1) \in Seq(Tokens)
                        /\ Named(SubSeq(u, 1, Len(u) - 1), SubSeq(t, 1, Len(t) - 1))
<1>1. /\ Len(u) = Len(t) /\ Len(t) \in Nat
      /\ \A n \in 1 .. Len(t) : u[n] \in {t[n], R!NoName}
  BY DEF Named
<1>2. u = <<>> <=> t = <<>>
  BY <1>1
<1>3. ASSUME NEW x \in Names, NEW y \in Tokens, y \in {x, R!NoName}
      PROVE  Append(u, y) \in Seq(Tokens) /\ Named(Append(u, y), Append(t, x))
  BY <1>1, <1>3 DEF Named
<1>4. ASSUME t # <<>>
      PROVE  /\ SubSeq(u, 1, Len(u) - 1) \in Seq(Tokens)
             /\ Named(SubSeq(u, 1, Len(u) - 1), SubSeq(t, 1, Len(t) - 1))
  <2>1. Len(t) - 1 \in Nat
    BY <1>1, <1>4
  <2>2. /\ SubSeq(u, 1, Len(u) - 1) \in Seq(Tokens)
        /\ Len(SubSeq(u, 1, Len(u) - 1)) = Len(t) - 1
        /\ Len(SubSeq(t, 1, Len(t) - 1)) = Len(t) - 1
        /\ \A n \in 1 .. Len(t) - 1 : /\ SubSeq(u, 1, Len(u) - 1)[n] = u[n]
                                      /\ SubSeq(t, 1, Len(t) - 1)[n] = t[n]
    BY <1>1, <2>1
  <2> QED
    BY <1>1, <2>1, <2>2 DEF Named
<1> QED
  BY <1>2, <1>3, <1>4

\* One segment more.
LEMMA WalkOn ==
  ASSUME Followed, R!Walk
  PROVE  status' # "invalid" => Followed'
<1> DEFINE s == asked.segs
<1>1. /\ s \in Seq(R!Segments) /\ tokens \in Seq(Tokens) /\ Len(s) \in Nat
      /\ at \in Nat /\ at < Len(s) /\ at' = at + 1 /\ asked' = asked
      /\ \A i \in 1 .. at : s[i] # "bad"
  BY DEF Followed, R!Walk, R!Walking
<1>2. PICK t \in Seq(Names) : Named(tokens, t) /\ \E f : Places(f, s, at, t)
  BY DEF Followed
<1>20. PICK f : Places(f, s, at, t)
  BY <1>2
<1>3. ".." \notin Names /\ "." \notin Names /\ "empty" \notin Names
  BY NamesAssumption
<1>4. Len(t) \in Nat /\ (t = <<>> <=> Len(t) = 0) /\ (tokens = <<>> <=> t = <<>>)
  BY <1>1, <1>2, NamedOn
<1>5. ASSUME s[at + 1] # "bad", tokens' \in Seq(Tokens),
             NEW t2 \in Seq(Names), Named(tokens', t2), \E g : Places(g, s, at + 1, t2)
      PROVE  Followed'
  <2>1. \A i \in 1 .. (at + 1) : s[i] # "bad"
    BY <1>1, <1>5
  <2>2. asked.segs' = s
    BY <1>1
  <2>3. asked'.long => asked'.prefix = "sdmc:/"
    BY <1>1 DEF Followed
  <2> HIDE DEF s
  <2>4. /\ at' \in Nat /\ at' <= Len(s)
    BY <1>1
  <2> QED
    BY <1>1, <1>5, <2>1, <2>2, <2>3, <2>4 DEF Followed
<1>6. R!Seg = s[at + 1]
  BY DEF R!Seg
<1>7. CASE R!Skip
  <2>1. s[at + 1] \in {".", "empty"} /\ tokens' = tokens
    BY <1>6, <1>7 DEF R!Skip
  <2>2. s[at + 1] \notin Names /\ s[at + 1] # ".." /\ s[at + 1] # "bad"
    BY <1>3, <2>1
  <2>3. Places(f, s, at + 1, t)
    BY <1>1, <1>20, <1>4, <2>2, PlacesSkip
  <2> QED
    BY <1>1, <1>2, <1>5, <2>1, <2>2, <2>3
<1>8. CASE R!Up
  <2>1. s[at + 1] = ".." /\ s[at + 1] \notin Names /\ s[at + 1] # "bad"
    BY <1>3, <1>6, <1>8 DEF R!Up
  <2>2. CASE tokens = <<>>
    <3>1. tokens' = tokens
      BY <1>8, <2>2 DEF R!Up
    <3>2. Len(t) = 0
      BY <1>4, <2>2
    <3>3. Places(f, s, at + 1, t)
      BY <1>1, <1>20, <1>4, <2>1, <3>2, PlacesSkip
    <3> QED
      BY <1>1, <1>2, <1>5, <2>1, <3>1, <3>3
  <2>3. CASE tokens # <<>>
    <3>1. tokens' = SubSeq(tokens, 1, Len(tokens) - 1)
      BY <1>8, <2>3 DEF R!Up, R!Front
    <3> DEFINE t2 == SubSeq(t, 1, Len(t) - 1)
    <3>2. t # <<>> /\ tokens' \in Seq(Tokens) /\ Named(tokens', t2)
      BY <1>1, <1>2, <1>4, <2>3, <3>1, NamedOn
    <3>3. t2 \in Seq(Names)
      BY <1>2, <3>2, WithoutLast
    <3>4. Places([n \in 1 .. Len(t) - 1 |-> f[n]], s, at + 1, t2)
      BY <1>1, <1>20, <1>3, <2>1, <3>2, PlacesUp, Zenon
    <3> QED
      BY <1>5, <2>1, <3>2, <3>3, <3>4
  <2> QED
    BY <2>2, <2>3
<1>9. CASE R!Keep
  <2> DEFINE x == s[at + 1]
  <2>1. PICK y \in {x, R!NoName} : x \in Names /\ tokens' = Append(tokens, y)
    BY <1>6, <1>9 DEF R!Keep
  <2>2. x # "bad"
    BY <2>1, NamesAssumption
  <2>3. tokens' \in Seq(Tokens) /\ Named(tokens', Append(t, x)) /\ Append(t, x) \in Seq(Names)
    BY <1>1, <1>2, <2>1, NamedOn DEF Tokens
  <2>4. \E g : Places(g, s, at + 1, Append(t, x))
    BY <1>1, <1>20, <1>3, <2>1, PlacesKeep, Zenon
  <2> QED
    BY <1>5, <2>2, <2>3, <2>4
<1>10. CASE R!Refuse
  BY <1>10 DEF R!Refuse
<1> QED
  BY <1>7, <1>8, <1>9, <1>10 DEF R!Walk

LEMMA PathsStep ==
  ASSUME PathsInv, R!Next
  PROVE  PathsInv'
<1>1. CASE R!Walk
  <2>1. /\ status = "walking" /\ lines' = lines
        /\ status' \in {"walking", "invalid"}
    BY <1>1 DEF R!Walk, R!Walking, R!Skip, R!Up, R!Keep, R!Refuse
  <2>2. status' # "invalid" => Followed'
    BY <1>1, <2>1, WalkOn DEF PathsInv
  <2> QED
    BY <2>1, <2>2 DEF PathsInv, ParentShown
<1>2. CASE R!Rebuild
  <2>1. /\ status = "walking" /\ status' \in {"done", "invalid"}
        /\ UNCHANGED <<asked, at, tokens, lines>>
    BY <1>2 DEF R!Rebuild
  <2>2. Followed' /\ lines' = <<>>
    BY <2>1 DEF PathsInv, Followed
  <2> QED
    BY <2>1, <2>2 DEF PathsInv, ParentShown
<1>3. CASE R!ListDirectory
  <2>1. status = "done" /\ UNCHANGED <<asked, at, tokens, status>>
    BY <1>3 DEF R!ListDirectory
  <2>2. Followed'
    BY <2>1 DEF PathsInv, Followed
  <2>3. PICK S \in SUBSET Names, folders \in SUBSET Names :
          lines' = (IF tokens = <<>> THEN <<>> ELSE <<R!UpLine>>)
                     \o [i \in 1 .. R!Cardinality(S) |->
                           LET n == R!SetToSeq(S)[i] IN [name |-> n, folder |-> n \in folders]]
    BY <1>3, Zenon DEF R!ListDirectory
  <2> DEFINE K == R!Cardinality(S)
             Line(i) == [name |-> R!SetToSeq(S)[i], folder |-> R!SetToSeq(S)[i] \in folders]
             shown == [i \in 1 .. K |-> Line(i)]
  <2>4. K \in Nat
    <3>1. IsFiniteSet(S)
      BY NamesAssumption, FS_Subset
    <3>2. K = Cardinality(S)
      BY DEF R!Cardinality, R!IsFiniteSet, Cardinality, IsFiniteSet
    <3> QED
      BY <3>1, <3>2, FS_CardinalityType
  <2>5. \A i \in 1 .. K : Line(i).name \in Names
    <3> TAKE i \in 1 .. K
    <3>1. R!SetToSeq(S)[i] \in Names
      BY NamesListed
    <3> QED
      BY <3>1
  <2>6. \A i \in 1 .. K : shown[i] = Line(i)
    OBVIOUS
  <2>7. lines' = (IF tokens = <<>> THEN <<>> ELSE <<R!UpLine>>) \o shown
    BY <2>3, Zenon
  <2>8. R!UpLine.name \notin Names
    BY NamesAssumption DEF R!UpLine
  <2>9. shown \in Seq({Line(i) : i \in 1 .. K}) /\ Len(shown) = K
    <3> HIDE DEF K, Line
    <3> QED
      BY <2>4
  <2> HIDE DEF shown, Line, K
  <2>10. CASE tokens = <<>>
    <3>1. lines' = <<>> \o shown
      BY <2>7, <2>10
    <3>2. lines' = shown
      BY <2>9, <3>1
    <3>3. lines' # <<>> => 1 \in 1 .. K
      BY <2>4, <2>9, <3>2
    <3>4. lines' # <<>> => lines'[1] # R!UpLine
      BY <2>5, <2>6, <2>8, <3>2, <3>3
    <3> QED
      BY <2>1, <2>2, <2>10, <3>4 DEF PathsInv, ParentShown
  <2>11. CASE tokens # <<>>
    <3>1. lines' = <<R!UpLine>> \o shown
      BY <2>7, <2>11
    <3>2. lines'[1] = R!UpLine
      BY <2>9, <3>1
    <3> QED
      BY <2>1, <2>2, <2>11, <3>2 DEF PathsInv, ParentShown
  <2> QED
    BY <2>10, <2>11
<1>4. CASE R!Forget
  <2>1. status' = "idle" /\ lines' = <<>>
    BY <1>4 DEF R!Forget
  <2> QED
    BY <2>1 DEF PathsInv, ParentShown
<1>5. ASSUME NEW path, path.segs \in Seq(R!Segments), path.prefix \in R!Roots,
             R!Canonicalize(path)
      PROVE  PathsInv'
  <2>1. asked' = path /\ at' = 0 /\ tokens' = <<>> /\ lines' = <<>>
    BY <1>5 DEF R!Canonicalize
  <2>2. asked'.segs \in Seq(R!Segments)
    BY <1>5, <2>1
  <2>3. ASSUME status' # "invalid" PROVE Followed'
    <3>1. Places([n \in 1 .. 0 |-> 0], asked'.segs, 0, <<>>)
      BY PlacesNone
    <3>2. <<>> \in Seq(Names) /\ tokens' \in Seq(Tokens) /\ Named(tokens', <<>>)
      BY <2>1 DEF Named
    <3>3. \E t \in Seq(Names) : Named(tokens', t) /\ \E f : Places(f, asked'.segs, at', t)
      BY <2>1, <3>1, <3>2
    <3>4. at' \in Nat /\ at' <= Len(asked'.segs) /\ 1 .. at' = {}
      BY <2>1, <2>2
    <3>5. asked'.long => asked'.prefix = "sdmc:/"
      BY <1>5, <2>1, <2>3 DEF R!Canonicalize, R!Roots
    <3> QED
      BY <2>2, <3>2, <3>3, <3>4, <3>5 DEF Followed
  <2> QED
    BY <2>1, <2>3 DEF PathsInv, ParentShown
<1>6. ASSUME NEW p \in R!Roots, NEW l \in BOOLEAN, NEW n \in 0 .. MaxSegs,
             NEW segs \in [1 .. n -> R!Segments],
             R!Canonicalize([prefix |-> p, segs |-> segs, long |-> l])
      PROVE  PathsInv'
  <2>1. n \in Nat
    BY NamesAssumption
  <2>2. segs \in Seq(R!Segments)
    BY <2>1
  <2>3. /\ [prefix |-> p, segs |-> segs, long |-> l].segs = segs
        /\ [prefix |-> p, segs |-> segs, long |-> l].prefix = p
    OBVIOUS
  <2> QED
    BY <1>5, <1>6, <2>2, <2>3, Zenon
<1> QED
  BY <1>1, <1>2, <1>3, <1>4, <1>6 DEF R!Next

\* What is followed is what the path means.
LEMMA FollowedMeans ==
  ASSUME at \in Nat, NEW t \in Seq(Names), NEW f, Places(f, asked.segs, at, t)
  PROVE  t = R!Meant
<1>3. \A S : R!Cardinality(S) = Cardinality(S)
  BY DEF R!Cardinality, R!IsFiniteSet, Cardinality, IsFiniteSet
<1>4. \A i, j : /\ R!Ups(i, j) = Ups(asked.segs, i, j)
                /\ R!Downs(i, j) = Downs(asked.segs, i, j)
  <2> TAKE i, j
  <2>1. {k \in (i + 1) .. j : asked.segs[k] = ".."}
          = {k \in (i + 1) .. j : asked.segs[k] \in {".."}}
    OBVIOUS
  <2> QED
    BY <1>3, <2>1, Zenon DEF R!Ups, R!Downs, Ups, Downs, Times
<1>5. \A i : R!Remains(i) <=> Stays(asked.segs, i, at)
  BY <1>4, Zenon DEF R!Remains, Stays
<1>6. t = Meaning(asked.segs, at)
  BY PlacesMean
<1>7. \A i : {k \in 1 .. i : R!Remains(k)} = {m \in 1 .. i : Stays(asked.segs, m, at)}
  BY <1>5
<1> DEFINE A1(n) == CHOOSE i \in 1 .. at :
                     Stays(asked.segs, i, at)
                     /\ Cardinality({m \in 1 .. i : Stays(asked.segs, m, at)}) = n
           A2(n) == CHOOSE i \in 1 .. at :
                     /\ R!Remains(i)
                     /\ R!Cardinality({k \in 1 .. i : R!Remains(k)}) = n
           c1 == Cardinality({i \in 1 .. at : Stays(asked.segs, i, at)})
           c2 == R!Cardinality({i \in 1 .. at : R!Remains(i)})
<1>8. \A n : A1(n) = A2(n)
  BY <1>3, <1>5, <1>7, Zenon
<1>9. c1 = c2
  BY <1>3, <1>7, Zenon
<1>10. t = [n \in 1 .. c1 |-> asked.segs[A1(n)]]
  BY <1>6, Zenon DEF Meaning
<1> HIDE DEF A1, A2, c1, c2
<1>11. t = [n \in 1 .. c2 |-> asked.segs[A2(n)]]
  BY <1>8, <1>9, <1>10
<1> QED
  BY <1>11, Zenon DEF A2, c2, R!Meant

\* What canonicalizing keeps of a path is, name by name, what its segments mean,
\* with no way out of its root, but for names there was no memory for; a path with
\* a refused segment, or one that begins with "/" and is too long, never comes
\* through, and one that begins with "sdmc:/" and is too long is what its beginning
\* means (file/sdcard.c); only the root is listed without the line that leads to
\* its parent (file/fs.c).
THEOREM PathsMeanHolds == Spec => []PathsMean
<1>1. Init => IPaths
  <2> SUFFICES ASSUME R!Init PROVE PathsInv
    BY DEF Init, IPaths
  <2> QED
    BY DEF R!Init, PathsInv, ParentShown
<1>2. IPaths /\ [Next]_vars => IPaths'
  <2> SUFFICES ASSUME IPaths, [Next]_vars, running' = "resolved" PROVE PathsInv'
    BY DEF IPaths
  <2>1. CASE running = "resolved" /\ R!Next
    BY <2>1, PathsStep DEF IPaths
  <2>2. CASE UNCHANGED vars
    BY <2>2 DEF IPaths, vars, resolvedVars, PathsInv, ParentShown, Followed
  <2> QED
    BY <2>1, <2>2 DEF Next, Others
<1>3. IPaths => PathsMean
  <2> SUFFICES ASSUME PathsInv PROVE R!CanonicalInside
    BY DEF IPaths, PathsMean
  <2>1. lines # <<>> => (lines[1] = R!UpLine <=> tokens # <<>>)
    BY DEF PathsInv, ParentShown
  <2>2. status \in {"walking", "done"} => Followed
    BY DEF PathsInv
  <2>3. ASSUME Followed
        PROVE  /\ \A i \in 1 .. at : asked.segs[i] # "bad"
               /\ asked.long => asked.prefix = "sdmc:/"
               /\ Len(tokens) = Len(R!Meant)
               /\ \A n \in 1 .. Len(R!Meant) : tokens[n] \in {R!Meant[n], R!NoName}
    <3>1. PICK t \in Seq(Names) : Named(tokens, t) /\ \E f : Places(f, asked.segs, at, t)
      BY <2>3 DEF Followed
    <3>2. t = R!Meant
      BY <2>3, <3>1, FollowedMeans DEF Followed
    <3> QED
      BY <2>3, <3>1, <3>2 DEF Followed, Named
  <2> QED
    BY <2>1, <2>2, <2>3 DEF R!CanonicalInside
<1> QED
  BY <1>1, <1>2, <1>3, PTL DEF Spec

-----------------------------------------------------------------------------
(* Digests: what is compressed is the message, block by block.             *)

LEMMA Multiples ==
  ASSUME NEW a \in Nat, NEW b \in Nat, NEW n \in Nat, a < b
  PROVE  a * n + n <= b * n
<1>1. PICK d \in Nat : b = a + 1 + d
  <2>1. b - a - 1 \in Nat /\ b = a + 1 + (b - a - 1)
    OBVIOUS
  <2> QED
    BY <2>1
<1>2. b * n = a * n + n + d * n /\ d * n \in Nat
  BY <1>1
<1> QED
  BY <1>2

LEMMA Divided ==
  ASSUME NEW m \in Nat, NEW n \in Nat \ {0}
  PROVE  /\ m \div n \in Nat /\ m % n \in 0 .. n - 1
         /\ m = (m \div n) * n + (m % n)
OBVIOUS

LEMMA Quotient ==
  ASSUME NEW k \in Nat, NEW n \in Nat \ {0}, NEW f \in 0 .. n - 1
  PROVE  (k * n + f) \div n = k /\ (k * n + f) % n = f
<1>1. PICK m \in Nat : m = k * n + f
  OBVIOUS
<1>2. PICK q \in Nat, r \in 0 .. n - 1 : q = m \div n /\ r = m % n /\ m = q * n + r
  BY Divided
<1>3. q < k => q * n + n <= k * n
  BY Multiples
<1>4. k < q => k * n + n <= q * n
  BY Multiples
<1>5. q * n \in Nat /\ k * n \in Nat
  OBVIOUS
<1>6. q = k
  BY <1>1, <1>2, <1>3, <1>4, <1>5
<1> QED
  BY <1>1, <1>2, <1>5, <1>6

\* What blocks are made of.
Glyphs == Byte \cup {D!End, D!Zero, D!Count}
Block  == [1 .. BlockBytes -> Glyphs]

\* The blocks of x are the first ones of s.
Cuts(x, s) ==
  /\ x \in Seq(Block) /\ s \in Seq(Glyphs) /\ Len(x) * BlockBytes <= Len(s)
  /\ \A n \in 1 .. Len(x), r \in 1 .. BlockBytes :
       x[n][r] = s[(n - 1) * BlockBytes + r]

LEMMA BlockSizes ==
  /\ BlockBytes \in Nat \ {0, 1} /\ CountBytes \in Nat \ {0} /\ CountBytes < BlockBytes
BY SizesAssumption

LEMMA Within ==
  ASSUME NEW k \in Nat, NEW n \in 1 .. k, NEW r \in 1 .. BlockBytes
  PROVE  /\ (n - 1) * BlockBytes + r \in 1 .. k * BlockBytes
         /\ n * BlockBytes = (n - 1) * BlockBytes + BlockBytes
         /\ (n - 1) * BlockBytes \in Nat /\ n * BlockBytes \in Nat
         /\ k * BlockBytes \in Nat /\ n * BlockBytes <= k * BlockBytes
<1>1. PICK p \in Nat : n = p + 1
  <2>1. n - 1 \in Nat /\ n = (n - 1) + 1
    OBVIOUS
  <2> QED
    BY <2>1
<1>2. p * BlockBytes + BlockBytes <= k * BlockBytes
  BY <1>1, BlockSizes, Multiples
<1>3. p * BlockBytes \in Nat /\ k * BlockBytes \in Nat
      /\ n * BlockBytes = p * BlockBytes + BlockBytes
  BY <1>1, BlockSizes
<1>4. n - 1 = p
  BY <1>1
<1> QED
  BY <1>2, <1>3, <1>4, BlockSizes

LEMMA SameSeq ==
  ASSUME NEW S, NEW x \in Seq(S), NEW y \in Seq(S), Len(x) = Len(y),
         \A i \in 1 .. Len(x) : x[i] = y[i]
  PROVE  x = y
OBVIOUS

LEMMA Joined ==
  ASSUME NEW S, NEW s \in Seq(S), NEW y \in Seq(S), NEW p \in Nat, p + Len(y) <= Len(s),
         \A r \in 1 .. Len(y) : y[r] = s[p + r]
  PROVE  SubSeq(s, 1, p + Len(y)) = SubSeq(s, 1, p) \o y
<1>1. PICK q \in Nat : q = p + Len(y)
  OBVIOUS
<1>2. /\ SubSeq(s, 1, q) \in Seq(S) /\ Len(SubSeq(s, 1, q)) = q
      /\ \A i \in 1 .. q : SubSeq(s, 1, q)[i] = s[i]
  BY <1>1
<1>3. /\ SubSeq(s, 1, p) \in Seq(S) /\ Len(SubSeq(s, 1, p)) = p
      /\ \A i \in 1 .. p : SubSeq(s, 1, p)[i] = s[i]
  BY <1>1
<1>4. PICK u \in Seq(S) : u = SubSeq(s, 1, p)
  BY <1>3
<1>5. u \o y \in Seq(S) /\ Len(u \o y) = q
  BY <1>1, <1>3, <1>4
<1>6. ASSUME NEW i \in 1 .. q PROVE (u \o y)[i] = s[i]
  <2>1. CASE i <= p
    <3>1. (u \o y)[i] = u[i]
      BY <1>3, <1>4, <2>1
    <3> QED
      BY <1>3, <1>4, <2>1, <3>1
  <2>2. CASE i > p
    <3>1. PICK r \in 1 .. Len(y) : i = p + r
      <4>1. i - p \in 1 .. Len(y) /\ i = p + (i - p)
        BY <1>1, <2>2
      <4> QED
        BY <4>1
    <3>2. (u \o y)[i] = y[r]
      BY <1>3, <1>4, <3>1
    <3> QED
      BY <3>1, <3>2
  <2>3. i <= p \/ i > p
    OBVIOUS
  <2> QED
    BY <2>1, <2>2, <2>3, Zenon
<1>7. PICK v \in Seq(S) : v = SubSeq(s, 1, q)
  BY <1>2
<1>8. \A i \in 1 .. q : v[i] = (u \o y)[i]
  BY <1>2, <1>6, <1>7
<1>9. Len(v) = q
  BY <1>2, <1>7
<1>10. v = u \o y
  BY <1>5, <1>8, <1>9, SameSeq
<1> QED
  BY <1>1, <1>4, <1>7, <1>10

LEMMA CutsFlat ==
  ASSUME NEW x, NEW s, Cuts(x, s)
  PROVE  D!FlattenSeq(x) = SubSeq(s, 1, Len(x) * BlockBytes)
<1> DEFINE fl == CHOOSE g : g = [i \in 1 .. Len(x) |->
                                   IF i = 1 THEN x[i] ELSE g[i - 1] \o x[i]]
<1>1. /\ x \in Seq(Block) /\ s \in Seq(Glyphs) /\ Len(x) \in Nat /\ Len(s) \in Nat
      /\ Len(x) * BlockBytes <= Len(s) /\ Len(x) * BlockBytes \in Nat
  BY BlockSizes DEF Cuts
<1>2. CASE Len(x) = 0
  <2>1. D!FlattenSeq(x) = x /\ x = <<>>
    BY <1>1, <1>2 DEF D!FlattenSeq
  <2>2. Len(x) * BlockBytes = 0
    BY <1>2, BlockSizes
  <2>3. SubSeq(s, 1, 0) = <<>>
    BY <1>1
  <2> QED
    BY <2>1, <2>2, <2>3
<1>3. CASE Len(x) # 0
  <2>1. D!FlattenSeq(x) = fl[Len(x)]
    BY <1>3, Zenon DEF D!FlattenSeq
  <2> DEFINE g0 == [i \in 1 .. Len(x) |-> SubSeq(s, 1, i * BlockBytes)]
  <2>2. ASSUME NEW i \in 1 .. Len(x)
        PROVE  /\ x[i] \in Seq(Glyphs) /\ Len(x[i]) = BlockBytes
               /\ \A r \in 1 .. BlockBytes : x[i][r] = s[(i - 1) * BlockBytes + r]
    <3>1. x[i] \in Block
      BY <1>1
    <3>2. x[i] \in Seq(Glyphs) /\ Len(x[i]) = BlockBytes
      BY <3>1, BlockSizes DEF Block
    <3> QED
      BY <3>2 DEF Cuts
  <2>3. ASSUME NEW i \in 1 .. Len(x)
        PROVE  SubSeq(s, 1, i * BlockBytes)
                 = IF i = 1 THEN x[i] ELSE SubSeq(s, 1, (i - 1) * BlockBytes) \o x[i]
    <3>1. /\ i * BlockBytes = (i - 1) * BlockBytes + BlockBytes
          /\ (i - 1) * BlockBytes \in Nat /\ i * BlockBytes \in Nat
          /\ i * BlockBytes <= Len(s)
      <4>1. 1 \in 1 .. BlockBytes
        BY BlockSizes
      <4> QED
        BY <1>1, <4>1, Within
    <3>2. PICK p \in Nat, q \in Nat : /\ p = (i - 1) * BlockBytes /\ q = i * BlockBytes
                                      /\ q = p + BlockBytes /\ q <= Len(s)
      BY <3>1
    <3>3. PICK y : y = x[i]
      OBVIOUS
    <3>4. /\ y \in Seq(Glyphs) /\ Len(y) = BlockBytes
          /\ \A r \in 1 .. BlockBytes : y[r] = s[p + r]
      BY <2>2, <3>2, <3>3
    <3>5. SubSeq(s, 1, q) = SubSeq(s, 1, p) \o y
      <4>1. p + Len(y) <= Len(s) /\ q = p + Len(y)
        BY <3>2, <3>4
      <4>2. \A r \in 1 .. Len(y) : y[r] = s[p + r]
        BY <3>4
      <4>3. SubSeq(s, 1, p + Len(y)) = SubSeq(s, 1, p) \o y
        BY <1>1, <3>4, <4>1, <4>2, Joined
      <4> QED
        BY <4>1, <4>3
    <3>6. i = 1 => p = 0
      BY <3>2, BlockSizes
    <3>7. p = 0 => SubSeq(s, 1, p) \o y = y
      BY <1>1, <3>4
    <3> QED
      BY <3>2, <3>3, <3>5, <3>6, <3>7
  <2>4. g0 = [i \in 1 .. Len(x) |-> IF i = 1 THEN x[i] ELSE g0[i - 1] \o x[i]]
    <3>1. \A i \in 1 .. Len(x) : i # 1 => g0[i - 1] = SubSeq(s, 1, (i - 1) * BlockBytes)
      <4> TAKE i \in 1 .. Len(x)
      <4>1. i # 1 => i - 1 \in 1 .. Len(x)
        BY <1>1
      <4> HIDE DEF fl
      <4> QED
        BY <4>1
    <3> QED
      BY <2>3, <3>1
  <2>5. fl = [i \in 1 .. Len(x) |-> IF i = 1 THEN x[i] ELSE fl[i - 1] \o x[i]]
    <3> HIDE DEF g0
    <3> QED
      BY <2>4, Zenon
  <2> DEFINE wrong == {i \in 1 .. Len(x) : fl[i] # SubSeq(s, 1, i * BlockBytes)}
  <2>6. wrong = {}
    <3>1. SUFFICES ASSUME wrong # {} PROVE FALSE
      OBVIOUS
    <3>2. wrong \subseteq Nat
      <4> HIDE DEF fl
      <4> QED
        BY <1>1
    <3>3. PICK i \in wrong : \A j \in wrong : i <= j
      <4> HIDE DEF wrong
      <4> QED
        BY <3>1, <3>2, Least
    <3>4. i \in 1 .. Len(x) /\ fl[i] # SubSeq(s, 1, i * BlockBytes)
      BY <3>3
    <3>5. fl[i] = IF i = 1 THEN x[i] ELSE fl[i - 1] \o x[i]
      <4> HIDE DEF fl, wrong
      <4> QED
        BY <2>5, <3>4
    <3>6. i # 1 => fl[i - 1] = SubSeq(s, 1, (i - 1) * BlockBytes)
      <4>1. i # 1 => i - 1 \in 1 .. Len(x) /\ i - 1 \notin wrong
        <5> HIDE DEF wrong
        <5>1. i \in Nat /\ i <= Len(x) /\ i >= 1
          BY <1>1, <3>4
        <5>2. i - 1 \in wrong => i <= i - 1
          BY <3>3
        <5> QED
          BY <1>1, <5>1, <5>2
      <4> HIDE DEF fl
      <4> QED
        BY <4>1
    <3> HIDE DEF fl, wrong
    <3> QED
      BY <2>3, <3>4, <3>5, <3>6, Zenon
  <2>7. Len(x) \in 1 .. Len(x)
    BY <1>1, <1>3
  <2>8. fl[Len(x)] = SubSeq(s, 1, Len(x) * BlockBytes)
    <3> HIDE DEF fl
    <3> QED
      BY <2>6, <2>7
  <2> QED
    BY <2>1, <2>8, Zenon
<1> QED
  BY <1>2, <1>3

LEMMA CutsMore ==
  ASSUME NEW x, NEW s, NEW u \in Seq(Glyphs), Cuts(x, s), Len(s) <= Len(u),
         \A i \in 1 .. Len(s) : u[i] = s[i]
  PROVE  Cuts(x, u)
<1>1. /\ x \in Seq(Block) /\ s \in Seq(Glyphs) /\ Len(x) * BlockBytes <= Len(s)
      /\ Len(x) \in Nat /\ Len(s) \in Nat
  BY DEF Cuts
<1>2. Len(u) \in Nat
  OBVIOUS
<1>3. Len(x) * BlockBytes <= Len(u)
  BY <1>1, <1>2, BlockSizes
<1>4. ASSUME NEW n \in 1 .. Len(x), NEW r \in 1 .. BlockBytes
      PROVE  x[n][r] = u[(n - 1) * BlockBytes + r]
  <2>1. PICK i : i = (n - 1) * BlockBytes + r
    OBVIOUS
  <2>2. i \in 1 .. Len(x) * BlockBytes /\ Len(x) * BlockBytes \in Nat
    BY <1>1, <2>1, Within
  <2>3. i \in 1 .. Len(s)
    BY <1>1, <2>2
  <2>4. x[n][r] = s[i]
    BY <2>1 DEF Cuts
  <2> QED
    BY <2>1, <2>3, <2>4
<1> QED
  BY <1>1, <1>3, <1>4 DEF Cuts

LEMMA CutsJoined ==
  ASSUME NEW x, NEW s, Cuts(x, s), NEW y \in Seq(Block),
         (Len(x) + Len(y)) * BlockBytes <= Len(s),
         \A n \in 1 .. Len(y), r \in 1 .. BlockBytes :
           y[n][r] = s[(Len(x) + (n - 1)) * BlockBytes + r]
  PROVE  Cuts(x \o y, s) /\ Len(x \o y) = Len(x) + Len(y)
<1>1. x \in Seq(Block) /\ s \in Seq(Glyphs) /\ Len(x) \in Nat /\ Len(y) \in Nat
  BY DEF Cuts
<1>2. PICK u : u = x \o y
  OBVIOUS
<1>3. /\ u \in Seq(Block) /\ Len(u) = Len(x) + Len(y)
      /\ \A n \in 1 .. Len(x) : u[n] = x[n]
      /\ \A n \in 1 .. Len(y) : u[Len(x) + n] = y[n]
  BY <1>1, <1>2
<1>4. Len(u) * BlockBytes <= Len(s)
  BY <1>3
<1>5. ASSUME NEW n \in 1 .. Len(u), NEW r \in 1 .. BlockBytes
      PROVE  u[n][r] = s[(n - 1) * BlockBytes + r]
  <2>1. CASE n <= Len(x)
    <3>1. n \in 1 .. Len(x)
      BY <1>1, <2>1
    <3> QED
      BY <1>3, <3>1 DEF Cuts
  <2>2. CASE n > Len(x)
    <3>1. PICK d \in 1 .. Len(y) : n = Len(x) + d
      <4>1. n - Len(x) \in 1 .. Len(y) /\ n = Len(x) + (n - Len(x))
        BY <1>1, <1>3, <2>2
      <4> QED
        BY <4>1
    <3>2. u[n] = y[d]
      BY <1>3, <3>1
    <3>3. n - 1 = Len(x) + (d - 1)
      BY <1>1, <3>1
    <3>4. y[d][r] = s[(Len(x) + (d - 1)) * BlockBytes + r]
      OBVIOUS
    <3> QED
      BY <3>2, <3>3, <3>4
  <2>3. n <= Len(x) \/ n > Len(x)
    BY <1>1, <1>3
  <2> QED
    BY <2>1, <2>2, <2>3, Zenon
<1> QED
  BY <1>1, <1>2, <1>3, <1>4, <1>5 DEF Cuts

\* One block more.
LEMMA CutsNext ==
  ASSUME NEW x, NEW s, Cuts(x, s), NEW b \in Block,
         Len(x) * BlockBytes + BlockBytes <= Len(s),
         \A r \in 1 .. BlockBytes : b[r] = s[Len(x) * BlockBytes + r]
  PROVE  Cuts(x \o <<b>>, s) /\ Len(x \o <<b>>) = Len(x) + 1
<1>1. Len(x) \in Nat /\ Len(s) \in Nat
  BY DEF Cuts
<1>2. <<b>> \in Seq(Block) /\ Len(<<b>>) = 1 /\ <<b>>[1] = b
  OBVIOUS
<1>3. (Len(x) + 1) * BlockBytes = Len(x) * BlockBytes + BlockBytes
  BY <1>1, BlockSizes
<1>4. (Len(x) + Len(<<b>>)) * BlockBytes <= Len(s)
  BY <1>2, <1>3
<1>5. ASSUME NEW n \in 1 .. Len(<<b>>), NEW r \in 1 .. BlockBytes
      PROVE  <<b>>[n][r] = s[(Len(x) + (n - 1)) * BlockBytes + r]
  <2>1. n = 1 /\ Len(x) + (n - 1) = Len(x)
    BY <1>1, <1>2
  <2> QED
    BY <1>2, <2>1
<1>6. PICK y : y = <<b>>
  OBVIOUS
<1>7. /\ y \in Seq(Block) /\ (Len(x) + Len(y)) * BlockBytes <= Len(s)
      /\ \A n \in 1 .. Len(y), r \in 1 .. BlockBytes :
           y[n][r] = s[(Len(x) + (n - 1)) * BlockBytes + r]
  BY <1>2, <1>4, <1>5, <1>6, Zenon
<1>8. Cuts(x \o y, s) /\ Len(x \o y) = Len(x) + Len(y)
  BY <1>7, CutsJoined
<1> QED
  BY <1>2, <1>6, <1>8

\* The whole blocks of what is behind them, and what is left of it.
LEMMA CutsWhole ==
  ASSUME NEW x, NEW s, Cuts(x, s), NEW z \in Seq(Glyphs),
         Len(s) = Len(x) * BlockBytes + Len(z),
         \A i \in 1 .. Len(z) : z[i] = s[Len(x) * BlockBytes + i]
  PROVE  /\ Cuts(x \o D!Whole(z), s)
         /\ Len(s) = Len(x \o D!Whole(z)) * BlockBytes + (Len(z) % BlockBytes)
         /\ Len(z) % BlockBytes \in 0 .. BlockBytes - 1
         /\ Len(D!Leftover(z)) = Len(z) % BlockBytes
         /\ D!Leftover(z) \in Seq(Glyphs)
         /\ \A r \in 1 .. Len(z) % BlockBytes :
              D!Leftover(z)[r] = s[Len(x \o D!Whole(z)) * BlockBytes + r]
<1>1. Len(x) \in Nat /\ Len(s) \in Nat /\ Len(z) \in Nat /\ x \in Seq(Block)
  BY DEF Cuts
<1>2. PICK w \in Nat, l \in 0 .. BlockBytes - 1 :
        w = Len(z) \div BlockBytes /\ l = Len(z) % BlockBytes /\ Len(z) = w * BlockBytes + l
  <2>1. BlockBytes \in Nat \ {0}
    BY BlockSizes
  <2>2. /\ Len(z) \div BlockBytes \in Nat /\ Len(z) % BlockBytes \in 0 .. BlockBytes - 1
        /\ Len(z) = (Len(z) \div BlockBytes) * BlockBytes + (Len(z) % BlockBytes)
    BY <1>1, <2>1, Divided, Zenon
  <2> QED
    BY <2>2, Zenon
<1>3. PICK e, o : e = w * BlockBytes /\ o = Len(x) * BlockBytes
  OBVIOUS
<1>4. /\ e \in Nat /\ o \in Nat /\ (Len(x) + w) * BlockBytes = o + e
       /\ Len(z) = e + l /\ Len(s) = o + e + l /\ l \in Nat /\ l < BlockBytes
  <2>1. (Len(x) + w) * BlockBytes = o + e
    BY <1>1, <1>3, BlockSizes
  <2>2. e \in Nat /\ o \in Nat
    BY <1>1, <1>3, BlockSizes
  <2>3. Len(z) = e + l /\ Len(s) = o + Len(z)
    BY <1>2, <1>3, Zenon
  <2>4. l \in Nat /\ l < BlockBytes
    BY BlockSizes
  <2> QED
    BY <1>1, <2>1, <2>2, <2>3, <2>4
<1>5. PICK y : y = D!Whole(z)
  OBVIOUS
<1>6. y = [n \in 1 .. w |-> SubSeq(z, (n - 1) * BlockBytes + 1, n * BlockBytes)]
  BY <1>2, <1>5 DEF D!Whole
<1>7. ASSUME NEW n \in 1 .. w
      PROVE  /\ y[n] \in Block
             /\ \A r \in 1 .. BlockBytes : y[n][r] = z[(n - 1) * BlockBytes + r]
  <2>1. PICK p, q : p = (n - 1) * BlockBytes /\ q = n * BlockBytes
    OBVIOUS
  <2>2. p \in Nat /\ q \in Nat /\ q = p + BlockBytes /\ q <= w * BlockBytes
    <3>1. 1 \in 1 .. BlockBytes
      BY BlockSizes
    <3> QED
      BY <2>1, <3>1, Within
  <2>3. q <= Len(z)
    <3>1. q <= e
      BY <1>3, <2>2, Zenon
    <3> QED
      BY <1>4, <2>2, <3>1
  <2>4. y[n] = SubSeq(z, p + 1, q)
    BY <1>6, <2>1
  <2>5. PICK v : v = SubSeq(z, p + 1, q)
    OBVIOUS
  <2>6. /\ v \in Seq(Glyphs) /\ Len(v) = BlockBytes
        /\ \A r \in 1 .. BlockBytes : v[r] = z[p + r]
    BY <2>2, <2>3, <2>5, BlockSizes
  <2>7. v \in Block
    BY <2>6, BlockSizes DEF Block
  <2> QED
    BY <2>1, <2>4, <2>5, <2>6, <2>7
<1>8. y \in Seq(Block) /\ Len(y) = w
  BY <1>6, <1>7
<1>9. (Len(x) + Len(y)) * BlockBytes <= Len(s)
  BY <1>1, <1>4, <1>8
<1>10. ASSUME NEW n \in 1 .. Len(y), NEW r \in 1 .. BlockBytes
      PROVE  y[n][r] = s[(Len(x) + (n - 1)) * BlockBytes + r]
  <2>1. n \in 1 .. w
    BY <1>8
  <2>2. PICK i : i = (n - 1) * BlockBytes + r
    OBVIOUS
  <2>3. i \in 1 .. w * BlockBytes
    BY <2>1, <2>2, Within
  <2>4. i \in 1 .. Len(z)
    <3>1. i \in 1 .. e
      BY <1>3, <2>3, Zenon
    <3>2. Len(z) = e + l /\ e \in Nat /\ l \in Nat
      BY <1>4
    <3> QED
      BY <3>1, <3>2
  <2>5. y[n][r] = z[i]
    BY <1>7, <2>1, <2>2
  <2>6. (Len(x) + (n - 1)) * BlockBytes + r = Len(x) * BlockBytes + i
    BY <1>1, <1>8, <2>2, BlockSizes
  <2> QED
    BY <2>4, <2>5, <2>6
<1>11. Cuts(x \o y, s) /\ Len(x \o y) = Len(x) + Len(y)
  BY <1>8, <1>9, <1>10, CutsJoined
<1>12. Len(x \o y) * BlockBytes = o + e
  BY <1>4, <1>8, <1>11
<1>13. Len(s) = Len(x \o y) * BlockBytes + l
  BY <1>4, <1>12
<1>14. PICK v : v = SubSeq(z, e + 1, Len(z))
  OBVIOUS
<1>15. D!Leftover(z) = v
  <2>1. Len(z) - l + 1 = e + 1
    BY <1>4
  <2>2. D!Leftover(z) = SubSeq(z, Len(z) - l + 1, Len(z))
    BY <1>2, Zenon DEF D!Leftover
  <2> QED
    BY <1>14, <2>1, <2>2
<1>16. v \in Seq(Glyphs) /\ Len(v) = l /\ \A r \in 1 .. l : v[r] = z[e + r]
  <2>1. PICK g \in Nat : g = Len(z)
    BY <1>1
  <2>2. v = SubSeq(z, e + 1, g) /\ g = e + l
    BY <1>14, <1>4, <2>1
  <2> QED
    BY <1>4, <2>1, <2>2
<1>17. \A r \in 1 .. l : v[r] = s[Len(x \o y) * BlockBytes + r]
  <2> TAKE r \in 1 .. l
  <2>1. e + r \in 1 .. Len(z)
    BY <1>4
  <2>2. o + (e + r) = (o + e) + r
    BY <1>4
  <2>3. z[e + r] = s[o + (e + r)]
    BY <1>3, <2>1
  <2> QED
    BY <1>12, <1>16, <2>2, <2>3
<1> QED
  BY <1>2, <1>5, <1>11, <1>13, <1>15, <1>16, <1>17

LEMMA PutBytes ==
  ASSUME NEW f \in 0 .. BlockBytes, NEW y \in Seq(Glyphs), context \in Block
  PROVE  /\ D!Put(f, y) \in Block
         /\ \A r \in 1 .. BlockBytes :
              /\ r <= f => D!Put(f, y)[r] = context[r]
              /\ r > f /\ r - f <= Len(y) => D!Put(f, y)[r] = y[r - f]
<1>1. \A r \in 1 .. BlockBytes : r \in (f + 1) .. (f + Len(y)) => r - f \in 1 .. Len(y)
  BY BlockSizes
<1>2. \A r \in 1 .. BlockBytes :
        (IF r \in (f + 1) .. (f + Len(y)) THEN y[r - f] ELSE context[r]) \in Glyphs
  BY <1>1 DEF Block
<1>3. D!Put(f, y) = [r \in 1 .. BlockBytes |->
                       IF r \in (f + 1) .. (f + Len(y)) THEN y[r - f] ELSE context[r]]
  BY DEF D!Put
<1>4. D!Put(f, y) \in Block
  BY <1>2, <1>3 DEF Block
<1>5. \A r \in 1 .. BlockBytes :
        D!Put(f, y)[r] = IF r \in (f + 1) .. (f + Len(y)) THEN y[r - f] ELSE context[r]
  BY <1>3
<1>6. \A r \in 1 .. BlockBytes :
        /\ r <= f => r \notin (f + 1) .. (f + Len(y))
        /\ r > f /\ r - f <= Len(y) => r \in (f + 1) .. (f + Len(y))
  BY BlockSizes
<1> QED
  BY <1>4, <1>5, <1>6

\* While a message is taken, its full blocks are compressed and the context has
\* the rest of it; once the digest was asked for, all of it is, padded.
DigestInv ==
  /\ message \in Seq(Byte) /\ context \in Block /\ final \in BOOLEAN
  /\ ~final => /\ Cuts(blocks, message)
               /\ Len(message) = Len(blocks) * BlockBytes + D!Filled
               /\ \A r \in 1 .. D!Filled :
                    context[r] = message[Len(blocks) * BlockBytes + r]
  /\ final => Cuts(blocks, D!Padded) /\ Len(D!Padded) = Len(blocks) * BlockBytes

LEMMA Appended ==
  ASSUME NEW S, NEW x \in Seq(S), NEW y \in Seq(S)
  PROVE  /\ x \o y \in Seq(S) /\ Len(x \o y) = Len(x) + Len(y)
         /\ Len(x) \in Nat /\ Len(y) \in Nat
         /\ \A i \in 1 .. Len(x) : (x \o y)[i] = x[i]
         /\ \A i \in 1 .. Len(y) : (x \o y)[Len(x) + i] = y[i]
OBVIOUS

LEMMA Taken ==
  ASSUME NEW x, NEW b \in Block, NEW l \in 0 .. BlockBytes - 1,
         message' \in Seq(Byte), final' = FALSE, blocks' = x, context' = b,
         Cuts(x, message'), Len(message') = Len(x) * BlockBytes + l,
         \A r \in 1 .. l : b[r] = message'[Len(x) * BlockBytes + r]
  PROVE  DigestInv'
<1>1. Len(x) \in Nat /\ BlockBytes \in Nat \ {0}
  BY BlockSizes DEF Cuts
<1>2. (Len(x) * BlockBytes + l) % BlockBytes = l
  BY <1>1, Quotient
<1>3. (D!Filled)' = l
  BY <1>2 DEF D!Filled
<1> QED
  BY <1>3 DEF DigestInv

LEMMA TakenWhole ==
  ASSUME NEW x, NEW b \in Block, NEW z \in Seq(Byte),
         message' \in Seq(Byte), final' = FALSE, blocks' = x \o D!Whole(z),
         context' = [i \in 1 .. BlockBytes |->
                       IF i <= Len(D!Leftover(z)) THEN D!Leftover(z)[i] ELSE b[i]],
         Cuts(x, message'), Len(message') = Len(x) * BlockBytes + Len(z),
         \A i \in 1 .. Len(z) : z[i] = message'[Len(x) * BlockBytes + i]
  PROVE  DigestInv'
<1>1. z \in Seq(Glyphs)
  <2>1. Byte \subseteq Glyphs
    BY DEF Glyphs
  <2> QED
    BY <2>1
<1>2. PICK y, v, l : y = x \o D!Whole(z) /\ v = D!Leftover(z) /\ l = Len(z) % BlockBytes
  OBVIOUS
<1>3. /\ Cuts(y, message') /\ Len(message') = Len(y) * BlockBytes + l
      /\ l \in 0 .. BlockBytes - 1 /\ Len(v) = l /\ v \in Seq(Glyphs)
      /\ \A r \in 1 .. l : v[r] = message'[Len(y) * BlockBytes + r]
  BY <1>1, <1>2, CutsWhole
<1>4. context' = [i \in 1 .. BlockBytes |-> IF i <= l THEN v[i] ELSE b[i]]
  BY <1>2, <1>3
<1>5. \A i \in 1 .. BlockBytes : i <= l => i \in 1 .. l
  BY <1>3
<1>6. context' \in Block
  BY <1>3, <1>4, <1>5 DEF Block
<1>7. \A r \in 1 .. l : context'[r] = v[r]
  BY <1>3, <1>4, BlockSizes
<1>8. \A r \in 1 .. l : context'[r] = message'[Len(y) * BlockBytes + r]
  BY <1>3, <1>7
<1>9. PICK c \in Block : c = context'
  BY <1>6
<1>10. blocks' = y /\ \A r \in 1 .. l : c[r] = message'[Len(y) * BlockBytes + r]
  BY <1>2, <1>8, <1>9
<1> QED
  BY <1>3, <1>9, <1>10, Taken

LEMMA UpdateStep ==
  ASSUME DigestInv, NEW piece \in Seq(Byte), D!Update(piece)
  PROVE  DigestInv'
<1>1. /\ message \in Seq(Byte) /\ context \in Block /\ Cuts(blocks, message)
      /\ final = FALSE /\ final' = FALSE
      /\ Len(message) = Len(blocks) * BlockBytes + D!Filled
      /\ \A r \in 1 .. D!Filled : context[r] = message[Len(blocks) * BlockBytes + r]
  BY DEF DigestInv, D!Update
<1>2. Byte \subseteq Glyphs
  BY DEF Glyphs
<1>3. PICK m : m = message \o piece
  OBVIOUS
<1>4. message' = m /\ m \in Seq(Byte)
  BY <1>1, <1>3 DEF D!Update
<1>5. Cuts(blocks, m)
  <2>1. /\ Len(m) = Len(message) + Len(piece)
        /\ \A i \in 1 .. Len(message) : m[i] = message[i]
    BY <1>1, <1>3, Appended
  <2>2. m \in Seq(Glyphs)
    BY <1>2, <1>4
  <2>3. Len(message) <= Len(m)
    BY <1>1, <2>1
  <2> QED
    BY <1>1, <2>1, <2>2, <2>3, CutsMore
<1>6. PICK f, o : f = D!Filled /\ o = Len(blocks) * BlockBytes
  OBVIOUS
<1>7. /\ f \in 0 .. BlockBytes - 1 /\ o \in Nat /\ Len(blocks) \in Nat
      /\ Len(piece) \in Nat /\ Len(message) = o + f
  <2>1. Len(message) \in Nat
    BY <1>1
  <2>2. f \in 0 .. BlockBytes - 1
    BY <1>6, <2>1, BlockSizes, Divided DEF D!Filled
  <2>3. Len(blocks) \in Nat
    BY <1>5 DEF Cuts
  <2>4. o \in Nat
    BY <1>6, <2>3, BlockSizes
  <2>5. Len(message) = o + f
    BY <1>1, <1>6
  <2>6. Len(piece) \in Nat
    OBVIOUS
  <2> QED
    BY <2>2, <2>3, <2>4, <2>5, <2>6
<1>8. /\ Len(m) = o + f + Len(piece)
      /\ \A i \in 1 .. o + f : m[i] = message[i]
      /\ \A i \in 1 .. Len(piece) : m[o + f + i] = piece[i]
  <2>1. \A i \in 1 .. Len(piece) : m[Len(message) + i] = piece[i]
    BY <1>1, <1>3, Appended
  <2>2. Len(m) = Len(message) + Len(piece) /\ \A i \in 1 .. Len(message) : m[i] = message[i]
    BY <1>1, <1>3, Appended
  <2> QED
    BY <1>7, <2>1, <2>2
<1>9. \A r \in 1 .. f : context[r] = m[o + r]
  <2> TAKE r \in 1 .. f
  <2>1. context[r] = message[o + r]
    BY <1>1, <1>6
  <2>2. o + r \in 1 .. o + f
    BY <1>7
  <2> QED
    BY <1>8, <2>1, <2>2
<1>10. CASE f > 0 /\ Len(piece) < BlockBytes - f
  <2>1. context' = D!Put(f, piece) /\ blocks' = blocks
    BY <1>6, <1>10 DEF D!Update
  <2>2. PICK b : b = D!Put(f, piece)
    OBVIOUS
  <2>3. f \in 0 .. BlockBytes /\ piece \in Seq(Glyphs)
    BY <1>2, <1>7, BlockSizes
  <2>4. /\ b \in Block
        /\ \A r \in 1 .. BlockBytes : /\ r <= f => b[r] = context[r]
                                      /\ r > f /\ r - f <= Len(piece) => b[r] = piece[r - f]
    BY <1>1, <2>2, <2>3, PutBytes
  <2>5. f + Len(piece) \in 0 .. BlockBytes - 1
    BY <1>7, <1>10, BlockSizes
  <2>6. \A r \in 1 .. f + Len(piece) : b[r] = m[o + r]
    <3> TAKE r \in 1 .. f + Len(piece)
    <3>1. r \in 1 .. BlockBytes
      BY <1>7, <2>5, BlockSizes
    <3>2. CASE r <= f
      BY <1>7, <1>9, <2>4, <3>1, <3>2
    <3>3. CASE r > f
      <4>1. r - f \in 1 .. Len(piece) /\ o + f + (r - f) = o + r
        BY <1>7, <3>3
      <4>2. b[r] = piece[r - f]
        BY <2>4, <3>1, <3>3, <4>1
      <4> QED
        BY <1>8, <4>1, <4>2
    <3> QED
      BY <1>7, <3>2, <3>3
  <2>7. PICK l \in 0 .. BlockBytes - 1 : l = f + Len(piece)
    BY <2>5
  <2>8. /\ Len(m) = Len(blocks) * BlockBytes + l
        /\ \A r \in 1 .. l : b[r] = m[Len(blocks) * BlockBytes + r]
    <3>1. Len(m) = o + l
      BY <1>7, <1>8, <2>7
    <3>2. \A r \in 1 .. l : b[r] = m[o + r]
      BY <2>6, <2>7
    <3> QED
      BY <1>6, <3>1, <3>2, Zenon
  <2> QED
    BY <1>1, <1>4, <1>5, <2>1, <2>2, <2>4, <2>8, Taken
<1>11. CASE f = 0
  <2>1. PICK z : z = SubSeq(piece, 0 + 1, Len(piece))
    OBVIOUS
  <2>2. z = piece
    <3>1. z = SubSeq(piece, 1, Len(piece))
      BY <2>1
    <3>2. /\ z \in Seq(Byte) /\ Len(z) = Len(piece)
          /\ \A i \in 1 .. Len(z) : z[i] = piece[i]
      BY <1>7, <3>1
    <3> QED
      BY <3>2, SameSeq
  <2>3. /\ blocks' = blocks \o <<>> \o D!Whole(z)
        /\ context' = [i \in 1 .. BlockBytes |->
                         IF i <= Len(D!Leftover(z)) THEN D!Leftover(z)[i] ELSE context[i]]
    <3>1. ~(D!Filled > 0)
      BY <1>6, <1>11
    <3> QED
      BY <2>1, <3>1, Zenon DEF D!Update
  <2>4. blocks' = blocks \o D!Whole(z)
    <3>1. blocks \in Seq(Block)
      BY <1>5 DEF Cuts
    <3>2. blocks \o <<>> = blocks
      BY <3>1
    <3> QED
      BY <2>3, <3>2
  <2>5. /\ Len(m) = Len(blocks) * BlockBytes + Len(z)
        /\ \A i \in 1 .. Len(z) : z[i] = m[Len(blocks) * BlockBytes + i]
    BY <1>6, <1>7, <1>8, <1>11, <2>2
  <2> QED
    BY <1>1, <1>4, <1>5, <2>2, <2>3, <2>4, <2>5, TakenWhole
<1>12. CASE f > 0 /\ Len(piece) >= BlockBytes - f
  <2>1. PICK y, z, b : /\ y = SubSeq(piece, 1, BlockBytes - f)
                       /\ z = SubSeq(piece, (BlockBytes - f) + 1, Len(piece))
                       /\ b = D!Put(f, y)
    OBVIOUS
  <2>2. PICK g \in 1 .. Len(piece) : g = BlockBytes - f
    BY <1>7, <1>12, BlockSizes
  <2>3. /\ y \in Seq(Byte) /\ Len(y) = g /\ \A i \in 1 .. g : y[i] = piece[i]
        /\ z \in Seq(Byte) /\ Len(z) = Len(piece) - g
        /\ \A i \in 1 .. Len(piece) - g : z[i] = piece[g + i]
    <3>1. y = SubSeq(piece, 1, g) /\ z = SubSeq(piece, g + 1, Len(piece))
      BY <2>1, <2>2
    <3>2. y \in Seq(Byte) /\ Len(y) = g /\ \A i \in 1 .. g : y[i] = piece[i]
      BY <3>1
    <3>3. /\ z \in Seq(Byte) /\ Len(z) = Len(piece) - g
          /\ \A i \in 1 .. Len(piece) - g : z[i] = piece[g + i]
      BY <3>1
    <3> QED
      BY <3>2, <3>3
  <2>4. /\ blocks' = blocks \o <<b>> \o D!Whole(z)
        /\ context' = [i \in 1 .. BlockBytes |->
                         IF i <= Len(D!Leftover(z)) THEN D!Leftover(z)[i] ELSE b[i]]
    <3>1. D!Filled > 0 /\ ~(Len(piece) < BlockBytes - D!Filled)
      BY <1>6, <1>7, <1>12, BlockSizes
    <3> QED
      BY <1>6, <2>1, <3>1, Zenon DEF D!Update
  <2>5. /\ b \in Block
        /\ \A r \in 1 .. BlockBytes : /\ r <= f => b[r] = context[r]
                                      /\ r > f /\ r - f <= Len(y) => b[r] = y[r - f]
    <3>1. f \in 0 .. BlockBytes /\ y \in Seq(Glyphs)
      BY <1>2, <1>7, <2>3, BlockSizes
    <3> QED
      BY <1>1, <2>1, <3>1, PutBytes
  <2>6. \A r \in 1 .. BlockBytes : b[r] = m[o + r]
    <3> TAKE r \in 1 .. BlockBytes
    <3>2. CASE r <= f
      BY <1>7, <1>9, <2>5, <3>2
    <3>3. CASE r > f
      <4>1. r - f \in 1 .. g /\ r - f \in 1 .. Len(piece) /\ o + f + (r - f) = o + r
        BY <1>7, <2>2, <3>3, BlockSizes
      <4>2. b[r] = y[r - f]
        BY <2>3, <2>5, <3>3, <4>1
      <4> QED
        BY <1>8, <2>3, <4>1, <4>2
    <3> QED
      BY <1>7, <3>2, <3>3
  <2>7. PICK x : x = blocks \o <<b>>
    OBVIOUS
  <2>8. Len(m) = o + BlockBytes + Len(z)
    BY <1>7, <1>8, <2>2, <2>3, BlockSizes
  <2>9. Cuts(x, m) /\ Len(x) = Len(blocks) + 1
    <3>1. o + BlockBytes <= Len(m)
      BY <1>7, <2>3, <2>8, BlockSizes
    <3>2. /\ Len(blocks) * BlockBytes + BlockBytes <= Len(m)
          /\ \A r \in 1 .. BlockBytes : b[r] = m[Len(blocks) * BlockBytes + r]
      BY <1>6, <2>6, <3>1, Zenon
    <3> QED
      BY <1>5, <2>5, <2>7, <3>2, CutsNext
  <2>10. Len(x) * BlockBytes = o + BlockBytes
    BY <1>6, <1>7, <2>9, BlockSizes
  <2>11. /\ Len(m) = Len(x) * BlockBytes + Len(z)
         /\ \A i \in 1 .. Len(z) : z[i] = m[Len(x) * BlockBytes + i]
    <3>1. ASSUME NEW i \in 1 .. Len(z) PROVE z[i] = m[o + BlockBytes + i]
      <4>1. z[i] = piece[g + i] /\ g + i \in 1 .. Len(piece)
        BY <1>7, <2>2, <2>3
      <4>2. o + f + (g + i) = o + BlockBytes + i
        BY <1>7, <2>2, BlockSizes
      <4> QED
        BY <1>8, <4>1, <4>2
    <3> QED
      BY <2>8, <2>10, <3>1
  <2>12. blocks' = x \o D!Whole(z)
    BY <2>4, <2>7
  <2> QED
    BY <1>1, <1>4, <2>3, <2>4, <2>5, <2>9, <2>11, <2>12, TakenWhole
<1> QED
  BY <1>7, <1>10, <1>11, <1>12, BlockSizes

LEMMA ZerosSeq ==
  ASSUME NEW n \in Nat
  PROVE  /\ D!Zeros(n) \in Seq(Glyphs) /\ Len(D!Zeros(n)) = n
         /\ \A i \in 1 .. n : D!Zeros(n)[i] = D!Zero
BY DEF D!Zeros, Glyphs

LEMMA LengthsSeq ==
  /\ D!Lengths \in Seq(Glyphs) /\ Len(D!Lengths) = CountBytes
  /\ \A i \in 1 .. CountBytes : D!Lengths[i] = D!Count
<1>1. CountBytes \in Nat
  BY BlockSizes
<1> QED
  BY <1>1 DEF D!Lengths, Glyphs

LEMMA ZerosCount ==
  ASSUME NEW j \in Nat, NEW z \in 0 .. BlockBytes - 1
  PROVE  (BlockBytes - ((j * BlockBytes + (BlockBytes - z)) % BlockBytes)) % BlockBytes = z
<1>1. BlockBytes \in Nat \ {0}
  BY BlockSizes
<1>2. PICK p : p = j * BlockBytes + (BlockBytes - z)
  OBVIOUS
<1>3. CASE z = 0
  <2>1. p = (j + 1) * BlockBytes + 0
    BY <1>1, <1>2, <1>3
  <2>2. 0 \in 0 .. BlockBytes - 1 /\ j + 1 \in Nat
    BY <1>1
  <2>3. p % BlockBytes = 0
    BY <1>1, <2>1, <2>2, Quotient, Zenon
  <2>4. BlockBytes - 0 = 1 * BlockBytes + 0
    BY <1>1
  <2>5. (1 * BlockBytes + 0) % BlockBytes = 0
    <3>1. 1 \in Nat
      OBVIOUS
    <3> QED
      BY <1>1, <2>2, <3>1, Quotient, Zenon
  <2> QED
    BY <1>2, <1>3, <2>3, <2>4, <2>5, Zenon
<1>4. CASE z # 0
  <2>1. BlockBytes - z \in 0 .. BlockBytes - 1
    BY <1>1, <1>4
  <2>2. p % BlockBytes = BlockBytes - z
    BY <1>1, <1>2, <2>1, Quotient, Zenon
  <2>3. BlockBytes - (BlockBytes - z) = 0 * BlockBytes + z
    BY <1>1
  <2>4. (0 * BlockBytes + z) % BlockBytes = z
    <3>1. 0 \in Nat
      OBVIOUS
    <3> QED
      BY <1>1, <3>1, Quotient, Zenon
  <2> QED
    BY <1>2, <2>2, <2>3, <2>4, Zenon
<1> QED
  BY <1>3, <1>4

\* m has the four parts, one behind the other.
Parts(m, g, d, v, w) ==
  /\ m \in Seq(Glyphs) /\ Len(m) = Len(g) + Len(d) + Len(v) + Len(w)
  /\ \A i \in 1 .. Len(g) : m[i] = g[i]
  /\ \A i \in 1 .. Len(d) : m[Len(g) + i] = d[i]
  /\ \A i \in 1 .. Len(v) : m[Len(g) + Len(d) + i] = v[i]
  /\ \A i \in 1 .. Len(w) : m[Len(g) + Len(d) + Len(v) + i] = w[i]

LEMMA FourParts ==
  ASSUME NEW g \in Seq(Glyphs), NEW d \in Seq(Glyphs), NEW v \in Seq(Glyphs),
         NEW w \in Seq(Glyphs)
  PROVE  Parts(g \o d \o v \o w, g, d, v, w)
<1>1. PICK m1, m2, m3 : m1 = g \o d /\ m2 = m1 \o v /\ m3 = m2 \o w
  OBVIOUS
<1>2. /\ m1 \in Seq(Glyphs) /\ Len(m1) = Len(g) + Len(d)
      /\ Len(g) \in Nat /\ Len(d) \in Nat /\ Len(v) \in Nat /\ Len(w) \in Nat
      /\ \A i \in 1 .. Len(g) : m1[i] = g[i]
      /\ \A i \in 1 .. Len(d) : m1[Len(g) + i] = d[i]
  BY <1>1, Appended
<1>3. /\ m2 \in Seq(Glyphs) /\ Len(m2) = Len(m1) + Len(v)
      /\ \A i \in 1 .. Len(m1) : m2[i] = m1[i]
      /\ \A i \in 1 .. Len(v) : m2[Len(m1) + i] = v[i]
  BY <1>1, <1>2, Appended
<1>4. /\ m3 \in Seq(Glyphs) /\ Len(m3) = Len(m2) + Len(w)
      /\ \A i \in 1 .. Len(m2) : m3[i] = m2[i]
      /\ \A i \in 1 .. Len(w) : m3[Len(m2) + i] = w[i]
  BY <1>1, <1>3, Appended
<1>5. ASSUME NEW i \in 1 .. Len(d) PROVE m3[Len(g) + i] = d[i]
  <2>1. PICK n : n = Len(g) + i
    OBVIOUS
  <2>2. n \in 1 .. Len(m1) /\ n \in 1 .. Len(m2)
    BY <1>2, <1>3, <2>1
  <2> QED
    BY <1>2, <1>3, <1>4, <2>1, <2>2
<1>6. ASSUME NEW i \in 1 .. Len(v) PROVE m3[Len(g) + Len(d) + i] = v[i]
  <2>1. PICK n : n = Len(m1) + i
    OBVIOUS
  <2>2. n \in 1 .. Len(m2) /\ Len(g) + Len(d) + i = n
    BY <1>2, <1>3, <2>1
  <2> QED
    BY <1>3, <1>4, <2>1, <2>2
<1>7. ASSUME NEW i \in 1 .. Len(w) PROVE m3[Len(g) + Len(d) + Len(v) + i] = w[i]
  <2>1. Len(g) + Len(d) + Len(v) + i = Len(m2) + i
    BY <1>2, <1>3
  <2> QED
    BY <1>4, <2>1
<1>8. ASSUME NEW i \in 1 .. Len(g) PROVE m3[i] = g[i]
  <2>1. i \in 1 .. Len(m1) /\ i \in 1 .. Len(m2)
    BY <1>2, <1>3
  <2> QED
    BY <1>2, <1>3, <1>4, <2>1
<1>9. m3 = g \o d \o v \o w
  BY <1>1, Zenon
<1>10. Len(m3) = Len(g) + Len(d) + Len(v) + Len(w)
  BY <1>2, <1>3, <1>4
<1> QED
  <2>1. Parts(m3, g, d, v, w)
    BY <1>4, <1>5, <1>6, <1>7, <1>8, <1>10, Zenon DEF Parts
  <2> QED
    BY <1>9, <2>1, Zenon

\* m is g, the end mark, z zeros and the length, the mark being at q + 1.
IsPadded(m, g, q, z) ==
  /\ m \in Seq(Glyphs) /\ Len(m) = q + 1 + z + CountBytes
  /\ \A i \in 1 .. q : m[i] = g[i]
  /\ m[q + 1] = D!End
  /\ \A i \in 1 .. z : m[q + 1 + i] = D!Zero
  /\ \A i \in 1 .. CountBytes : m[q + 1 + z + i] = D!Count

LEMMA PaddedBy ==
  ASSUME NEW g \in Seq(Glyphs), NEW z \in Nat, NEW q \in Nat, Len(g) = q,
         NEW m, m = g \o <<D!End>> \o D!Zeros(z) \o D!Lengths
  PROVE  IsPadded(m, g, q, z)
<1>1. PICK d, v, w : d = <<D!End>> /\ v = D!Zeros(z) /\ w = D!Lengths
  OBVIOUS
<1>2. d \in Seq(Glyphs) /\ Len(d) = 1 /\ d[1] = D!End
  BY <1>1 DEF Glyphs
<1>3. /\ v \in Seq(Glyphs) /\ Len(v) = z /\ \A i \in 1 .. z : v[i] = D!Zero
      /\ w \in Seq(Glyphs) /\ Len(w) = CountBytes
      /\ \A i \in 1 .. CountBytes : w[i] = D!Count
  BY <1>1, ZerosSeq, LengthsSeq
<1>4. m = g \o d \o v \o w
  BY <1>1, Zenon
<1>5. /\ m \in Seq(Glyphs) /\ Len(m) = Len(g) + Len(d) + Len(v) + Len(w)
      /\ \A i \in 1 .. Len(g) : m[i] = g[i]
      /\ \A i \in 1 .. Len(d) : m[Len(g) + i] = d[i]
      /\ \A i \in 1 .. Len(v) : m[Len(g) + Len(d) + i] = v[i]
      /\ \A i \in 1 .. Len(w) : m[Len(g) + Len(d) + Len(v) + i] = w[i]
  <2>1. Parts(g \o d \o v \o w, g, d, v, w)
    BY <1>2, <1>3, FourParts, Zenon
  <2> QED
    BY <1>4, <2>1, Zenon DEF Parts
<1>6. /\ 1 \in 1 .. Len(d) /\ Len(g) + Len(d) = q + 1
      /\ Len(g) + Len(d) + Len(v) = q + 1 + z
      /\ Len(g) + Len(d) + Len(v) + Len(w) = q + 1 + z + CountBytes
  BY <1>2, <1>3
<1>7. m[q + 1] = D!End
  BY <1>2, <1>5, <1>6
<1>8. \A i \in 1 .. z : m[q + 1 + i] = D!Zero
  BY <1>3, <1>5, <1>6, Zenon
<1>9. \A i \in 1 .. CountBytes : m[q + 1 + z + i] = D!Count
  BY <1>3, <1>5, <1>6, Zenon
<1> QED
  BY <1>5, <1>6, <1>7, <1>8, <1>9, Zenon DEF IsPadded

\* A message with f bytes behind its last full block, padded by z zeros to c blocks more.
LEMMA PaddedParts ==
  ASSUME message \in Seq(Byte), NEW k \in Nat, NEW f \in 0 .. BlockBytes - 1,
         NEW o, o = k * BlockBytes, Len(message) = o + f,
         NEW c \in {1, 2}, NEW z \in 0 .. BlockBytes - 1,
         NEW e, e = c * BlockBytes, f + 1 + z + CountBytes = e
  PROVE  IsPadded(D!Padded, message, o + f, z) /\ Len(D!Padded) = o + e
<1>1. /\ BlockBytes \in Nat /\ BlockBytes # 0 /\ CountBytes \in Nat
      /\ o \in Nat /\ e \in Nat
  BY BlockSizes
<1>2. PICK j \in Nat : j + 1 = k + c
  <2>1. k + c - 1 \in Nat /\ (k + c - 1) + 1 = k + c
    OBVIOUS
  <2> QED
    BY <2>1
<1>3. j * BlockBytes + BlockBytes = o + e
  <2>1. (j + 1) * BlockBytes = j * BlockBytes + BlockBytes
    BY <1>1
  <2>2. (k + c) * BlockBytes = k * BlockBytes + c * BlockBytes
    BY <1>1
  <2> QED
    BY <1>2, <2>1, <2>2
<1>4. Len(message) + 1 + CountBytes = j * BlockBytes + (BlockBytes - z)
  <2>1. PICK p \in Nat : p = j * BlockBytes
    BY <1>1
  <2>2. p + BlockBytes = o + e
    BY <1>3, <2>1
  <2>3. (o + f) + 1 + CountBytes = p + (BlockBytes - z)
    BY <1>1, <2>2
  <2> QED
    BY <2>1, <2>3
<1>5. (BlockBytes - ((Len(message) + 1 + CountBytes) % BlockBytes)) % BlockBytes = z
  BY <1>4, ZerosCount
<1>6. D!Padded = message \o <<D!End>> \o D!Zeros(z) \o D!Lengths
  BY <1>5, Zenon DEF D!Padded
<1>7. message \in Seq(Glyphs)
  <2>1. Byte \subseteq Glyphs
    BY DEF Glyphs
  <2> QED
    BY <2>1
<1>8. PICK q \in Nat : q = o + f
  BY <1>1
<1>9. PICK m : m = D!Padded
  OBVIOUS
<1>10. IsPadded(m, message, q, z)
  <2>1. z \in Nat /\ Len(message) = q
    BY <1>8
  <2>2. m = message \o <<D!End>> \o D!Zeros(z) \o D!Lengths
    BY <1>6, <1>9, Zenon
  <2> QED
    BY <1>7, <2>1, <2>2, PaddedBy, Zenon
<1>11. q + 1 + z + CountBytes = o + e
  BY <1>1, <1>8
<1> QED
  BY <1>8, <1>9, <1>10, <1>11, Zenon DEF IsPadded

LEMMA MarkedBytes ==
  ASSUME context \in Block, NEW f \in 0 .. BlockBytes - 1, NEW z \in Nat,
         NEW m, m = D!Put(f, <<D!End>> \o D!Zeros(z))
  PROVE  /\ m \in Block /\ m[f + 1] = D!End
         /\ \A r \in 1 .. f : m[r] = context[r]
         /\ \A r \in 1 .. BlockBytes : r > f + 1 /\ r <= f + 1 + z => m[r] = D!Zero
<1>1. BlockBytes \in Nat
  BY BlockSizes
<1>2. PICK d, v, y : d = <<D!End>> /\ v = D!Zeros(z) /\ y = d \o v
  OBVIOUS
<1>3. d \in Seq(Glyphs) /\ Len(d) = 1 /\ d[1] = D!End
  BY <1>2 DEF Glyphs
<1>4. v \in Seq(Glyphs) /\ Len(v) = z /\ \A i \in 1 .. z : v[i] = D!Zero
  BY <1>2, ZerosSeq
<1>5. /\ y \in Seq(Glyphs) /\ Len(y) = Len(d) + Len(v)
      /\ \A i \in 1 .. Len(d) : y[i] = d[i]
      /\ \A i \in 1 .. Len(v) : y[Len(d) + i] = v[i]
  BY <1>2, <1>3, <1>4, Appended
<1>6. /\ Len(y) = 1 + z /\ y[1] = D!End
      /\ \A i \in 1 .. z : y[1 + i] = D!Zero
  <2>1. Len(y) = 1 + z
    BY <1>3, <1>4, <1>5
  <2>2. 1 \in 1 .. Len(d)
    BY <1>3
  <2>3. y[1] = D!End
    BY <1>3, <1>5, <2>2
  <2>4. \A i \in 1 .. z : y[1 + i] = D!Zero
    BY <1>3, <1>4, <1>5, Zenon
  <2> QED
    BY <2>1, <2>3, <2>4
<1>7. m = D!Put(f, y)
  BY <1>2, Zenon
<1>8. /\ m \in Block
      /\ \A r \in 1 .. BlockBytes : /\ r <= f => m[r] = context[r]
                                    /\ r > f /\ r - f <= Len(y) => m[r] = y[r - f]
  <2>1. f \in 0 .. BlockBytes
    BY <1>1
  <2> QED
    BY <1>5, <1>7, <2>1, PutBytes
<1>9. m[f + 1] = D!End
  <2>1. /\ f + 1 \in 1 .. BlockBytes /\ f + 1 > f /\ (f + 1) - f = 1
        /\ (f + 1) - f <= Len(y)
    BY <1>1, <1>6
  <2> QED
    BY <1>6, <1>8, <2>1
<1>10. \A r \in 1 .. f : m[r] = context[r]
  BY <1>1, <1>8
<1>11. ASSUME NEW r \in 1 .. BlockBytes, r > f + 1, r <= f + 1 + z PROVE m[r] = D!Zero
  <2>1. PICK i \in 1 .. z : r - f = 1 + i
    <3>1. r - f - 1 \in 1 .. z /\ r - f = 1 + (r - f - 1)
      BY <1>1, <1>11
    <3> QED
      BY <3>1
  <2>2. r > f /\ r - f <= Len(y)
    BY <1>1, <1>6, <1>11, <2>1
  <2> QED
    BY <1>6, <1>8, <2>1, <2>2
<1> QED
  BY <1>8, <1>9, <1>10, <1>11

LEMMA TwoParts ==
  ASSUME NEW u \in Seq(Glyphs), NEW w \in Seq(Glyphs), Len(u) + Len(w) = BlockBytes
  PROVE  /\ u \o w \in Block
         /\ \A i \in 1 .. Len(u) : (u \o w)[i] = u[i]
         /\ \A i \in 1 .. Len(w) : (u \o w)[Len(u) + i] = w[i]
<1>1. PICK b : b = u \o w
  OBVIOUS
<1>2. /\ b \in Seq(Glyphs) /\ Len(b) = Len(u) + Len(w)
      /\ \A i \in 1 .. Len(u) : b[i] = u[i]
      /\ \A i \in 1 .. Len(w) : b[Len(u) + i] = w[i]
  BY <1>1, Appended
<1>3. b \in Seq(Glyphs) /\ Len(b) = BlockBytes
  BY <1>2
<1>4. b \in [1 .. BlockBytes -> Glyphs]
  BY <1>3
<1> QED
  BY <1>1, <1>2, <1>4 DEF Block

LEMMA LastBytes ==
  ASSUME NEW u \in Seq(Glyphs), Len(u) = BlockBytes - CountBytes
  PROVE  /\ u \o D!Lengths \in Block
         /\ \A r \in 1 .. BlockBytes - CountBytes : (u \o D!Lengths)[r] = u[r]
         /\ \A i \in 1 .. CountBytes :
              (u \o D!Lengths)[(BlockBytes - CountBytes) + i] = D!Count
<1>1. BlockBytes \in Nat /\ CountBytes \in Nat /\ CountBytes < BlockBytes
  BY BlockSizes
<1>2. PICK w \in Seq(Glyphs) : /\ w = D!Lengths /\ Len(w) = CountBytes
                               /\ \A i \in 1 .. CountBytes : w[i] = D!Count
  BY LengthsSeq
<1>3. Len(u) + Len(w) = BlockBytes
  BY <1>1, <1>2
<1>4. /\ u \o w \in Block
      /\ \A i \in 1 .. Len(u) : (u \o w)[i] = u[i]
      /\ \A i \in 1 .. Len(w) : (u \o w)[Len(u) + i] = w[i]
  BY <1>3, TwoParts
<1> QED
  BY <1>2, <1>4

\* Blocks of the message that the padding follows.
LEMMA Finished ==
  ASSUME NEW x, Cuts(x, D!Padded), Len(D!Padded) = Len(x) * BlockBytes,
         message \in Seq(Byte), message' = message, final' = TRUE,
         blocks' = x, NEW b \in Block, context' = b
  PROVE  DigestInv'
<1>1. (D!Padded)' = D!Padded
  BY DEF D!Padded, D!Lengths
<1> QED
  BY <1>1 DEF DigestInv

LEMMA FinishStep ==
  ASSUME DigestInv, D!Finish
  PROVE  DigestInv'
<1>1. /\ message \in Seq(Byte) /\ context \in Block /\ Cuts(blocks, message)
      /\ final' = TRUE /\ message' = message
      /\ Len(message) = Len(blocks) * BlockBytes + D!Filled
      /\ \A r \in 1 .. D!Filled : context[r] = message[Len(blocks) * BlockBytes + r]
  BY DEF DigestInv, D!Finish
<1>2. PICK f, o, k, p :
        f = D!Filled /\ o = Len(blocks) * BlockBytes /\ k = Len(blocks) /\ p = D!Padded
  OBVIOUS
<1>3. /\ BlockBytes \in Nat \ {0} /\ CountBytes \in Nat \ {0} /\ CountBytes < BlockBytes
  BY BlockSizes
<1>4. f \in 0 .. BlockBytes - 1
  <2>1. Len(message) \in Nat
    BY <1>1
  <2> QED
    BY <1>2, <1>3, <2>1, Divided DEF D!Filled
<1>5. k \in Nat /\ o \in Nat /\ o = k * BlockBytes
  <2>1. k \in Nat
    BY <1>1, <1>2 DEF Cuts
  <2> QED
    BY <1>2, <1>3, <2>1
<1>6. Len(message) = o + f /\ \A r \in 1 .. f : context[r] = message[o + r]
  BY <1>1, <1>2, Zenon
<1>7. ASSUME NEW z \in Nat, IsPadded(p, message, o + f, z), NEW e \in Nat, Len(p) = o + e
      PROVE  /\ Cuts(blocks, p)
             /\ \A r \in 1 .. f : context[r] = p[o + r]
             /\ p[o + f + 1] = D!End
             /\ \A i \in 1 .. z : p[o + f + 1 + i] = D!Zero
             /\ \A i \in 1 .. CountBytes : p[o + f + 1 + z + i] = D!Count
  <2>1. /\ p \in Seq(Glyphs) /\ Len(p) = o + f + 1 + z + CountBytes
        /\ \A i \in 1 .. o + f : p[i] = message[i]
        /\ p[o + f + 1] = D!End
        /\ \A i \in 1 .. z : p[o + f + 1 + i] = D!Zero
        /\ \A i \in 1 .. CountBytes : p[o + f + 1 + z + i] = D!Count
    BY <1>7, Zenon DEF IsPadded
  <2>2. \A r \in 1 .. f : o + r \in 1 .. o + f
    BY <1>4, <1>5
  <2>3. \A r \in 1 .. f : context[r] = p[o + r]
    BY <1>6, <2>1, <2>2
  <2>4. Len(message) <= Len(p)
    <3>1. o + f <= o + f + 1 + z + CountBytes
      BY <1>3, <1>4, <1>5
    <3> QED
      BY <1>6, <2>1, <3>1, Zenon
  <2>5. \A i \in 1 .. Len(message) : p[i] = message[i]
    BY <1>6, <2>1
  <2>6. Cuts(blocks, p)
    BY <1>1, <2>1, <2>4, <2>5, CutsMore
  <2> QED
    BY <2>1, <2>3, <2>6
<1>8. CASE ~D!OverFull
  <2>1. f + 1 <= BlockBytes - CountBytes
    BY <1>2, <1>3, <1>4, <1>8 DEF D!OverFull
  <2>2. PICK z \in 0 .. BlockBytes - 1 : z = BlockBytes - CountBytes - f - 1
    BY <1>3, <1>4, <2>1
  <2>3. PICK m, u, b : /\ m = D!Put(f, <<D!End>> \o D!Zeros(z))
                       /\ u = SubSeq(m, 1, BlockBytes - CountBytes)
                       /\ b = u \o D!Lengths
    OBVIOUS
  <2>4. blocks' = blocks \o <<>> \o <<b>> /\ context' = b
    <3>1. D!Filled + 1 <= BlockBytes - CountBytes
      BY <1>2, <2>1
    <3>2. z = BlockBytes - CountBytes - D!Filled - 1
      BY <1>2, <2>2
    <3>3. m = D!Put(D!Filled, <<D!End>> \o D!Zeros(z))
      BY <1>2, <2>3, Zenon
    <3> QED
      BY <1>8, <2>3, <3>1, <3>2, <3>3, Zenon DEF D!Finish
  <2>5. IsPadded(p, message, o + f, z) /\ Len(p) = o + BlockBytes
    <3>1. PICK c \in {1, 2} : c = 1
      OBVIOUS
    <3>2. PICK e : e = c * BlockBytes
      OBVIOUS
    <3>3. e = BlockBytes /\ f + 1 + z + CountBytes = e
      BY <1>3, <1>4, <2>2, <3>1, <3>2
    <3>4. f + 1 + z + CountBytes = e
      BY <3>3
    <3>5. IsPadded(p, message, o + f, z) /\ Len(p) = o + e
      BY <1>1, <1>2, <1>4, <1>5, <1>6, <3>2, <3>4, PaddedParts
    <3> QED
      BY <3>3, <3>5
  <2>6. /\ z \in Nat /\ Cuts(blocks, p)
        /\ \A r \in 1 .. f : context[r] = p[o + r]
        /\ p[o + f + 1] = D!End
        /\ \A i \in 1 .. z : p[o + f + 1 + i] = D!Zero
        /\ \A i \in 1 .. CountBytes : p[o + f + 1 + z + i] = D!Count
    <3>1. z \in Nat /\ BlockBytes \in Nat
      BY <1>3
    <3> QED
      BY <1>7, <2>5, <3>1
  <2>7. /\ m \in Block /\ m[f + 1] = D!End
        /\ \A r \in 1 .. f : m[r] = context[r]
        /\ \A r \in 1 .. BlockBytes : r > f + 1 /\ r <= f + 1 + z => m[r] = D!Zero
    BY <1>1, <1>4, <2>3, <2>6, MarkedBytes
  <2>8. /\ u \in Seq(Glyphs) /\ Len(u) = BlockBytes - CountBytes
        /\ \A r \in 1 .. BlockBytes - CountBytes : u[r] = m[r]
    <3>1. PICK n \in Nat : n = BlockBytes - CountBytes /\ n <= BlockBytes
      BY <1>3
    <3>2. m \in Seq(Glyphs) /\ Len(m) = BlockBytes
      BY <1>3, <2>7 DEF Block
    <3> QED
      BY <2>3, <3>1, <3>2
  <2>9. /\ b \in Block
        /\ \A r \in 1 .. BlockBytes - CountBytes : b[r] = u[r]
        /\ \A i \in 1 .. CountBytes : b[(BlockBytes - CountBytes) + i] = D!Count
    BY <2>3, <2>8, LastBytes
  <2>10. ASSUME NEW r \in 1 .. BlockBytes PROVE b[r] = p[o + r]
    <3>1. CASE r <= f
      <4>1. r \in 1 .. f /\ r \in 1 .. BlockBytes - CountBytes
        BY <1>3, <1>4, <2>1, <3>1
      <4> QED
        BY <2>6, <2>7, <2>8, <2>9, <4>1
    <3>2. CASE r = f + 1
      <4>1. r \in 1 .. BlockBytes - CountBytes /\ o + r = o + f + 1
        BY <1>3, <1>4, <1>5, <2>1, <3>2
      <4> QED
        BY <2>6, <2>7, <2>8, <2>9, <3>2, <4>1
    <3>3. CASE r > f + 1 /\ r <= BlockBytes - CountBytes
      <4>1. PICK i \in 1 .. z : r = f + 1 + i
        <5>1. r - f - 1 \in 1 .. z /\ r = f + 1 + (r - f - 1)
          BY <1>3, <1>4, <2>2, <3>3
        <5> QED
          BY <5>1
      <4>2. /\ r \in 1 .. BlockBytes - CountBytes /\ o + r = o + f + 1 + i
            /\ r <= f + 1 + z
        BY <1>3, <1>4, <1>5, <2>2, <3>3, <4>1
      <4>3. m[r] = D!Zero
        BY <2>7, <3>3, <4>2
      <4> QED
        BY <2>6, <2>8, <2>9, <4>2, <4>3
    <3>4. CASE r > BlockBytes - CountBytes
      <4>1. PICK i \in 1 .. CountBytes : r = (BlockBytes - CountBytes) + i
        <5>1. /\ r - (BlockBytes - CountBytes) \in 1 .. CountBytes
              /\ r = (BlockBytes - CountBytes) + (r - (BlockBytes - CountBytes))
          BY <1>3, <3>4
        <5> QED
          BY <5>1
      <4>2. o + r = o + f + 1 + z + i
        BY <1>3, <1>4, <1>5, <2>2, <4>1
      <4> QED
        BY <2>6, <2>9, <4>1, <4>2
    <3> QED
      BY <1>3, <1>4, <3>1, <3>2, <3>3, <3>4
  <2>11. PICK x : x = blocks \o <<b>>
    OBVIOUS
  <2>12. Cuts(x, p) /\ Len(x) = k + 1
    <3>1. /\ Len(blocks) * BlockBytes + BlockBytes <= Len(p)
          /\ \A r \in 1 .. BlockBytes : b[r] = p[Len(blocks) * BlockBytes + r]
      <4>1. o + BlockBytes <= o + BlockBytes
        BY <1>3, <1>5
      <4> QED
        BY <1>2, <2>5, <2>10, <4>1, Zenon
    <3> QED
      BY <1>2, <2>6, <2>9, <2>11, <3>1, CutsNext
  <2>13. Len(p) = Len(x) * BlockBytes
    BY <1>3, <1>5, <2>5, <2>12
  <2>14. blocks' = x
    <3>1. blocks \o <<>> = blocks
      <4>1. blocks \in Seq(Block)
        BY <1>1 DEF Cuts
      <4> QED
        BY <4>1
    <3> QED
      BY <2>4, <2>11, <3>1
  <2> QED
    BY <1>1, <1>2, <2>4, <2>9, <2>12, <2>13, <2>14, Finished
<1>9. CASE D!OverFull
  <2>1. f + 1 > BlockBytes - CountBytes
    BY <1>2, <1>9 DEF D!OverFull
  <2>2. PICK z \in 0 .. BlockBytes - 1, y \in Nat :
          z = BlockBytes + BlockBytes - CountBytes - f - 1 /\ y = BlockBytes - f - 1
    BY <1>3, <1>4, <2>1
  <2>3. PICK m, u, b : /\ m = D!Put(f, <<D!End>> \o D!Zeros(y))
                       /\ u = D!Zeros(BlockBytes - CountBytes)
                       /\ b = u \o D!Lengths
    OBVIOUS
  <2>4. blocks' = blocks \o <<m>> \o <<b>> /\ context' = b
    <3>1. y = BlockBytes - D!Filled - 1
      BY <1>2, <2>2
    <3>2. m = D!Put(D!Filled, <<D!End>> \o D!Zeros(y))
      BY <1>2, <2>3, Zenon
    <3> QED
      BY <1>9, <2>3, <3>1, <3>2, Zenon DEF D!Finish
  <2>5. IsPadded(p, message, o + f, z) /\ Len(p) = o + (BlockBytes + BlockBytes)
    <3>1. PICK e : e = 2 * BlockBytes
      OBVIOUS
    <3>2. e = BlockBytes + BlockBytes /\ f + 1 + z + CountBytes = e
      BY <1>3, <1>4, <2>2, <3>1
    <3>3. IsPadded(p, message, o + f, z) /\ Len(p) = o + e
      BY <1>1, <1>2, <1>4, <1>5, <1>6, <3>1, <3>2, PaddedParts
    <3> QED
      BY <3>2, <3>3
  <2>6. /\ z \in Nat /\ Cuts(blocks, p)
        /\ \A r \in 1 .. f : context[r] = p[o + r]
        /\ p[o + f + 1] = D!End
        /\ \A i \in 1 .. z : p[o + f + 1 + i] = D!Zero
        /\ \A i \in 1 .. CountBytes : p[o + f + 1 + z + i] = D!Count
    <3>1. z \in Nat /\ BlockBytes + BlockBytes \in Nat
      BY <1>3
    <3> QED
      BY <1>7, <2>5, <3>1
  <2>7. /\ m \in Block /\ m[f + 1] = D!End
        /\ \A r \in 1 .. f : m[r] = context[r]
        /\ \A r \in 1 .. BlockBytes : r > f + 1 /\ r <= f + 1 + y => m[r] = D!Zero
    BY <1>1, <1>4, <2>3, MarkedBytes
  <2>8. /\ u \in Seq(Glyphs) /\ Len(u) = BlockBytes - CountBytes
        /\ \A r \in 1 .. BlockBytes - CountBytes : u[r] = D!Zero
    <3>1. BlockBytes - CountBytes \in Nat
      BY <1>3
    <3> QED
      BY <2>3, <3>1, ZerosSeq
  <2>9. /\ b \in Block
        /\ \A r \in 1 .. BlockBytes - CountBytes : b[r] = u[r]
        /\ \A i \in 1 .. CountBytes : b[(BlockBytes - CountBytes) + i] = D!Count
    BY <2>3, <2>8, LastBytes
  <2>10. ASSUME NEW r \in 1 .. BlockBytes PROVE m[r] = p[o + r]
    <3>1. CASE r <= f
      <4>1. r \in 1 .. f
        BY <1>3, <1>4, <3>1
      <4> QED
        BY <2>6, <2>7, <4>1
    <3>2. CASE r = f + 1
      <4>1. o + r = o + f + 1
        BY <1>4, <1>5, <3>2
      <4> QED
        BY <2>6, <2>7, <3>2, <4>1
    <3>3. CASE r > f + 1
      <4>1. PICK i \in 1 .. z : r = f + 1 + i
        <5>1. r - f - 1 \in 1 .. z /\ r = f + 1 + (r - f - 1)
          BY <1>3, <1>4, <2>2, <3>3
        <5> QED
          BY <5>1
      <4>2. o + r = o + f + 1 + i /\ r <= f + 1 + y
        BY <1>3, <1>4, <1>5, <2>2, <4>1
      <4>3. m[r] = D!Zero
        BY <2>7, <3>3, <4>2
      <4> QED
        BY <2>6, <4>2, <4>3
    <3> QED
      BY <1>3, <1>4, <3>1, <3>2, <3>3
  <2>11. ASSUME NEW r \in 1 .. BlockBytes PROVE b[r] = p[(o + BlockBytes) + r]
    <3>1. CASE r <= BlockBytes - CountBytes
      <4>1. r \in 1 .. BlockBytes - CountBytes
        BY <1>3, <3>1
      <4>2. PICK i \in 1 .. z : (o + BlockBytes) + r = o + f + 1 + i
        <5>1. /\ BlockBytes + r - f - 1 \in 1 .. z
              /\ (o + BlockBytes) + r = o + f + 1 + (BlockBytes + r - f - 1)
          BY <1>3, <1>4, <1>5, <2>2, <3>1
        <5> QED
          BY <5>1
      <4> QED
        BY <2>6, <2>8, <2>9, <4>1, <4>2
    <3>2. CASE r > BlockBytes - CountBytes
      <4>1. PICK i \in 1 .. CountBytes : r = (BlockBytes - CountBytes) + i
        <5>1. /\ r - (BlockBytes - CountBytes) \in 1 .. CountBytes
              /\ r = (BlockBytes - CountBytes) + (r - (BlockBytes - CountBytes))
          BY <1>3, <3>2
        <5> QED
          BY <5>1
      <4>2. (o + BlockBytes) + r = o + f + 1 + z + i
        BY <1>3, <1>4, <1>5, <2>2, <4>1
      <4> QED
        BY <2>6, <2>9, <4>1, <4>2
    <3> QED
      BY <1>3, <3>1, <3>2
  <2>12. PICK w : w = blocks \o <<m>>
    OBVIOUS
  <2>13. Cuts(w, p) /\ Len(w) = k + 1
    <3>1. o + BlockBytes <= o + (BlockBytes + BlockBytes)
      BY <1>3, <1>5
    <3>2. /\ Len(blocks) * BlockBytes + BlockBytes <= Len(p)
          /\ \A r \in 1 .. BlockBytes : m[r] = p[Len(blocks) * BlockBytes + r]
      BY <1>2, <2>5, <2>10, <3>1, Zenon
    <3> QED
      BY <1>2, <2>6, <2>7, <2>12, <3>2, CutsNext
  <2>14. Len(w) * BlockBytes = o + BlockBytes
    BY <1>3, <1>5, <2>13
  <2>15. PICK x : x = w \o <<b>>
    OBVIOUS
  <2>16. Cuts(x, p) /\ Len(x) = Len(w) + 1
    <3>1. (o + BlockBytes) + BlockBytes <= o + (BlockBytes + BlockBytes)
      BY <1>3, <1>5
    <3>2. /\ Len(w) * BlockBytes + BlockBytes <= Len(p)
          /\ \A r \in 1 .. BlockBytes : b[r] = p[Len(w) * BlockBytes + r]
      BY <2>5, <2>11, <2>14, <3>1, Zenon
    <3> QED
      BY <2>9, <2>13, <2>15, <3>2, CutsNext
  <2>17. Len(p) = Len(x) * BlockBytes
    <3>1. Len(x) * BlockBytes = Len(w) * BlockBytes + BlockBytes
      BY <1>3, <1>5, <2>13, <2>16
    <3> QED
      BY <1>3, <1>5, <2>5, <2>14, <3>1
  <2>18. blocks' = x
    BY <2>4, <2>12, <2>15
  <2> QED
    BY <1>1, <1>2, <2>4, <2>9, <2>16, <2>17, <2>18, Finished
<1> QED
  BY <1>8, <1>9

LEMMA NoneCut == Cuts(<<>>, <<>>) /\ <<>> \in Seq(Byte)
<1>1. Len(<<>>) = 0 /\ 1 .. 0 = {}
  OBVIOUS
<1>2. 0 * BlockBytes = 0
  BY BlockSizes
<1> QED
  BY <1>1, <1>2 DEF Cuts

LEMMA NoneTaken ==
  ASSUME message' = <<>>, blocks' = <<>>, final' = FALSE, context' = context,
         context \in Block
  PROVE  DigestInv'
<1>1. /\ 0 \in 0 .. BlockBytes - 1 /\ 1 .. 0 = {}
      /\ Len(<<>>) = Len(<<>>) * BlockBytes + 0
  BY BlockSizes
<1>2. message' \in Seq(Byte) /\ Cuts(<<>>, message')
  BY NoneCut
<1>3. Len(message') = Len(<<>>) * BlockBytes + 0
  BY <1>1
<1> QED
  BY <1>1, <1>2, <1>3, Taken

LEMMA DigestStep ==
  ASSUME DigestInv, D!Next
  PROVE  DigestInv'
<1>1. ASSUME NEW n \in 0 .. (MaxMessage - Len(message)), NEW piece \in [1 .. n -> Byte],
             D!Update(piece)
      PROVE  DigestInv'
  <2>1. Len(message) \in Nat
    BY DEF DigestInv
  <2>2. n \in Nat
    BY <2>1, SizesAssumption
  <2>3. piece \in Seq(Byte)
    BY <2>2
  <2> QED
    BY <1>1, <2>3, UpdateStep
<1>2. CASE D!Finish
  BY <1>2, FinishStep
<1>3. CASE D!Begin
  <2>1. /\ message' = <<>> /\ blocks' = <<>> /\ final' = FALSE /\ context' = context
        /\ context \in Block
    BY <1>3 DEF D!Begin, DigestInv
  <2> QED
    BY <2>1, NoneTaken
<1> QED
  BY <1>1, <1>2, <1>3 DEF D!Next

\* The blocks are cut from what they are to be, and so are it, one behind the other.
LEMMA DigestMeans ==
  ASSUME DigestInv
  PROVE  D!DigestOfMessage
<1>1. CASE final
  <2>1. Cuts(blocks, D!Padded) /\ Len(D!Padded) = Len(blocks) * BlockBytes
    BY <1>1 DEF DigestInv
  <2>2. D!FlattenSeq(blocks) = SubSeq(D!Padded, 1, Len(D!Padded))
    BY <2>1, CutsFlat
  <2>3. PICK p \in Seq(Glyphs) : p = D!Padded
    BY <2>1 DEF Cuts
  <2>4. SubSeq(p, 1, Len(p)) = p
    <3>1. PICK v : v = SubSeq(p, 1, Len(p))
      OBVIOUS
    <3>2. /\ v \in Seq(Glyphs) /\ Len(v) = Len(p)
          /\ \A i \in 1 .. Len(v) : v[i] = p[i]
      BY <3>1
    <3> QED
      BY <3>1, <3>2, SameSeq
  <2> QED
    BY <1>1, <2>2, <2>3, <2>4 DEF D!DigestOfMessage
<1>2. CASE ~final
  <2>1. /\ Cuts(blocks, message)
        /\ Len(message) = Len(blocks) * BlockBytes + D!Filled /\ message \in Seq(Byte)
    BY <1>2 DEF DigestInv
  <2>2. D!FlattenSeq(blocks) = SubSeq(message, 1, Len(blocks) * BlockBytes)
    BY <2>1, CutsFlat
  <2>3. Len(message) - D!Filled = Len(blocks) * BlockBytes
    <3>1. Len(blocks) \in Nat /\ Len(message) \in Nat
      BY <2>1 DEF Cuts
    <3>2. PICK e, f : e = Len(blocks) * BlockBytes /\ f = D!Filled
      OBVIOUS
    <3>3. e \in Nat /\ f \in Nat
      <4>1. f \in 0 .. BlockBytes - 1
        BY <3>1, <3>2, BlockSizes, Divided DEF D!Filled
      <4> QED
        BY <3>1, <3>2, <4>1, BlockSizes
    <3>4. Len(message) = e + f
      BY <2>1, <3>2, Zenon
    <3>5. Len(message) - f = e
      BY <3>3, <3>4
    <3> QED
      BY <3>2, <3>5
  <2> QED
    BY <1>2, <2>2, <2>3 DEF D!DigestOfMessage
<1> QED
  BY <1>1, <1>2

IDigested == running = "digested" => DigestInv

\* In whatever pieces a message is given, the blocks that are compressed are those
\* of the message, and once the digest is asked for those of the message with its
\* padding, also when the end mark leaves no room for the length
\* (security/crypto.c).
THEOREM DigestsWholeHolds == Spec => []DigestsWhole
<1>1. Init => IDigested
  <2> SUFFICES ASSUME D!Init PROVE DigestInv
    BY DEF Init, IDigested
  <2>1. /\ message = <<>> /\ blocks = <<>> /\ final = FALSE
        /\ context = D!Zeros(BlockBytes)
    BY DEF D!Init
  <2>2. context \in Block
    BY <2>1, BlockSizes DEF D!Zeros, Block, Glyphs
  <2>3. D!Filled = 0
    <3>1. Len(<<>>) = 0 * BlockBytes + 0
      BY BlockSizes
    <3>2. 0 \in Nat /\ BlockBytes \in Nat \ {0} /\ 0 \in 0 .. BlockBytes - 1
      BY BlockSizes
    <3>3. (0 * BlockBytes + 0) % BlockBytes = 0
      BY <3>2, Quotient, Zenon
    <3> QED
      BY <2>1, <3>1, <3>3, Zenon DEF D!Filled
  <2>4. Len(<<>>) = Len(<<>>) * BlockBytes + 0 /\ 1 .. 0 = {}
    BY BlockSizes
  <2> QED
    BY <2>1, <2>2, <2>3, <2>4, NoneCut DEF DigestInv
<1>2. IDigested /\ [Next]_vars => IDigested'
  <2> SUFFICES ASSUME IDigested, [Next]_vars, running' = "digested" PROVE DigestInv'
    BY DEF IDigested
  <2>1. CASE running = "digested" /\ D!Next
    BY <2>1, DigestStep DEF IDigested
  <2>2. CASE UNCHANGED vars
    <3>1. DigestInv /\ UNCHANGED <<message, context, blocks, final>>
      BY <2>2 DEF IDigested, vars, digestedVars
    <3>2. (D!Padded)' = D!Padded /\ (D!Filled)' = D!Filled
      BY <3>1 DEF D!Padded, D!Filled, D!Lengths
    <3> QED
      BY <3>1, <3>2 DEF DigestInv
  <2> QED
    BY <2>1, <2>2 DEF Next, Others
<1>3. IDigested => DigestsWhole
  BY DigestMeans DEF IDigested, DigestsWhole
<1> QED
  BY <1>1, <1>2, <1>3, PTL DEF Spec

\* For any names, paths, sizes of a block and messages in whatever pieces: what
\* canonicalizing keeps of a path is what the path means (file/sdcard.c), and the
\* blocks compressed are those of the message as a whole (security/crypto.c).
THEOREM ComputedHolds == Spec => []Computed
<1>1. PathsMean /\ DigestsWhole => Computed
  BY DEF Computed
<1> QED
  BY <1>1, PathsMeanHolds, DigestsWholeHolds, PTL

===============================================================================

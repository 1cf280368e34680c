------------------------------- MODULE Modes -------------------------------
(***************************************************************************)
(* Security modes (security/security_mode.c) and the operations that are   *)
(* logged against them (file/file_op_logger.c).                            *)
(*                                                                         *)
(* A path is known by the rules that match it, and by whether its name has *)
(* one of the critical patterns in it.  The functions are called in any    *)
(* order, as the header offers them; the settings screen is a series of    *)
(* such calls, and two assignments of its own.                             *)
(***************************************************************************)
EXTENDS Naturals, FiniteSets

CONSTANTS
  Paths,      \* paths: [rules: the default rules that match it, critical, rom]
  Rules,      \* the default rules: [access: the access each allows]
  Pins,       \* pins of four digits the user may type
  Timeout,    \* minutes of a guest session
  MaxPaths    \* bound: protected paths, which every initialisation adds to

VARIABLES
  mode,       \* current_mode
  access,     \* current_access
  pin,        \* parental_pin: one of Pins, or Unset
  verified,   \* pin_verified
  elapsed,    \* minutes since the guest session began, up to Timeout
  protected,  \* the protected paths: how often each rule is in the list
  knew,       \* whether a pin was verified since the mode was chosen, or still was then
  logged      \* the last operation logged: with what access, and as what

vars == <<mode, access, pin, verified, elapsed, protected, knew, logged>>

Full  == {"read", "write", "delete", "execute"}
Unset == "unset"   \* zero, which is no pin's hash

NotLogged == [op |-> "none", src |-> CHOOSE p \in Paths : TRUE, dst |-> CHOOSE p \in Paths : TRUE,
              blocked |-> FALSE]

-----------------------------------------------------------------------------
(* Protected paths.                                                        *)

\* The rules are added once more by every initialisation.  (One with no memory
\* for its path ends the program when next looked at.)
SecurityInit ==
  /\ \E added \in SUBSET DOMAIN Rules :   \* those there was memory for
       protected' = [r \in DOMAIN Rules |->
                       IF r \in added /\ protected[r] < MaxPaths THEN protected[r] + 1 ELSE protected[r]]
  /\ logged' = NotLogged
  /\ UNCHANGED <<mode, access, pin, verified, elapsed, knew>>

\* The list goes, and nothing else is reset.
SecurityExit ==
  /\ protected' = [r \in DOMAIN Rules |-> 0]
  /\ logged' = NotLogged
  /\ UNCHANGED <<mode, access, pin, verified, elapsed, knew>>

-----------------------------------------------------------------------------
(* Modes.                                                                  *)

AccessIn(m) ==
  CASE m = "normal"   -> Full
    [] m = "guest"    -> {"read", "execute"}
    [] m = "safe"     -> {"read", "execute"}
    [] m = "parental" -> IF verified THEN access ELSE {"read"}

\* Mutant of Chosen: choosing a mode leaves the access of a verified pin.
ChosenKeeping(m) ==
  /\ mode' = m
  /\ access' = IF verified THEN access ELSE AccessIn(m)
  /\ elapsed' = IF m = "guest" THEN 0 ELSE elapsed

Chosen(m) ==
  /\ mode' = m
  /\ access' = AccessIn(m)
  /\ elapsed' = IF m = "guest" THEN 0 ELSE elapsed

\* Parental mode with a verified pin keeps the access, and what it rests on.
SetMode(m) ==
  /\ Chosen(m)
  /\ knew' = (m = "parental" /\ verified)
  /\ logged' = NotLogged
  /\ UNCHANGED <<pin, verified, protected>>

EndGuest ==
  /\ mode = "guest"
  /\ SetMode("normal")

\* A session is over only when somebody asks, and then everything is allowed.
GuestExpired ==
  /\ mode = "guest" /\ elapsed = Timeout
  /\ EndGuest

MinutePasses ==
  /\ mode = "guest" /\ elapsed < Timeout
  /\ elapsed' = elapsed + 1
  /\ logged' = NotLogged
  /\ UNCHANGED <<mode, access, pin, verified, protected, knew>>

-----------------------------------------------------------------------------
(* The pin.                                                                *)

SetPin ==
  /\ pin' \in Pins
  /\ verified' = FALSE
  /\ logged' = NotLogged
  /\ UNCHANGED <<mode, access, elapsed, protected, knew>>

\* The right pin grants everything, in whatever mode; a wrong one leaves the
\* access as it was.  Nothing typed is no pin.
VerifyPin ==
  /\ \E typed \in Pins \cup {"nothing"} :
       /\ verified' = (typed = pin)
       /\ access' = IF typed = pin THEN Full ELSE access
       /\ knew' = (knew \/ typed = pin)
  /\ logged' = NotLogged
  /\ UNCHANGED <<mode, pin, elapsed, protected>>

\* The button "Lock" of the settings screen.
Lock ==
  /\ mode = "parental" /\ verified
  /\ verified' = FALSE
  /\ logged' = NotLogged
  /\ UNCHANGED <<mode, access, pin, elapsed, protected, knew>>

-----------------------------------------------------------------------------
(* What is allowed.                                                        *)

\* Mutant of CheckAccess: whoever may do everything is not asked about paths.
CheckAccessFull(p, asked) ==
  \/ asked = {"read"} /\ p.rom
  \/ access = Full
  \/ /\ \A r \in p.rules : protected[r] > 0 => asked \subseteq Rules[r]
     /\ asked \subseteq access

CheckAccess(p, asked) ==
  \/ asked = {"read"} /\ p.rom
  \/ /\ \A r \in p.rules : protected[r] > 0 => asked \subseteq Rules[r]
     /\ asked \subseteq access

OperationAllowed(p, asked) ==
  /\ ~(mode = "safe" /\ p.critical /\ asked \cap {"write", "delete"} # {})
  /\ CheckAccess(p, asked)

TwoPaths == {"copy", "move", "rename"}

Needed(op) ==
  {"read"} \cup
  CASE op = "copy"               -> {"write"}
    [] op \in {"move", "rename"} -> {"write", "delete"}
    [] op = "delete"             -> {"delete"}
    [] op \in {"create", "mkdir"} -> {"write"}

\* log_file_op_start: of an operation that is not allowed only the line in the
\* log is different.  Operations on one path have no destination.
LogStart ==
  /\ \E op \in TwoPaths \cup {"delete", "create", "mkdir"}, s, d \in Paths :
       logged' = [op |-> op, src |-> s, dst |-> IF op \in TwoPaths THEN d ELSE s,
                  blocked |-> ~(/\ OperationAllowed(s, Needed(op))
                                /\ op \in TwoPaths => OperationAllowed(d, {"write"}))]
  /\ UNCHANGED <<mode, access, pin, verified, elapsed, protected, knew>>

\* log_file_op_complete and log_file_op_error add a line in any case.
LogEnd ==
  /\ logged.op # "none"
  /\ logged' = NotLogged
  /\ UNCHANGED <<mode, access, pin, verified, elapsed, protected, knew>>

Init ==
  /\ mode = "normal" /\ access = Full /\ pin = Unset /\ verified = FALSE
  /\ elapsed = 0 /\ protected = [r \in DOMAIN Rules |-> 0]
  /\ knew = FALSE /\ logged = NotLogged

Next ==
  \/ SecurityInit \/ SecurityExit
  \/ \E m \in {"normal", "guest", "safe", "parental"} : SetMode(m)
  \/ EndGuest \/ GuestExpired \/ MinutePasses
  \/ SetPin \/ VerifyPin \/ Lock
  \/ LogStart \/ LogEnd

Spec == Init /\ [][Next]_vars

-----------------------------------------------------------------------------
\* Outside of normal mode there is no access to change anything unless somebody
\* knew the pin since the mode was chosen, or it still counted then: whatever was
\* set, verified or had expired before.  Choosing normal mode asks for no pin and
\* gives everything, and locking, or another pin, takes nothing back.
ChangesNeedPin ==
  mode # "normal" /\ ~knew => access \cap {"write", "delete"} = {}

\* An operation is let through only if the rules of what it reads or removes
\* allow all it needs there, those of where it writes allow writing, neither is
\* critical in safe mode, and outside of normal mode somebody knew the pin.
ProtectedHolds ==
  logged.op # "none" /\ ~logged.blocked =>
    /\ \A r \in logged.src.rules : protected[r] > 0 => Needed(logged.op) \subseteq Rules[r]
    /\ logged.op \in TwoPaths =>
         \A r \in logged.dst.rules : protected[r] > 0 => "write" \in Rules[r]
    /\ mode = "safe" => ~logged.src.critical /\ ~logged.dst.critical
    /\ mode # "normal" => knew
=============================================================================

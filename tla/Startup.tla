------------------------------- MODULE Startup -------------------------------
(***************************************************************************)
(* Starting and stopping the program's services (core/main.c, core/app.c,  *)
(* features/goldleaf_features.c), and the link to a computer               *)
(* (net/usb_service.c), the one of them that has a life of its own.        *)
(*                                                                         *)
(* The link's state Ready is never reached: it takes an answer to a        *)
(* command that is only sent in it.  What needs it, the transfers and the  *)
(* listing of files, never happens and is not modelled.  app_exit stands   *)
(* behind a loop that never ends; it is modelled as it would be called.    *)
(***************************************************************************)
EXTENDS Naturals, Sequences

CONSTANT MaxRegistrations  \* bound: interfaces registered in one run

VARIABLES
  phase,     \* "starting", "running", "failed" or "over"
  booted,    \* services started or tried so far
  up,        \* the services that are up
  state,     \* s_state
  link,      \* s_interface, s_endpoint_in and s_endpoint_out: numbers, or Null
  open,      \* what is open in the usb driver: kind and number of registration
  attempts   \* registrations so far

vars == <<phase, booted, up, state, link, open, attempts>>

\* In this order.
Security == <<"crypto", "validation", "audit">>
App      == <<"romfs", "socket", "nifm", "secure", "tasks", "store", "system", "logger">>
Goldleaf == <<"verify", "usb", "titlekey", "browser">>
Order    == Security \o App \o Goldleaf

Optional == {"romfs", "socket", "nifm"}  \* the program does without
Services == {Order[i] : i \in DOMAIN Order}
MayFail  == Optional \cup {"system", "usb"}  \* the others cannot, in this build

Null  == 0
Kinds == {"interface", "in", "out"}
Down  == [k \in Kinds |-> Null]

-----------------------------------------------------------------------------
(* Starting.                                                               *)

Next1 == Order[booted + 1]

\* nifm is not tried without sockets.
Starts ==
  /\ Next1 = "nifm" => "socket" \in up
  /\ up' = up \cup {Next1}

\* Mutant of Skips: any service is done without.
SkipsAny == UNCHANGED up

Skips ==
  /\ Next1 \in Optional
  /\ UNCHANGED up

Boot ==
  /\ phase = "starting"
  /\ Starts \/ (Next1 \in MayFail /\ Skips)
  /\ booted' = booted + 1
  /\ phase' = IF booted + 1 = Len(Order) THEN "running" ELSE "starting"
  /\ UNCHANGED <<state, link, open, attempts>>

\* app_init gives up and main only closes what it opened itself: the rest stays as
\* it is until the program ends.
GiveUp ==
  /\ phase = "starting" /\ Next1 \in MayFail \ Optional
  /\ phase' = "failed"
  /\ up' = up \ {"crypto", "validation", "audit"}
  /\ UNCHANGED <<booted, state, link, open, attempts>>

-----------------------------------------------------------------------------
(* The link.                                                               *)

\* What of the link is recorded, as the driver would know it.
Held(kinds) == {<<k, link[k]>> : k \in kinds}

\* usb_stop_service does nothing unless the link is up.
StopService ==
  /\ phase = "running"
  /\ state = "connected"
  /\ state' = "disconnected" /\ link' = Down /\ open' = open \ Held(Kinds)
  /\ UNCHANGED <<phase, booted, up, attempts>>

\* _usb_setup_interface fails: at once, with the interface, or with the first
\* endpoint too, each of which is closed and forgotten; endpoints an earlier
\* attempt left are not.
SetupFails ==
  /\ \E forgotten \in {{}, {"interface"}, {"interface", "in"}} :
       link' = [k \in Kinds |-> IF k \in forgotten THEN Null ELSE link[k]]
  /\ UNCHANGED <<state, open, attempts>>

\* What was registered is open, and what an earlier attempt left is overwritten.
Registers ==
  /\ attempts' = attempts + 1
  /\ link' = [k \in Kinds |-> attempts + 1]
  /\ open' = open \cup {<<k, attempts + 1>> : k \in Kinds}

\* Enabling may fail, and then nothing is closed: stopping does nothing before the
\* link is up.  A link that is up is reported as a failure: no greeting can be sent.
StartService ==
  /\ phase = "running" /\ "usb" \in up
  /\ state = "disconnected" /\ attempts < MaxRegistrations
  /\ SetupFails \/ (Registers /\ state' \in {"disconnected", "connected"})
  /\ UNCHANGED <<phase, booted, up>>

-----------------------------------------------------------------------------
(* Stopping.                                                               *)

\* Mutant of UsbExit: the driver is closed under the link.
UsbExitOnly == open' = {} /\ UNCHANGED <<state, link>>

\* The link is stopped, and the driver closes whatever else is open in it.
UsbExit ==
  /\ open' = {}
  /\ state' = "disconnected"
  /\ link' = IF state = "connected" THEN Down ELSE link

\* app_exit, and then main's own: everything, except the log.
AppExit ==
  /\ phase = "running"
  /\ phase' = "over"
  /\ UsbExit
  /\ up' = up \cap {"logger"}
  /\ UNCHANGED <<booted, attempts>>

Init ==
  /\ phase = "starting" /\ booted = 0 /\ up = {}
  /\ state = "disconnected" /\ link = Down /\ open = {} /\ attempts = 0

Next == Boot \/ GiveUp \/ StartService \/ StopService \/ AppExit

Spec == Init /\ [][Next]_vars

-----------------------------------------------------------------------------
\* While the link is up, the interface and its two endpoints are open, of one
\* registration, in a driver that is up; and when the program is over nothing is
\* open or up but the log, however the link was left.
LinkBacked ==
  /\ state = "connected" =>
       /\ "usb" \in up /\ Held(Kinds) \subseteq open
       /\ \A k, l \in Kinds : link[k] = link[l]
  /\ phase = "over" => open = {} /\ up \subseteq {"logger"}

\* Nothing runs without a service it cannot do without, or on the net without
\* sockets; and starting is given up only before the loop has begun.
AllUp ==
  /\ phase = "running" => Services \ Optional \subseteq up
  /\ "nifm" \in up => "socket" \in up
=============================================================================

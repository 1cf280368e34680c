-------------------------------- MODULE Keys --------------------------------
(***************************************************************************)
(* Title keys (game/title_key.c) and tickets (util/ticket_manager.c): one  *)
(* file each, named after a title and written in place, whose contents     *)
(* carry the identity once more.                                           *)
(*                                                                         *)
(* Files are sequences of units of eight bytes.  Of a ticket the units are *)
(* the two at 0x180 and the two at 0x2A0: the title's id is read from the  *)
(* first of the two that the encrypted key is read from, and the rights id *)
(* from the others.  A key file is the id, two units of key, two of rights.*)
(* A written file reaches the card when it is closed, whole or a beginning *)
(* of it, and no result of the closing is looked at.                       *)
(***************************************************************************)
EXTENDS Naturals, Sequences

CONSTANTS
  Id,       \* titles; also what names the files
  Zero,     \* a unit of zero bytes
  Tickets,  \* ticket files the user may have, some too short
  PlainKeys,\* keys the user may enter, of two units
  Dec(_, _) \* decrypting two units under two units of rights (not part of the source)

VARIABLES
  keys,     \* the key files: none, or their units
  tickets,  \* the ticket files
  ready,    \* s_initialized of title_key.c
  pending,  \* a file opened for writing and not closed yet
  granted,  \* what imports have decrypted: id, key, rights
  answer    \* what the last call returned

vars == <<keys, tickets, ready, pending, granted, answer>>

None    == [kind |-> "none", data |-> <<>>]
File(s) == [kind |-> "file", data |-> s]

NotWriting == [what |-> "none", id |-> Zero, data |-> <<>>]

Free == pending = NotWriting

Answered(rc, found) == answer' = [rc |-> rc, found |-> found]

WholeTicket(s) == Len(s) = 4

Prefixes(s) == {SubSeq(s, 1, n) : n \in 0 .. Len(s)}

\* fopen(.., "wb"): the file is empty until it is closed.
OpenedKey(id, data) ==
  /\ pending' = [what |-> "key", id |-> id, data |-> data]
  /\ keys' = [keys EXCEPT ![id] = File(<<>>)]
  /\ UNCHANGED tickets

OpenedTicket(id, data) ==
  /\ pending' = [what |-> "ticket", id |-> id, data |-> data]
  /\ tickets' = [tickets EXCEPT ![id] = File(<<>>)]
  /\ UNCHANGED keys

Refused == Answered("err", {}) /\ UNCHANGED <<keys, tickets, pending>>

-----------------------------------------------------------------------------
(* Title keys.                                                             *)

TitlekeyInit == Free /\ ready' = TRUE  /\ UNCHANGED <<keys, tickets, pending, granted, answer>>
TitlekeyExit == Free /\ ready' = FALSE /\ UNCHANGED <<keys, tickets, pending, granted, answer>>

\* titlekey_import: of a ticket that is long enough.
Import ==
  /\ Free
  /\ \/ Refused /\ UNCHANGED granted
     \/ /\ ready
        /\ \E s \in Tickets :
             LET rights == SubSeq(s, 3, 4)
                 key    == Dec(SubSeq(s, 1, 2), rights)
             IN  /\ WholeTicket(s)
                 /\ OpenedKey(s[1], <<s[1]>> \o key \o rights)
                 /\ granted' = granted \cup {<<s[1], key, rights>>}
        /\ UNCHANGED answer
  /\ UNCHANGED ready

\* A unit read from a file; what cannot be read stays zero.
Unit(s, n) == IF Len(s) >= n THEN s[n] ELSE Zero

\* Mutant of Exports: what could be read is taken.
ExportsAny(id) == keys[id].kind = "file" /\ keys[id].data # <<>> /\ keys[id].data[1] = id

\* titlekey_export: the id and the key must be there, the rights need not.
Exports(id) ==
  keys[id].kind = "file" /\ Len(keys[id].data) >= 3 /\ keys[id].data[1] = id

Export ==
  /\ Free /\ ready
  /\ \E id \in Id :
       \/ /\ Exports(id)
          /\ Answered("ok", {<<id, <<Unit(keys[id].data, 2), Unit(keys[id].data, 3)>>>>})
       \/ Answered("err", {})
  /\ UNCHANGED <<keys, tickets, ready, pending, granted>>

\* titlekey_list: whole files only.
ListKeys ==
  /\ Free /\ ready
  /\ LET whole == {id \in Id : Len(keys[id].data) = 5}
     IN  \/ Answered("ok", {<<keys[id].data[1], SubSeq(keys[id].data, 2, 3)>> : id \in whole})
        \/ Answered("err", {})
  /\ UNCHANGED <<keys, tickets, ready, pending, granted>>

\* titlekey_exists: any file will do.
Exists ==
  /\ Free /\ ready
  /\ Answered("ok", {})
  /\ UNCHANGED <<keys, tickets, ready, pending, granted>>

\* titlekey_remove.
RemoveKey ==
  /\ Free /\ ready
  /\ \E id \in Id :
       \/ keys[id] # None /\ keys' = [keys EXCEPT ![id] = None] /\ Answered("ok", {})
       \/ UNCHANGED keys /\ Answered("err", {})
  /\ UNCHANGED <<tickets, ready, pending, granted>>

-----------------------------------------------------------------------------
(* Tickets.                                                                *)

\* The id of a ticket too short to have one is what lies behind it in memory.
TicketIds(s) == IF Len(s) >= 1 THEN {s[1]} \cap Id ELSE Id

\* ticket_install: the file as it is, under the id read from it.
InstallTicket ==
  /\ Free
  /\ \/ Refused
     \/ /\ \E s \in Tickets : \E id \in TicketIds(s) : OpenedTicket(id, s)
        /\ UNCHANGED answer
  /\ UNCHANGED <<ready, granted>>

\* ticket_import_title_key: the key, which "encrypting" leaves as it is, is put
\* where the id was put first; the rights are the id and zeros.
ImportTicketKey ==
  /\ Free
  /\ \/ Refused
     \/ /\ \E id \in Id, k \in PlainKeys : OpenedTicket(id, k \o <<id, Zero>>)
        /\ UNCHANGED answer
  /\ UNCHANGED <<ready, granted>>

\* What ticket_list reads of a file.
InfoOf(s) == [id |-> Unit(s, 1), rights |-> <<Unit(s, 3), Unit(s, 4)>>]

Infos == {InfoOf(tickets[i].data) : i \in {j \in Id : tickets[j] # None}}

\* A listed ticket is removed, dumped or asked for its key by the id it shows,
\* which names another file if it is not the one it was read from.
ListTickets ==
  /\ Free
  /\ \E rc \in {"ok", "err"} : Answered(rc, {})
  /\ UNCHANGED <<keys, tickets, ready, pending, granted>>

RemoveTicket ==
  /\ Free
  /\ \E info \in Infos :
       \/ /\ info.id \in Id /\ tickets[info.id] # None
          /\ tickets' = [tickets EXCEPT ![info.id] = None]
          /\ Answered("ok", {})
       \/ UNCHANGED tickets /\ Answered("err", {})
  /\ UNCHANGED <<keys, ready, pending, granted>>

\* ticket_get_title_key: the file's key under the listed ticket's rights.
TicketKey ==
  /\ Free
  /\ \E info \in Infos :
       IF info.id \in Id /\ Len(tickets[info.id].data) >= 2
       THEN Answered("ticket", {<<info.id, Dec(SubSeq(tickets[info.id].data, 1, 2), info.rights)>>})
       ELSE Answered("err", {})
  /\ UNCHANGED <<keys, tickets, ready, pending, granted>>

\* ticket_dump copies the ticket to a file of the user's; a failed read is no error.
DumpTicket ==
  /\ Free
  /\ \E info \in Infos :
       \E rc \in IF info.id \in Id /\ tickets[info.id] # None THEN {"ok", "err"} ELSE {"err"} :
         Answered(rc, {})
  /\ UNCHANGED <<keys, tickets, ready, pending, granted>>

\* ticket_get_common and ticket_has_common only read.
ReadTicket ==
  /\ Free
  /\ \E rc \in {"ok", "err"} : Answered(rc, {})
  /\ UNCHANGED <<keys, tickets, ready, pending, granted>>

-----------------------------------------------------------------------------
\* Closing what was opened; a ticket's short write may be noticed before.
Close ==
  /\ ~Free
  /\ \E s \in Prefixes(pending.data) :
       /\ IF pending.what = "key"
          THEN keys' = [keys EXCEPT ![pending.id] = File(s)] /\ UNCHANGED tickets
          ELSE tickets' = [tickets EXCEPT ![pending.id] = File(s)] /\ UNCHANGED keys
       /\ \E rc \in IF s = pending.data THEN {"ok"} ELSE {"ok", "err"} : Answered(rc, {})
  /\ pending' = NotWriting
  /\ UNCHANGED <<ready, granted>>

\* The console is switched off: a file that was open stays empty.
Kill ==
  /\ pending' = NotWriting /\ ready' = FALSE
  /\ Answered("err", {})
  /\ UNCHANGED <<keys, tickets, granted>>

Init ==
  /\ keys = [i \in Id |-> None] /\ tickets = [i \in Id |-> None]
  /\ ready = FALSE /\ pending = NotWriting /\ granted = {}
  /\ answer = [rc |-> "err", found |-> {}]

Next ==
  \/ TitlekeyInit \/ TitlekeyExit \/ Import \/ Export \/ ListKeys \/ Exists \/ RemoveKey
  \/ InstallTicket \/ ImportTicketKey \/ ListTickets \/ RemoveTicket \/ TicketKey \/ DumpTicket
  \/ ReadTicket
  \/ Close \/ Kill

Spec == Init /\ [][Next]_vars

-----------------------------------------------------------------------------
\* Every key that is exported or listed is one that an import decrypted for
\* that very title, whatever writing was cut short in between.
KeysGenuine ==
  answer.rc = "ok" =>
    \A f \in answer.found : \E g \in granted : g[1] = f[1] /\ g[2] = f[2]
=============================================================================

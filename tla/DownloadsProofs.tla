-------------------------- MODULE DownloadsProofs --------------------------
(***************************************************************************)
(* What module Downloads guarantees for every set of names, any number of  *)
(* entries of the panel and of installs, bodies of any length, any         *)
(* framing, connections lost anywhere and writes that fail unnoticed.      *)
(***************************************************************************)
EXTENDS Downloads, Integers, WellFoundedInduction, TLAPS

-----------------------------------------------------------------------------
(* Lemmas on the panel's slots and on the percentage.                      *)

LEMMA LessIsWellFounded ==
  IsWellFoundedOn({p \in Nat \X Nat : p[1] < p[2]}, Nat)
  BY NatLessThanWellFounded, Zenon DEF OpToRel

\* The first of some slots is one of them.
LEMMA FirstIsOne ==
  ASSUME NEW S, S \subseteq Slot, S # {}
  PROVE  FirstOf(S) \in S
<1>1. S \subseteq Nat
  BY DEF Slot
<1>2. PICK i \in S : \A j \in S : <<j, i>> \notin {p \in Nat \X Nat : p[1] < p[2]}
  BY <1>1, LessIsWellFounded, WFMin
<1>3. \A j \in S : i <= j
  <2> TAKE j \in S
  <2>1. i \in Nat /\ j \in Nat /\ <<j, i>> \notin {p \in Nat \X Nat : p[1] < p[2]}
    BY <1>1, <1>2
  <2>2. ~(j < i)
    BY <2>1
  <2> QED
    BY <2>1, <2>2
<1> QED
  BY <1>3 DEF FirstOf

\* An entry shows a percentage between 0 and 100, and 100 only at the end.
LEMMA PercentBound ==
  ASSUME NEW resp \in Response, NEW d \in Nat, d <= resp.len
  PROVE  /\ PercentOf(resp, d) \in 0 .. 100
         /\ PercentOf(resp, d) = 100 => d = resp.len
<1>1. resp.len \in Nat
  <2>1. resp.len \in 0 .. MaxBody
    BY DEF Response
  <2>2. MaxBody \in Nat
    BY ConstantsAssumption
  <2> QED
    BY <2>1, <2>2
<1>2. CASE resp.framing = "sized" /\ resp.len > 0
  <2> DEFINE q == (d * 100) \div resp.len
  <2>1. q \in Int /\ q * resp.len <= d * 100 /\ d * 100 < (q + 1) * resp.len
    BY <1>1, <1>2
  <2>2. PercentOf(resp, d) = q
    BY <1>2 DEF PercentOf
  <2> HIDE DEF q
  <2>3. q >= 0
    <3>1. SUFFICES ASSUME q < 0 PROVE FALSE
      BY <2>1
    <3>2. q + 1 <= 0
      BY <2>1, <3>1
    <3>3. (q + 1) * resp.len <= 0
      BY <2>1, <3>2, <1>1
    <3>4. d * 100 >= 0
      OBVIOUS
    <3> QED
      BY <2>1, <3>3, <3>4, <1>1
  <2>4. q <= 100
    <3>1. SUFFICES ASSUME q >= 101 PROVE FALSE
      BY <2>1
    <3>2. q * resp.len >= 101 * resp.len
      BY <2>1, <3>1, <1>1
    <3> QED
      BY <2>1, <3>2, <1>1, <1>2
  <2>5. q = 100 => d = resp.len
    BY <2>1, <1>1
  <2> QED
    BY <2>1, <2>2, <2>3, <2>4, <2>5
<1>3. CASE ~(resp.framing = "sized" /\ resp.len > 0)
  BY <1>3 DEF PercentOf
<1> QED
  BY <1>2, <1>3

-----------------------------------------------------------------------------
(* The inductive invariant.  A name is in the panel at most once because   *)
(* a stored label that is whole is a short name's (Labels), which the next *)
(* update finds again; and 100 means the whole body because an entry is    *)
(* at 0 while the headers are read (Progress), whatever an earlier         *)
(* download of the same name left there.                                   *)

Labels == \A i \in Slot : panel[i].label.whole => panel[i].label.name \in Short

Progress ==
  /\ dl.stage = "headers" => /\ dl.done = 0
                             /\ \A i \in Shown(dl.name) : panel[i].pct = 0
  /\ dl.stage \in {"headers", "body"} => dl.done <= dl.resp.len

IInv ==
  /\ TypeOK /\ Labels /\ Progress
  /\ OneEntryEach /\ AreaBacked /\ HundredIsWhole /\ KeptOnlyForRetry

\* The labels an entry can carry.
LEMMA StoredLabels ==
  ASSUME NEW n \in Name
  PROVE  /\ Stored(n) \in Label /\ Whole(n) \in Label
         /\ Stored(n).whole => Stored(n) = Whole(n) /\ n \in Short
         /\ n \in Short => Stored(n) = Whole(n)
         /\ n \notin Short => Stored(n) # NoLabel
         /\ Whole(n).name = n /\ Whole(n).whole
  BY ConstantsAssumption DEF Stored, Whole, Label, Short, NoLabel

\* The slot an update takes: the name's own, a free one, or the first of a
\* panel without a free one.
LEMMA SlotTaken ==
  ASSUME NEW n \in Name
  PROVE  /\ SlotFor(n) \in Slot
         /\ Shown(n) # {} => SlotFor(n) \in Shown(n)
         /\ \/ SlotFor(n) \in Shown(n)
            \/ panel[SlotFor(n)] = Free
            \/ SlotFor(n) = 1 /\ \A i \in Slot : panel[i] # Free
<1>1. 1 \in Slot
  <2>1. Slots \in Nat \ {0}
    BY ConstantsAssumption
  <2> QED
    BY <2>1 DEF Slot
<1>2. CASE Shown(n) # {}
  <2>1. Shown(n) \subseteq Slot
    BY DEF Shown
  <2>2. SlotFor(n) = FirstOf(Shown(n))
    BY <1>2 DEF SlotFor
  <2> QED
    BY <1>2, <2>1, <2>2, FirstIsOne
<1>3. CASE Shown(n) = {}
  <2> DEFINE free == {i \in Slot : panel[i] = Free}
  <2>1. CASE free # {}
    <3>1. SlotFor(n) = FirstOf(free)
      BY <1>3, <2>1 DEF SlotFor
    <3>2. FirstOf(free) \in free
      BY <2>1, FirstIsOne
    <3> QED
      BY <1>3, <3>1, <3>2
  <2>2. CASE free = {}
    <3>1. SlotFor(n) = 1
      BY <1>3, <2>2 DEF SlotFor
    <3> QED
      BY <1>1, <1>3, <2>2, <3>1
  <2> QED
    BY <2>1, <2>2
<1> QED
  BY <1>2, <1>3

\* Whole labels are in the panel once, those of free slots included.
Once == \A i, j \in Slot :
  panel[i].label.whole /\ panel[i].label = panel[j].label => i = j

LEMMA FreeIsNotWhole ==
  ASSUME NEW p \in [Slot -> Entry]
  PROVE  (\A i, j \in Slot :
            p[i].label.whole /\ p[i].label = p[j].label => i = j)
         <=> (\A i, j \in {s \in Slot : p[s] # Free} :
                p[i].label.whole /\ p[i].label = p[j].label => i = j)
<1>1. Free.label.whole = FALSE
  BY DEF Free, NoLabel
<1>2. \A i \in Slot : p[i] = Free => ~p[i].label.whole
  BY <1>1
<1> QED
  BY <1>2

\* What an update of n leaves in the panel and in the task area.
LEMMA PushedPanel ==
  ASSUME IInv, NEW n \in Name, NEW pct \in 0 .. 100, Pushed(n, pct)
  PROVE  /\ panel' \in [Slot -> Entry]
         /\ area' \in Label \cup {NoLabel}
         /\ Labels' /\ Once' /\ AreaBacked'
         /\ n \in Short => Shown(n)' # {}
         /\ \A i \in Shown(n)' : panel'[i].pct = pct
<1> DEFINE s == SlotFor(n)
           e == [label |-> Stored(n), pct |-> pct]
<1>1. s \in Slot /\ (Shown(n) # {} => s \in Shown(n))
  BY SlotTaken
<1>2. panel \in [Slot -> Entry] /\ Labels /\ Once
  BY FreeIsNotWhole DEF IInv, TypeOK, OneEntryEach, Once, Used
<1>3. e \in Entry
  BY StoredLabels DEF Entry
<1>4. panel' = [panel EXCEPT ![s] = e]
  BY DEF Pushed
<1>5. area' = Whole(n)
  BY DEF Pushed
<1> HIDE DEF s
<1>6. panel' \in [Slot -> Entry]
  BY <1>1, <1>2, <1>3, <1>4
<1>7. panel'[s] = e /\ \A i \in Slot \ {s} : panel'[i] = panel[i]
  BY <1>1, <1>2, <1>4
<1>8. Labels'
  BY <1>2, <1>7, StoredLabels DEF Labels
<1>9. \A i \in Slot \ {s} : panel[i].label # Whole(n)
  <2> TAKE i \in Slot \ {s}
  <2>1. SUFFICES ASSUME panel[i].label = Whole(n) PROVE FALSE
    OBVIOUS
  <2>2. i \in Shown(n)
    BY <2>1 DEF Shown
  <2>3. s \in Shown(n)
    BY <2>2, <1>1
  <2>4. panel[s].label = panel[i].label /\ panel[i].label.whole
    BY <2>1, <2>3, StoredLabels DEF Shown
  <2> QED
    BY <1>1, <1>2, <2>4 DEF Once
<1>10. Once'
  <2> SUFFICES ASSUME NEW i \in Slot, NEW j \in Slot, i # j,
                      panel'[i].label.whole, panel'[i].label = panel'[j].label
               PROVE  FALSE
    BY DEF Once
  <2>1. CASE i # s /\ j # s
    BY <2>1, <1>2, <1>7 DEF Once
  <2>2. ASSUME NEW k \in Slot \ {s}, panel'[k].label = Stored(n), Stored(n).whole
        PROVE  FALSE
    BY <2>2, <1>7, <1>9, StoredLabels
  <2>3. e.label = Stored(n)
    OBVIOUS
  <2> QED
    BY <2>1, <2>2, <2>3, <1>7
<1>11. n \in Short => s \in Shown(n)'
  BY <1>1, <1>7, StoredLabels DEF Shown
<1>12. AreaBacked'
  BY <1>5, <1>11, StoredLabels DEF AreaBacked, Shown, NoLabel
<1>13. \A i \in Shown(n)' : panel'[i].pct = pct
  <2> TAKE i \in Shown(n)'
  <2>1. i \in Slot /\ panel'[i].label = Whole(n)
    BY DEF Shown
  <2>2. i = s
    BY <2>1, <1>7, <1>9
  <2> QED
    BY <2>2, <1>7
<1>14. area' \in Label \cup {NoLabel}
  BY <1>5, StoredLabels
<1> QED
  BY <1>6, <1>8, <1>10, <1>11, <1>12, <1>13, <1>14

\* What the removal of n leaves.
LEMMA RemovedPanel ==
  ASSUME IInv, NEW n \in Name, RemovedAndCleared(n)
  PROVE  /\ panel' \in [Slot -> Entry]
         /\ area' \in Label \cup {NoLabel}
         /\ Labels' /\ Once' /\ AreaBacked'
         /\ Shown(n)' = {}
<1>1. panel \in [Slot -> Entry] /\ Labels /\ Once
  BY FreeIsNotWhole DEF IInv, TypeOK, OneEntryEach, Once, Used
<1>2. area' = NoLabel
  BY DEF RemovedAndCleared
<1>3. AreaBacked'
  BY <1>2 DEF AreaBacked
<1>4. CASE Shown(n) = {}
  BY <1>1, <1>2, <1>3, <1>4 DEF RemovedAndCleared, Labels, Once, Shown
<1>5. CASE Shown(n) # {}
  <2> DEFINE s == FirstOf(Shown(n))
  <2>1. s \in Shown(n) /\ s \in Slot
    <3>1. Shown(n) \subseteq Slot
      BY DEF Shown
    <3> QED
      BY <1>5, <3>1, FirstIsOne
  <2>2. panel' = [panel EXCEPT ![s] = Free]
    BY <1>5 DEF RemovedAndCleared
  <2> HIDE DEF s
  <2>3. panel'[s] = Free /\ \A i \in Slot \ {s} : panel'[i] = panel[i]
    BY <1>1, <2>1, <2>2
  <2>4. panel' \in [Slot -> Entry]
    BY <1>1, <2>1, <2>2 DEF Entry
  <2>5. ~Free.label.whole
    BY DEF Free, NoLabel
  <2>6. Labels' /\ Once'
    BY <1>1, <2>3, <2>5 DEF Labels, Once
  <2>7. Shown(n)' = {}
    <3> SUFFICES ASSUME NEW i \in Slot, panel'[i].label = Whole(n) PROVE FALSE
      BY DEF Shown
    <3>1. i # s
      BY <2>3, <2>5, StoredLabels
    <3>2. panel[i].label = Whole(n) /\ panel[s].label = Whole(n)
      BY <2>1, <2>3, <3>1 DEF Shown
    <3> QED
      BY <1>1, <2>1, <3>1, <3>2, StoredLabels DEF Once
  <2> QED
    BY <1>2, <1>3, <2>4, <2>6, <2>7
<1> QED
  BY <1>4, <1>5

LEMMA InitIInv == Init => IInv
<1> SUFFICES ASSUME Init PROVE IInv
  OBVIOUS
<1> USE DEF Init
<1>1. panel \in [Slot -> Entry] /\ \A i \in Slot : panel[i] = Free
  BY DEF Entry
<1>2. Absent \in [there : BOOLEAN, data : Seq(Content)]
  BY DEF Absent
<1>3. TypeOK
  <2>1. MaxStarts \in Nat
    BY ConstantsAssumption
  <2> QED
    BY <1>1, <1>2, <2>1 DEF TypeOK
<1>4. dl.stage = "idle"
  BY DEF Idle
<1>5. Labels /\ Progress
  BY <1>1, <1>4 DEF Labels, Progress, Free, NoLabel
<1>6. OneEntryEach
  BY <1>1, <1>4 DEF OneEntryEach, Used
<1>7. AreaBacked /\ HundredIsWhole
  BY DEF AreaBacked, HundredIsWhole
<1>8. KeptOnlyForRetry
  BY DEF KeptOnlyForRetry, Absent
<1> QED
  BY <1>3, <1>5, <1>6, <1>7, <1>8 DEF IInv

-----------------------------------------------------------------------------
(* The steps.                                                              *)

\* An install in progress has all its fields.
LEMMA DownloadFields ==
  ASSUME TypeOK, dl.stage # "idle"
  PROVE  /\ dl \in Download /\ dl # Idle
         /\ dl.stage \in {"headers", "body", "install"}
         /\ dl.name \in Name /\ dl.resp \in Response
         /\ dl.got \in Nat /\ dl.done \in Nat /\ dl.resp.len \in Nat
<1>1. dl # Idle
  BY DEF Idle
<1>2. dl \in Download
  BY <1>1 DEF TypeOK
<1>3. dl.resp \in Response
  BY <1>2 DEF Download
<1>4. MaxBody \in Nat
  BY ConstantsAssumption
<1>5. dl.resp.len \in 0 .. MaxBody
  BY <1>3 DEF Response
<1> QED
  BY <1>1, <1>2, <1>3, <1>4, <1>5 DEF Download

LEMMA IdleStage == Idle.stage = "idle"
  BY DEF Idle

\* A failed install leaves nothing on the card, and changes nothing shown.
LEMMA FailedKeepsIInv ==
  ASSUME IInv, NEW n \in Name, Failed(n), dl = Idle \/ dl.name = n,
         UNCHANGED <<panel, area>>, starts' \in 0 .. MaxStarts
  PROVE  IInv'
<1> USE DEF IInv, Failed
<1>1. Absent \in [there : BOOLEAN, data : Seq(Content)] /\ ~Absent.there
  BY DEF Absent
<1>2. TypeOK'
  BY <1>1 DEF TypeOK
<1>3. Labels' /\ AreaBacked'
  BY DEF Labels, AreaBacked, Shown
<1>4. Progress' /\ OneEntryEach' /\ HundredIsWhole'
  BY IdleStage DEF Progress, OneEntryEach, HundredIsWhole, Used
<1>5. KeptOnlyForRetry'
  BY <1>1, IdleStage DEF KeptOnlyForRetry, TypeOK
<1> QED
  BY <1>2, <1>3, <1>4, <1>5

LEMMA StartKeepsIInv ==
  ASSUME IInv, NEW n \in Name, NEW resp \in Response, Start(n, resp)
  PROVE  IInv'
<1> USE DEF IInv, Start
<1>1. Pushed(n, 0) /\ 0 \in 0 .. 100
  OBVIOUS
<1>2. /\ panel' \in [Slot -> Entry] /\ area' \in Label \cup {NoLabel}
      /\ Labels' /\ Once' /\ AreaBacked'
      /\ n \in Short => Shown(n)' # {}
      /\ \A i \in Shown(n)' : panel'[i].pct = 0
  BY <1>1, PushedPanel
<1>3. /\ dl' \in Download /\ dl'.stage = "headers" /\ dl'.name = n
      /\ dl'.resp = resp /\ dl'.done = 0 /\ dl' # Idle
  BY IdleStage DEF Download
<1>4. Holding(<<>>) \in [there : BOOLEAN, data : Seq(Content)]
  BY DEF Holding
<1>5. resp.len \in Nat
  <2>1. resp.len \in 0 .. MaxBody /\ MaxBody \in Nat
    BY ConstantsAssumption DEF Response
  <2> QED
    BY <2>1
<1>6. starts' \in 0 .. MaxStarts
  <2>1. MaxStarts \in Nat
    BY ConstantsAssumption
  <2> QED
    BY <2>1 DEF TypeOK
<1>7. TypeOK'
  BY <1>2, <1>3, <1>4, <1>6 DEF TypeOK
<1>8. Progress' /\ HundredIsWhole'
  BY <1>2, <1>3, <1>5 DEF Progress, HundredIsWhole, Shown
<1>9. OneEntryEach'
  <2>1. (\A i, j \in Used :
           panel[i].label.whole /\ panel[i].label = panel[j].label => i = j)'
    BY <1>2, FreeIsNotWhole DEF Once, Used
  <2>2. dl'.name \in Short => Shown(dl.name)' # {}
    BY <1>2, <1>3 DEF Shown
  <2> QED
    BY <1>2, <2>1, <2>2 DEF OneEntryEach
<1>10. KeptOnlyForRetry'
  BY <1>3 DEF KeptOnlyForRetry, TypeOK
<1> QED
  BY <1>2, <1>7, <1>8, <1>9, <1>10

\* What a response's wire holds.
LEMMA WireContent ==
  ASSUME NEW resp \in Response
  PROVE  /\ Wire(resp) \in Seq(Content)
         /\ resp.framing # "chunked" => /\ Wire(resp) = Body(resp.len)
                                        /\ Len(Wire(resp)) = resp.len
<1>1. resp.len \in Nat
  <2>1. resp.len \in 0 .. MaxBody /\ MaxBody \in Nat
    BY ConstantsAssumption DEF Response
  <2> QED
    BY <2>1
<1>2. \A i \in Nat : Unit(i) \in Content /\ Framed(i) \in Content
  BY DEF Unit, Framed, Content
<1>3. Body(resp.len) \in Seq(Content) /\ Len(Body(resp.len)) = resp.len
  BY <1>1, <1>2 DEF Body
<1>4. [i \in 1 .. resp.len + 1 |-> Framed(i)] \in Seq(Content)
  BY <1>1, <1>2
<1> QED
  BY <1>3, <1>4 DEF Wire

\* What lands of units is units, and all of it lands if nothing fails.
LEMMA LandedPart ==
  ASSUME NEW data \in Seq(Content), NEW part \in Landed(data)
  PROVE  /\ part \in Seq(Content)
         /\ Holding(part) \in [there : BOOLEAN, data : Seq(Content)]
         /\ Faults = FALSE => part = data
<1>0. Len(data) \in 0 .. Len(data)
  <2>1. Len(data) \in Nat
    OBVIOUS
  <2> QED
    BY <2>1
<1>1. PICK j \in 0 .. Len(data) : part = SubSeq(data, 1, j)
  <2>1. CASE Faults
    BY <2>1, Zenon DEF Landed
  <2>2. CASE ~Faults
    BY <2>2, <1>0, Zenon DEF Landed
  <2> QED
    BY <2>1, <2>2
<1>2. SubSeq(data, 1, j) \in Seq(Content) /\ SubSeq(data, 1, Len(data)) = data
  OBVIOUS
<1>3. part \in Seq(Content)
  BY <1>1, <1>2, Zenon
<1>4. ASSUME Faults = FALSE PROVE part = data
  <2>1. part \in {SubSeq(data, 1, i) : i \in {Len(data)}}
    BY <1>4, Zenon DEF Landed
  <2> QED
    BY <1>2, <2>1, Zenon
<1> QED
  BY <1>3, <1>4, Zenon DEF Holding

LEMMA HeadersDoneKeepsIInv ==
  ASSUME IInv, NEW k \in Nat, HeadersDone(k)
  PROVE  IInv'
<1> USE DEF IInv, HeadersDone
<1>1. /\ dl \in Download /\ dl # Idle /\ dl.name \in Name
      /\ dl.resp \in Response /\ dl.resp.len \in Nat /\ dl.done \in Nat
  BY DownloadFields
<1>2. /\ Wire(dl.resp) \in Seq(Content)
      /\ dl.resp.framing # "chunked" => k <= dl.resp.len
  BY <1>1, WireContent
<1>3. SubSeq(Wire(dl.resp), 1, k) \in Seq(Content)
  BY <1>2
<1>4. /\ dl' \in Download /\ dl'.stage = "body" /\ dl'.name = dl.name
      /\ dl'.resp = dl.resp /\ dl'.done <= dl.resp.len /\ dl' # Idle
  <2> DEFINE d == IF dl.resp.framing = "chunked" THEN 0 ELSE k
  <2>1. /\ dl' = [dl EXCEPT !.stage = "body", !.got = k, !.done = d]
        /\ d \in Nat /\ d <= dl.resp.len
    BY <1>1, <1>2
  <2> HIDE DEF HeadersDone, d
  <2> QED
    BY <1>1, <2>1, IdleStage DEF Download
<1>5. TypeOK'
  <2> HIDE DEF HeadersDone
  <2>1. PICK data \in Landed(SubSeq(Wire(dl.resp), 1, k)) :
          tmp' = [tmp EXCEPT ![dl.name] = Holding(data)]
    BY DEF HeadersDone
  <2>2. Holding(data) \in [there : BOOLEAN, data : Seq(Content)]
    BY <1>3, LandedPart
  <2>3. tmp' \in [Name -> [there : BOOLEAN, data : Seq(Content)]]
    BY <2>1, <2>2 DEF TypeOK
  <2>4. UNCHANGED <<panel, area, result, starts>>
    BY DEF HeadersDone
  <2> QED
    BY <1>4, <2>3, <2>4 DEF TypeOK
<1>6. Labels' /\ AreaBacked'
  BY DEF Labels, AreaBacked, Shown
<1>7. \A i \in Shown(dl.name) : panel[i].pct = 0
  BY DEF Progress
<1>8. Progress' /\ HundredIsWhole'
  BY <1>4, <1>7 DEF Progress, HundredIsWhole, Shown
<1>9. OneEntryEach'
  BY <1>4 DEF OneEntryEach, Used, Shown
<1>10. KeptOnlyForRetry'
  BY <1>1, <1>4 DEF KeptOnlyForRetry, TypeOK
<1> QED
  BY <1>5, <1>6, <1>8, <1>9, <1>10

LEMMA UnitKeepsIInv ==
  ASSUME IInv, UnitWritten
  PROVE  IInv'
<1> USE DEF IInv
<1>1. /\ dl \in Download /\ dl # Idle /\ dl.stage = "body"
      /\ dl.resp \in Response /\ dl.resp.len \in Nat /\ dl.done \in Nat
  BY DownloadFields DEF UnitWritten, Receiving
<1>n. PICK n \in Name : n = dl.name
  BY DownloadFields DEF UnitWritten, Receiving
<1>2. dl.done + 1 <= dl.resp.len
  BY <1>1 DEF UnitWritten
<1>3. PICK pct \in 0 .. 100 : /\ pct = PercentOf(dl.resp, dl.done + 1)
                              /\ pct = 100 => dl.done + 1 = dl.resp.len
  BY <1>1, <1>2, PercentBound
<1>4. Pushed(n, pct)
  BY <1>n, <1>3 DEF UnitWritten
<1>p. PICK piece \in Landed(<<Unit(dl.done + 1)>>) :
        tmp' = [tmp EXCEPT ![n] = Holding(@.data \o piece)]
  BY <1>n DEF UnitWritten
<1>t. /\ dl' = [dl EXCEPT !.done = @ + 1]
      /\ UNCHANGED <<result, starts>>
  BY <1>n DEF UnitWritten
<1>5. /\ panel' \in [Slot -> Entry] /\ area' \in Label \cup {NoLabel}
      /\ Labels' /\ Once' /\ AreaBacked'
      /\ n \in Short => Shown(n)' # {}
      /\ \A i \in Shown(n)' : panel'[i].pct = pct
  BY <1>4, PushedPanel
<1>6. /\ dl' \in Download /\ dl'.stage = "body" /\ dl'.name = n
      /\ dl'.resp = dl.resp /\ dl'.done = dl.done + 1 /\ dl' # Idle
  BY <1>1, <1>n, <1>t, IdleStage DEF Download
<1>7. tmp' \in [Name -> [there : BOOLEAN, data : Seq(Content)]]
  <2>1. <<Unit(dl.done + 1)>> \in Seq(Content)
    BY <1>1 DEF Unit, Content
  <2>2. piece \in Seq(Content)
    BY <2>1, <1>p, LandedPart
  <2>3. tmp[n].data \in Seq(Content)
    BY DEF TypeOK
  <2>4. tmp[n].data \o piece \in Seq(Content)
    BY <2>2, <2>3
  <2>5. Holding(tmp[n].data \o piece) \in [there : BOOLEAN, data : Seq(Content)]
    BY <2>4 DEF Holding
  <2> QED
    BY <2>5, <1>p DEF TypeOK
<1>8. TypeOK'
  BY <1>5, <1>6, <1>7, <1>t DEF TypeOK
<1>9. Progress' /\ HundredIsWhole'
  <2>1. Shown(dl.name)' = Shown(n)'
    BY <1>6 DEF Shown
  <2> QED
    BY <1>2, <1>3, <1>5, <1>6, <2>1 DEF Progress, HundredIsWhole
<1>10. OneEntryEach'
  <2>1. (\A i, j \in Used :
           panel[i].label.whole /\ panel[i].label = panel[j].label => i = j)'
    BY <1>5, FreeIsNotWhole DEF Once, Used
  <2>2. dl'.name \in Short => Shown(dl.name)' # {}
    BY <1>5, <1>6 DEF Shown
  <2> QED
    BY <1>5, <2>1, <2>2 DEF OneEntryEach
<1>11. KeptOnlyForRetry'
  <2>1. \A m \in Name \ {n} : tmp'[m] = tmp[m]
    BY <1>p DEF TypeOK
  <2> QED
    BY <1>6, <1>t, <2>1 DEF KeptOnlyForRetry
<1> QED
  BY <1>5, <1>8, <1>9, <1>10, <1>11

\* The download has ended well: an unframed body's entry is removed.
LEMMA DoneKeepsIInv ==
  ASSUME IInv, ChunkedDone \/ PlainDone
  PROVE  IInv'
<1> USE DEF IInv, Receiving
<1>1. /\ dl.stage = "body" /\ dl' = [dl EXCEPT !.stage = "install"]
      /\ UNCHANGED <<result, starts>>
  BY DEF ChunkedDone, PlainDone
<1>2. /\ dl \in Download /\ dl # Idle /\ dl.name \in Name
      /\ dl.resp \in Response /\ dl.resp.len \in Nat /\ dl.done \in Nat
  BY <1>1, DownloadFields
<1>3. /\ dl' \in Download /\ dl'.stage = "install" /\ dl'.name = dl.name
      /\ dl'.resp = dl.resp /\ dl'.done = dl.done /\ dl' # Idle
  BY <1>1, <1>2, IdleStage DEF Download
<1>t. PICK data \in Landed(tmp[dl.name].data) :
        tmp' = [tmp EXCEPT ![dl.name] = Holding(data)]
  BY DEF ChunkedDone, PlainDone, Closed
<1>f. tmp' \in [Name -> [there : BOOLEAN, data : Seq(Content)]]
  <2>1. tmp[dl.name].data \in Seq(Content)
    BY <1>2 DEF TypeOK
  <2>2. Holding(data) \in [there : BOOLEAN, data : Seq(Content)]
    BY <2>1, LandedPart
  <2> QED
    BY <2>2, <1>t DEF TypeOK
<1>4. KeptOnlyForRetry' /\ Progress'
  <2>1. \A m \in Name : m # dl.name => tmp'[m] = tmp[m]
    BY <1>t DEF TypeOK
  <2> QED
    BY <1>1, <1>3, <2>1 DEF KeptOnlyForRetry, Progress
<1>5. CASE ChunkedDone
  <2>1. UNCHANGED <<panel, area>> /\ dl.done = dl.resp.len
    BY <1>5 DEF ChunkedDone
  <2>2. TypeOK' /\ Labels' /\ AreaBacked'
    BY <1>1, <1>3, <1>f, <2>1 DEF TypeOK, Labels, AreaBacked, Shown
  <2>3. OneEntryEach' /\ HundredIsWhole'
    BY <1>3, <2>1 DEF OneEntryEach, HundredIsWhole, Used, Shown
  <2> QED
    BY <1>4, <2>2, <2>3
<1>6. CASE PlainDone
  <2>1. /\ panel' \in [Slot -> Entry] /\ area' \in Label \cup {NoLabel}
        /\ Labels' /\ Once' /\ AreaBacked' /\ Shown(dl.name)' = {}
    <3>1. PICK n \in Name : n = dl.name
      BY <1>2
    <3>2. RemovedAndCleared(n)
      BY <1>6, <3>1 DEF PlainDone
    <3>3. /\ panel' \in [Slot -> Entry] /\ area' \in Label \cup {NoLabel}
          /\ Labels' /\ Once' /\ AreaBacked' /\ Shown(n)' = {}
      BY <3>2, RemovedPanel
    <3> QED
      BY <1>3, <3>1, <3>3 DEF Shown
  <2>2. TypeOK'
    BY <1>1, <1>3, <1>f, <2>1 DEF TypeOK
  <2>3. (\A i, j \in Used :
           panel[i].label.whole /\ panel[i].label = panel[j].label => i = j)'
    BY <2>1, FreeIsNotWhole DEF Once, Used
  <2>4. OneEntryEach' /\ HundredIsWhole'
    BY <1>3, <2>1, <2>3 DEF OneEntryEach, HundredIsWhole
  <2> QED
    BY <1>4, <2>1, <2>2, <2>4
<1> QED
  BY <1>5, <1>6

\* The installation has ended: it succeeded and the file is gone, or not.
LEMMA InstallKeepsIInv ==
  ASSUME IInv, Installed \/ InstallFails
  PROVE  IInv'
<1> USE DEF IInv
<1>1. dl.stage = "install" /\ dl' = Idle /\ UNCHANGED <<panel, area, starts>>
  BY DEF Installed, InstallFails
<1>2. dl.name \in Name
  BY <1>1, DownloadFields
<1>3. Absent \in [there : BOOLEAN, data : Seq(Content)] /\ ~Absent.there
  BY DEF Absent
<1>4. TypeOK'
  BY <1>1, <1>3 DEF TypeOK, Installed, InstallFails
<1>5. Labels' /\ AreaBacked'
  BY <1>1 DEF Labels, AreaBacked, Shown
<1>6. Progress' /\ OneEntryEach' /\ HundredIsWhole'
  BY <1>1, IdleStage DEF Progress, OneEntryEach, HundredIsWhole, Used
<1>7. KeptOnlyForRetry'
  BY <1>1, <1>2, <1>3 DEF KeptOnlyForRetry, TypeOK, Installed, InstallFails
<1> QED
  BY <1>4, <1>5, <1>6, <1>7

LEMMA StepIInv == IInv /\ [Next]_vars => IInv'
<1> SUFFICES ASSUME IInv, [Next]_vars PROVE IInv'
  OBVIOUS
<1>1. CASE \E n \in Name : StartFails(n)
  <2>1. PICK n \in Name : StartFails(n)
    BY <1>1
  <2>2. starts' \in 0 .. MaxStarts
    <3>1. MaxStarts \in Nat
      BY ConstantsAssumption
    <3> QED
      BY <2>1, <3>1 DEF StartFails, IInv, TypeOK
  <2> QED
    BY <2>1, <2>2, FailedKeepsIInv DEF StartFails
<1>2. CASE \E n \in Name, resp \in Response : Start(n, resp)
  BY <1>2, StartKeepsIInv
<1>3. CASE HeadersLost \/ ChunkLost
  <2>1. dl.stage \in {"headers", "body"} /\ Failed(dl.name)
        /\ UNCHANGED <<panel, area, starts>>
    BY <1>3 DEF HeadersLost, ChunkLost, Receiving
  <2>2. dl.name \in Name /\ starts \in 0 .. MaxStarts
    BY <2>1, DownloadFields DEF IInv, TypeOK
  <2> QED
    BY <2>1, <2>2, FailedKeepsIInv
<1>4. CASE \E k \in 0 .. MaxBody + 1 : HeadersDone(k)
  <2>1. MaxBody \in Nat
    BY ConstantsAssumption
  <2> QED
    BY <1>4, <2>1, HeadersDoneKeepsIInv
<1>5. CASE UnitWritten
  BY <1>5, UnitKeepsIInv
<1>6. CASE ChunkedDone \/ PlainDone
  BY <1>6, DoneKeepsIInv
<1>7. CASE Installed \/ InstallFails
  BY <1>7, InstallKeepsIInv
<1>8. CASE UNCHANGED vars
  BY <1>8 DEF vars, IInv, TypeOK, Labels, Progress, OneEntryEach, AreaBacked,
              HundredIsWhole, KeptOnlyForRetry, Used, Shown
<1> QED
  BY <1>1, <1>2, <1>3, <1>4, <1>5, <1>6, <1>7, <1>8 DEF Next

LEMMA InductiveInvariant == Spec => []IInv
  BY InitIInv, StepIInv, PTL DEF Spec

\* The panel, the task area and the install in progress always have their
\* types, progress between 0 and 100 among them (net/downloader.c:442).
THEOREM TypeCorrect == Spec => []TypeOK
<1>1. IInv => TypeOK
  BY DEF IInv
<1> QED
  BY <1>1, InductiveInvariant, PTL

\* The running download is in the panel, once (ui/ui_data.c:89).
THEOREM OneEntryEachHolds == Spec => []OneEntryEach
<1>1. IInv => OneEntryEach
  BY DEF IInv
<1> QED
  BY <1>1, InductiveInvariant, PTL

\* The task area names no download the panel has dropped (ui/ui_data.c:104).
THEOREM AreaBackedHolds == Spec => []AreaBacked
<1>1. IInv => AreaBacked
  BY DEF IInv
<1> QED
  BY <1>1, InductiveInvariant, PTL

\* An entry at 100 is that of a body received whole (net/downloader.c:442).
THEOREM HundredIsWholeHolds == Spec => []HundredIsWhole
<1>1. IInv => HundredIsWhole
  BY DEF IInv
<1> QED
  BY <1>1, InductiveInvariant, PTL

\* A temporary file is left only by an installation that failed
\* (game/nsp_manager.c:170).
THEOREM KeptOnlyForRetryHolds == Spec => []KeptOnlyForRetry
<1>1. IInv => KeptOnlyForRetry
  BY DEF IInv
<1> QED
  BY <1>1, InductiveInvariant, PTL

-----------------------------------------------------------------------------
(* An update changes the entry it takes and no other, and takes another    *)
(* download's only when all are in use.                                    *)

Touched(i) ==
  panel'[i] # panel[i] /\ panel[i] # Free =>
    \/ dl # Idle /\ panel[i].label = Whole(dl.name)
    \/ dl' # Idle /\ panel[i].label = Whole(dl'.name)
    \/ i = 1 /\ Used = Slot

LEMMA PushedTouches ==
  ASSUME TypeOK, NEW n \in Name, NEW pct, Pushed(n, pct),
         NEW i \in Slot, panel'[i] # panel[i], panel[i] # Free
  PROVE  panel[i].label = Whole(n) \/ (i = 1 /\ Used = Slot)
<1>1. i = SlotFor(n)
  BY SlotTaken DEF Pushed, TypeOK
<1> QED
  BY <1>1, SlotTaken DEF Shown, Used

LEMMA RemovedTouches ==
  ASSUME TypeOK, NEW n \in Name, RemovedAndCleared(n),
         NEW i \in Slot, panel'[i] # panel[i]
  PROVE  panel[i].label = Whole(n)
<1>1. Shown(n) \subseteq Slot
  BY DEF Shown
<1>2. Shown(n) # {} /\ panel' = [panel EXCEPT ![FirstOf(Shown(n))] = Free]
  BY DEF RemovedAndCleared
<1>3. FirstOf(Shown(n)) \in Shown(n)
  BY <1>1, <1>2, FirstIsOne
<1>4. i = FirstOf(Shown(n))
  BY <1>1, <1>2, <1>3 DEF TypeOK
<1> QED
  BY <1>3, <1>4 DEF Shown

LEMMA StepTouches ==
  ASSUME TypeOK, Next, NEW i \in Slot
  PROVE  Touched(i)
<1>1. CASE \E n \in Name, resp \in Response : Start(n, resp)
  <2>1. PICK n \in Name, resp \in Response : Start(n, resp)
    BY <1>1
  <2>2. Pushed(n, 0) /\ dl'.stage = "headers" /\ dl'.name = n
    BY <2>1 DEF Start
  <2> QED
    BY <2>2, PushedTouches, IdleStage DEF Touched
<1>2. CASE UnitWritten
  <2>1. PICK n \in Name : n = dl.name
    BY <1>2, DownloadFields DEF UnitWritten, Receiving
  <2>2. PICK pct : Pushed(n, pct)
    BY <1>2, <2>1 DEF UnitWritten
  <2>3. dl # Idle
    BY <1>2, IdleStage DEF UnitWritten, Receiving
  <2> QED
    BY <2>1, <2>2, <2>3, PushedTouches DEF Touched
<1>3. CASE PlainDone
  <2>1. PICK n \in Name : n = dl.name
    BY <1>3, DownloadFields DEF PlainDone, Receiving
  <2>2. RemovedAndCleared(n) /\ dl # Idle
    BY <1>3, <2>1, IdleStage DEF PlainDone, Receiving
  <2> QED
    BY <2>1, <2>2, RemovedTouches DEF Touched
<1>4. CASE UNCHANGED panel
  BY <1>4 DEF Touched
<1> QED
  BY <1>1, <1>2, <1>3, <1>4
  DEF Next, StartFails, HeadersLost, HeadersDone, ChunkLost, ChunkedDone,
      Installed, InstallFails

\* Downloads leave each other's entries alone until the panel is full
\* (ui/ui_data.c:99).
THEOREM OthersUntouchedHolds == Spec => OthersUntouched
<1>1. TypeOK /\ [Next]_vars => [\A i \in Slot : Touched(i)]_vars
  BY StepTouches
<1>2. [\A i \in Slot : Touched(i)]_vars =>
      [\A i \in Slot :
         panel'[i] # panel[i] /\ panel[i] # Free =>
           \/ dl # Idle /\ panel[i].label = Whole(dl.name)
           \/ dl' # Idle /\ panel[i].label = Whole(dl'.name)
           \/ i = 1 /\ Used = Slot]_vars
  BY DEF Touched
<1> QED
  BY <1>1, <1>2, TypeCorrect, PTL DEF Spec, OthersUntouched

-----------------------------------------------------------------------------
(* What a download that returned 0 left in the file.  The run              *)
(* Downloads_truncated shows that it need not be the whole body; here is   *)
(* what excludes that: no connection is lost, no body is chunked, and the  *)
(* writes and the close of the file succeed.                               *)

WrittenSoFar ==
  dl.stage \in {"body", "install"} =>
    /\ tmp[dl.name] = Holding(Body(dl.done))
    /\ dl.stage = "install" => dl.done = dl.resp.len

\* Of the first units of a body the first k are the body of k units.
LEMMA BodyBegins ==
  ASSUME NEW d \in Nat, NEW k \in Nat, k <= d
  PROVE  SubSeq(Body(d), 1, k) = Body(k)
  BY DEF Body

\* Written units follow one another.
LEMMA BodyGrows ==
  ASSUME NEW d \in Nat
  PROVE  Body(d) \o <<Unit(d + 1)>> = Body(d + 1)
  BY DEF Body

LEMMA WrittenStep ==
  ASSUME Drops = FALSE, Faults = FALSE, "chunked" \notin Framings,
         IInv, WrittenSoFar, Next
  PROVE  WrittenSoFar'
<1>1. dl.stage # "idle" => /\ dl \in Download /\ dl.resp \in Response
                           /\ dl.name \in Name
                           /\ dl.resp.framing # "chunked"
                           /\ dl.resp.len \in Nat /\ dl.done \in Nat
  BY DownloadFields DEF IInv, Response
<1>b. \A d \in Nat : Body(d) \in Seq(Content) /\ <<Unit(d)>> \in Seq(Content)
  BY DEF Body, Unit, Content
<1>2. DOMAIN tmp = Name
  BY DEF IInv, TypeOK
<1>3. CASE dl' = Idle
  BY <1>3, IdleStage DEF WrittenSoFar
<1>4. CASE \E n \in Name, resp \in Response : Start(n, resp)
  BY <1>4 DEF Start, WrittenSoFar
<1>5. CASE \E k \in 0 .. MaxBody + 1 : HeadersDone(k)
  <2>0. MaxBody \in Nat
    BY ConstantsAssumption
  <2>1. PICK k \in Nat : HeadersDone(k)
    BY <1>5, <2>0
  <2>2. dl.stage = "headers" /\ k <= dl.resp.len
        /\ Wire(dl.resp) = Body(dl.resp.len)
    BY <1>1, <2>1, WireContent DEF HeadersDone
  <2>p. PICK data \in Landed(SubSeq(Wire(dl.resp), 1, k)) :
          tmp' = [tmp EXCEPT ![dl.name] = Holding(data)]
    BY <2>1 DEF HeadersDone
  <2>q. SubSeq(Wire(dl.resp), 1, k) = Body(k)
    BY <1>1, <2>1, <2>2, BodyBegins
  <2>r. Body(k) \in Seq(Content) /\ data \in Landed(Body(k))
    BY <1>b, <2>p, <2>q
  <2>s. data = Body(k)
    BY <2>r, LandedPart
  <2>3. tmp' = [tmp EXCEPT ![dl.name] = Holding(Body(k))]
    BY <2>p, <2>s
  <2>4. dl'.stage = "body" /\ dl'.name = dl.name /\ dl'.done = k
    BY <1>1, <2>1, <2>2 DEF HeadersDone, Download
  <2> QED
    BY <1>1, <1>2, <2>2, <2>3, <2>4 DEF WrittenSoFar
<1>6. CASE UnitWritten
  <2>1. dl.stage = "body" /\ tmp[dl.name] = Holding(Body(dl.done))
    BY <1>6 DEF UnitWritten, Receiving, WrittenSoFar
  <2>p. PICK piece \in Landed(<<Unit(dl.done + 1)>>) :
          tmp' = [tmp EXCEPT ![dl.name] = Holding(@.data \o piece)]
    BY <1>6 DEF UnitWritten
  <2>n. dl.done + 1 \in Nat
    BY <1>1, <2>1
  <2>m. <<Unit(dl.done + 1)>> \in Seq(Content)
    BY <1>b, <2>n
  <2>q. piece = <<Unit(dl.done + 1)>>
    BY <2>m, <2>p, LandedPart
  <2>2. tmp[dl.name].data = Body(dl.done)
    BY <2>1 DEF Holding
  <2>3. tmp'[dl.name] = Holding(Body(dl.done + 1))
    BY <1>1, <1>2, <2>1, <2>2, <2>p, <2>q, BodyGrows
  <2>4. dl'.stage = "body" /\ dl'.name = dl.name /\ dl'.done = dl.done + 1
    BY <1>1, <1>6, <2>1 DEF UnitWritten, Download
  <2> QED
    BY <2>3, <2>4 DEF WrittenSoFar
<1>7. CASE PlainDone
  <2>1. /\ dl.stage = "body" /\ dl.done = dl.resp.len
        /\ dl' = [dl EXCEPT !.stage = "install"]
    BY <1>7 DEF PlainDone, Receiving
  <2>p. PICK data \in Landed(tmp[dl.name].data) :
          tmp' = [tmp EXCEPT ![dl.name] = Holding(data)]
    BY <1>7 DEF PlainDone, Closed
  <2>q. tmp[dl.name] = Holding(Body(dl.done))
    BY <2>1 DEF WrittenSoFar
  <2>r. tmp[dl.name].data = Body(dl.done)
    BY <2>q DEF Holding
  <2>s. data = Body(dl.done)
    BY <1>1, <1>b, <2>1, <2>p, <2>r, LandedPart
  <2>t. tmp'[dl.name] = Holding(Body(dl.done))
    BY <1>1, <1>2, <2>1, <2>p, <2>s
  <2>2. dl'.name = dl.name /\ dl'.done = dl.done /\ dl'.resp = dl.resp
    BY <1>1, <2>1 DEF Download
  <2> QED
    BY <2>1, <2>2, <2>t DEF WrittenSoFar
<1>8. ~ChunkedDone /\ ~ChunkLost
  BY <1>1 DEF ChunkedDone, ChunkLost, Receiving
<1> QED
  BY <1>3, <1>4, <1>5, <1>6, <1>7, <1>8
  DEF Next, StartFails, HeadersLost, Failed, Installed, InstallFails

\* A download that returned 0 left the whole body, as the header says
\* (net/downloader.h:16), if no connection is lost, no body is chunked and
\* every fwrite and fclose of the file does its work: three conditions
\* download_url_to_file itself does not check.
THEOREM ZeroMeansWholeHolds ==
  ASSUME Drops = FALSE, Faults = FALSE, "chunked" \notin Framings
  PROVE  Spec => []ZeroMeansWhole
<1>1. Init => WrittenSoFar
  BY IdleStage DEF Init, WrittenSoFar
<1>2. IInv /\ WrittenSoFar /\ [Next]_vars => WrittenSoFar'
  <2>1. ASSUME WrittenSoFar, UNCHANGED vars PROVE WrittenSoFar'
    BY <2>1 DEF WrittenSoFar, vars
  <2> QED
    BY <2>1, WrittenStep
<1>3. WrittenSoFar => ZeroMeansWhole
  BY DEF WrittenSoFar, ZeroMeansWhole
<1> QED
  BY <1>1, <1>2, <1>3, InductiveInvariant, PTL DEF Spec
=============================================================================

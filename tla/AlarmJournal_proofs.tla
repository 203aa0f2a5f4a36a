------------------------ MODULE AlarmJournal_proofs -------------------------
(***************************************************************************)
(* What holds of a rotative directory for every period, latency, horizon   *)
(* and number of crashes: its variables keep their types, the timer        *)
(* handler never sleeps longer on the UI thread than it was called early,  *)
(* rotations go forward and are not more than a period late.  Why a        *)
(* rotative database needs no lock as long as rotations are rare: a        *)
(* statement is on the employee or, after one rotation, on the previous    *)
(* employee, and rotations delete neither before the next one.             *)
(*                                                                         *)
(* And of the recorder of alarms that uses such a database, in whatever    *)
(* phase data are delivered: alerts.db implements the ledger of alerting   *)
(* alarms, for every set of alarms, across any crashes and rotations, and  *)
(* agrees with the map as long as no data are looked at while it is read.  *)
(* The row of a recorded event is kept by rotations and restarts, it does  *)
(* not show as alerting an alarm that is not, and what it shows as fixed   *)
(* has been answered.                                                      *)
(***************************************************************************)
EXTENDS AlarmJournal, TLAPS

-----------------------------------------------------------------------------
(***************************************************************************)
(* PART 1.  The directory.                                                 *)
(***************************************************************************)

(***************************************************************************)
(* The timepoints at which a period begins.                                *)
(***************************************************************************)
Boundary(t) == \E k \in Nat : t = k * Span

\* The remainder of a timepoint within its period (time.cpp:48, 55).
LEMMA Remainder ==
  ASSUME NEW t \in Nat
  PROVE  /\ t \div Span \in Nat
         /\ t % Span \in 0 .. Span - 1
         /\ t = ((t \div Span) * Span) + (t % Span)
  BY SpanAssumption, SMT

\* Boundaries are at least a period apart.
LEMMA BoundaryGap ==
  ASSUME NEW a, NEW b, Boundary(a), Boundary(b), a < b
  PROVE  a + Span <= b
<1>1. PICK i \in Nat : a = i * Span  BY DEF Boundary
<1>2. PICK j \in Nat : b = j * Span  BY DEF Boundary
<1>3. Span \in Nat /\ Span > 0       BY SpanAssumption, SMT
<1>4. i * Span < j * Span            BY <1>1, <1>2
<1>5. i + 1 <= j
  <2>1. CASE j <= i
    <3>1. j * Span <= i * Span  BY <2>1, <1>3, SMT
    <3>2. i * Span \in Int /\ j * Span \in Int BY <1>3, SMT
    <3>3. QED  BY <3>1, <3>2, <1>4, SMT
  <2>2. QED  BY <2>1, SMT
<1>6. (i + 1) * Span <= j * Span     BY <1>5, <1>3, SMT
<1>7. (i + 1) * Span = i * Span + Span  BY <1>3, SMT
<1>8. QED  BY <1>1, <1>2, <1>6, <1>7, SMT

\* floor_seconds is the last boundary up to a timepoint, ceiling_seconds the
\* first one after it.
LEMMA Floor ==
  ASSUME NEW t \in Nat
  PROVE  /\ floor_seconds(t) \in Nat /\ ceiling_seconds(t) \in Nat
         /\ Boundary(floor_seconds(t)) /\ Boundary(ceiling_seconds(t))
         /\ floor_seconds(t) <= t /\ t < ceiling_seconds(t)
         /\ ceiling_seconds(t) = floor_seconds(t) + Span
<1> DEFINE q == t \div Span
           r == (t % Span)
<1>1. q \in Nat /\ r \in 0 .. Span - 1 /\ t = q * Span + r  BY Remainder
<1>2. Span \in Nat /\ Span > 0  BY SpanAssumption, SMT
<1>3. q * Span \in Nat  BY <1>1, <1>2, SMT
<1>4. floor_seconds(t) = q * Span  BY <1>1, <1>2, <1>3, SMT DEF floor_seconds
<1>5. ceiling_seconds(t) = q * Span + Span  BY <1>1, <1>2, <1>3, SMT DEF ceiling_seconds
<1>6. (q + 1) * Span = q * Span + Span  BY <1>1, <1>2, SMT
<1>7. Boundary(floor_seconds(t))  BY <1>1, <1>4 DEF Boundary
<1>8. Boundary(ceiling_seconds(t))
  <2>1. q + 1 \in Nat  BY <1>1
  <2>2. QED  BY <2>1, <1>5, <1>6 DEF Boundary
<1>9. QED  BY <1>1, <1>2, <1>3, <1>4, <1>5, <1>7, <1>8, SMT

\* A boundary that is not after a timepoint is not after its floor.
LEMMA FloorIsLast ==
  ASSUME NEW t \in Nat, NEW b \in Nat, Boundary(b), b <= t
  PROVE  b <= floor_seconds(t)
<1>1. Span \in Nat /\ Span > 0  BY SpanAssumption, SMT
<1>2. SUFFICES ASSUME floor_seconds(t) < b PROVE FALSE  BY Floor, SMT
<1>3. floor_seconds(t) + Span <= b  BY <1>2, Floor, BoundaryGap
<1>4. QED  BY <1>1, <1>3, Floor, SMT

-----------------------------------------------------------------------------
(***************************************************************************)
(* TypeOK is inductive.                                                    *)
(***************************************************************************)
LEMMA DirectoryTypesInit == Init => TypeOK
<1>1. Init => clock \in Nat  BY SpanAssumption, SMT DEF Init
<1>2. Init => folder \in BOOLEAN /\ creating \subseteq Requests
  BY Zenon DEF Init
<1>3. QED  BY <1>1, <1>2 DEF Init, TypeOK, Phases, UIs

\* Every step of the directory keeps the types of its variables.
LEMMA DirectoryTypesStep ==
  ASSUME TypeOK, [Next]_dirVars
  PROVE  TypeOK'
<1> USE DEF TypeOK, Phases, UIs
<1>0. clock \in Nat /\ \A t \in Nat : floor_seconds(t) \in Nat /\ ceiling_seconds(t) \in Nat
                                      /\ ceiling_seconds(t) - t \in Nat
  <2>1. ASSUME NEW t \in Nat
        PROVE  floor_seconds(t) \in Nat /\ ceiling_seconds(t) \in Nat
               /\ ceiling_seconds(t) - t \in Nat
    BY Floor, SMT
  <2>2. QED  BY <2>1
<1>1. Request(clock) \in Requests  BY <1>0 DEF Request, Requests
<1>2. CASE Construct       BY <1>2 DEF Construct, timerVars
<1>3. CASE FolderGot       BY <1>3 DEF FolderGot, timerVars
<1>4. CASE FolderNotFound  BY <1>4 DEF FolderNotFound, timerVars
<1>5. CASE FolderCreated   BY <1>5 DEF FolderCreated, timerVars
<1>6. CASE MissionStart    BY <1>6, <1>1 DEF MissionStart, timerVars
<1>7. CASE \E r \in creating : FileCreated(r) \/ FileArrived(r) \/ CreationFailed(r)
  <2> PICK r \in creating : FileCreated(r) \/ FileArrived(r) \/ CreationFailed(r)  BY <1>7
  <2>1. r.stamp \in Nat /\ [r EXCEPT !.done = TRUE] \in Requests  BY DEF Requests
  <2>2. CASE FileCreated(r)     BY <2>1, <2>2 DEF FileCreated, timerVars
  <2>3. CASE FileArrived(r)     BY <2>1, <2>3 DEF FileArrived, timerVars
  <2>4. CASE CreationFailed(r)  BY <2>4, BoundAssumption, SMT DEF CreationFailed, Die
  <2>5. QED  BY <2>2, <2>3, <2>4
<1>8. CASE TimerArmed      BY <1>8, <1>0 DEF TimerArmed
<1>9. ASSUME SleepOrRotate PROVE wake' \in Nat /\ creating' \subseteq Requests /\ ui' \in UIs
                                 /\ clock' \in Nat /\ crashes' \in Nat /\ phase' \in Phases
                                 /\ folder' \in BOOLEAN /\ current_file' \in Nat \cup {NoFile}
  BY <1>9, <1>0, <1>1 DEF SleepOrRotate
<1>10. CASE Tick
  <2>1. due' \in Nat /\ interval' \in Nat  BY <1>10, SMT DEF Tick, Later
  <2>2. QED  BY <2>1, <1>9, <1>10 DEF Tick
<1>11. CASE Wake           BY <1>11, <1>9 DEF Wake
<1>12. CASE Crash          BY <1>12, SMT DEF Crash, Die
<1>13. CASE ClockTick      BY <1>13, SMT DEF ClockTick, timerVars
<1>14. CASE UNCHANGED dirVars  BY <1>14 DEF dirVars, timerVars
<1>15. QED
  BY <1>2, <1>3, <1>4, <1>5, <1>6, <1>7, <1>8, <1>10, <1>11, <1>12, <1>13, <1>14 DEF Next

\* Every variable keeps its type: no interval of the timer and no stamp of a
\* file is ever negative, in whatever order ticks, files and crashes come.
THEOREM DirectoryTypes == Spec => []TypeOK
<1>1. Init => TypeOK  BY DirectoryTypesInit
<1>2. TypeOK /\ [Next]_dirVars => TypeOK'  BY DirectoryTypesStep
<1>3. QED  BY <1>1, <1>2, PTL DEF Spec

-----------------------------------------------------------------------------
(***************************************************************************)
(* Why the timer handler may sleep.  It does so when the current file is   *)
(* the one of the clock's period; that it was called for the end of this   *)
(* very period, and is only a little early, has to be invariant: the timer *)
(* is armed for a boundary after the current file until it fires, and once *)
(* it has fired the clock's period is not the current file's any more.     *)
(***************************************************************************)

\* The files asked for are those of periods that have begun.
RequestsBegun ==
  \A r \in creating : Boundary(r.stamp) /\ r.stamp <= clock

\* The current file is that of a period that has begun, and there is one from
\* the first creation on.
CurrentBegun ==
  /\ current_file \in Nat => Boundary(current_file) /\ current_file <= clock
  /\ phase = "running" \/ ui = "rotated" => current_file \in Nat

\* Files are created and the timer runs only once the folder is ready.
Order ==
  /\ creating # {} => phase \in {"starting", "running"}
  /\ ui = "rotated" => phase \in {"starting", "running"}
  /\ ui = "sleep" => phase = "running"
  /\ ui = "folder_ready" => phase \in {"getting", "making"}

\* The timer is due for a boundary after the current file, or the directory
\* lags behind the clock.
TimerIsRight ==
  phase = "running" /\ ui = "loop" =>
    \/ Boundary(due) /\ current_file < due
    \/ current_file < floor_seconds(clock)

SleepIsRight ==
  ui = "sleep" =>
    Boundary(wake) /\ current_file < wake /\ wake <= clock + Early

TimerInv ==
  /\ TypeOK
  /\ RequestsBegun /\ CurrentBegun /\ Order /\ TimerIsRight /\ SleepIsRight

\* A later clock has not an earlier floor.
LEMMA FloorMonotone ==
  ASSUME NEW s \in Nat, NEW t \in Nat, s <= t
  PROVE  floor_seconds(s) <= floor_seconds(t)
<1>1. floor_seconds(s) \in Nat /\ Boundary(floor_seconds(s)) /\ floor_seconds(s) <= t
  BY Floor, SMT
<1>2. QED  BY <1>1, FloorIsLast

\* Each action preserves what the timer relies on.
LEMMA TimerStep ==
  ASSUME TimerInv, TypeOK', [Next]_dirVars
  PROVE  TimerInv'
<1> USE DEF TimerInv, TypeOK, Phases, UIs
<1>0. /\ clock \in Nat /\ Early \in Nat /\ Span \in Nat /\ Span > 0
      /\ floor_seconds(clock) \in Nat /\ ceiling_seconds(clock) \in Nat
      /\ Boundary(floor_seconds(clock)) /\ Boundary(ceiling_seconds(clock))
      /\ floor_seconds(clock) <= clock /\ clock < ceiling_seconds(clock)
      /\ ceiling_seconds(clock) = floor_seconds(clock) + Span
  BY SpanAssumption, Floor, SMT
<1>a. Request(clock).stamp = floor_seconds(clock)  BY DEF Request
<1>b. current_file \in Nat => current_file <= floor_seconds(clock)
  BY FloorIsLast, NoFileAssumption DEF CurrentBegun
<1> USE DEF RequestsBegun, CurrentBegun, Order, TimerIsRight, SleepIsRight
<1>1. CASE Construct       BY <1>1 DEF Construct, timerVars
<1>2. CASE FolderGot       BY <1>2 DEF FolderGot, timerVars
<1>3. CASE FolderNotFound  BY <1>3 DEF FolderNotFound, timerVars
<1>4. CASE FolderCreated   BY <1>4 DEF FolderCreated, timerVars
<1>5. CASE MissionStart    BY <1>5, <1>0, <1>a DEF MissionStart, timerVars
<1>6. ASSUME NEW r \in creating, FileCreated(r) PROVE TimerInv'
  <2>1. [r EXCEPT !.done = TRUE].stamp = r.stamp  BY DEF Requests
  <2>2. RequestsBegun'  BY <1>6, <2>1 DEF FileCreated
  <2>3. Order'          BY <1>6 DEF FileCreated
  <2>4. CurrentBegun' /\ TimerIsRight' /\ SleepIsRight'
    BY <1>6 DEF FileCreated, timerVars, floor_seconds
  <2>5. QED  BY <2>2, <2>3, <2>4
<1>7. ASSUME NEW r \in creating, FileArrived(r) PROVE TimerInv'
  <2>1. r.stamp \in Nat  BY DEF Requests
  <2>2. QED  BY <1>7, <2>1 DEF FileArrived, timerVars
<1>8. ASSUME NEW r \in creating, CreationFailed(r) PROVE TimerInv'
  BY <1>8, NoFileAssumption DEF CreationFailed, Die
<1>9. CASE TimerArmed
  <2>1. current_file < ceiling_seconds(clock)  BY <1>9, <1>0, <1>b, SMT DEF TimerArmed
  <2>2. QED  BY <1>9, <2>1, <1>0 DEF TimerArmed
<1>10. ASSUME phase = "running", SleepOrRotate,
              current_file = floor_seconds(clock) => ceiling_seconds(clock) <= clock + Early
       PROVE  TimerInv'
  <2>1. current_file \in Nat  BY <1>10
  <2>2. CASE current_file = floor_seconds(clock)
    BY <1>10, <2>1, <2>2, <1>0, SMT DEF SleepOrRotate
  <2>3. CASE current_file # floor_seconds(clock)
    <3>1. current_file < floor_seconds(clock)  BY <2>1, <2>3, <1>0, <1>b, SMT
    <3>2. QED  BY <1>10, <2>1, <2>3, <3>1, <1>0, <1>a DEF SleepOrRotate, floor_seconds
  <2>4. QED  BY <2>2, <2>3
<1>11. CASE Tick
  <2>1. phase = "running" /\ SleepOrRotate /\ clock + Early >= due /\ ui = "loop"
    BY <1>11 DEF Tick
  <2>2. ASSUME current_file = floor_seconds(clock)
        PROVE  ceiling_seconds(clock) <= clock + Early
    <3>1. Boundary(due) /\ current_file < due  BY <2>1, <2>2, <1>0, SMT
    <3>2. current_file + Span <= due  BY <2>2, <3>1, <1>0, BoundaryGap
    <3>3. QED  BY <2>1, <2>2, <3>2, <1>0, SMT
  <2>3. QED  BY <2>1, <2>2, <1>10
<1>12. CASE Wake
  <2>1. phase = "running" /\ SleepOrRotate /\ clock >= wake  BY <1>12 DEF Wake
  <2>2. current_file # floor_seconds(clock)
    <3>1. wake <= floor_seconds(clock)  BY <1>12, <2>1, FloorIsLast DEF Wake
    <3>2. QED  BY <1>12, <3>1, <1>0, SMT DEF Wake
  <2>3. QED  BY <2>1, <2>2, <1>10
<1>13. CASE Crash
  BY <1>13, NoFileAssumption DEF Crash, Die
<1>14. CASE ClockTick
  <2>1. clock' = clock + 1 /\ UNCHANGED <<phase, ui, folder, current_file, creating, timerVars>>
    BY <1>14 DEF ClockTick
  <2>2. floor_seconds(clock') \in Nat /\ floor_seconds(clock) <= floor_seconds(clock')
    BY <2>1, <1>0, Floor, FloorMonotone, SMT
  <2>3. RequestsBegun'
    <3>1. \A r \in creating : r.stamp \in Nat  BY DEF Requests
    <3>2. QED  BY <2>1, <3>1, <1>0, SMT
  <2>4. CurrentBegun'  BY <2>1, <1>0, SMT
  <2>5. TimerIsRight'
    <3>1. SUFFICES ASSUME phase' = "running", ui' = "loop"
                   PROVE  \/ Boundary(due') /\ current_file' < due'
                          \/ current_file' < floor_seconds(clock')
      OBVIOUS
    <3>2. phase = "running" /\ ui = "loop" /\ current_file \in Nat /\ current_file' = current_file
          /\ due' = due
      BY <2>1, <3>1 DEF timerVars
    <3>3. CASE Boundary(due) /\ current_file < due  BY <3>2, <3>3
    <3>4. CASE current_file < floor_seconds(clock)  BY <3>2, <3>4, <2>2, <1>0, SMT
    <3>5. QED  BY <3>2, <3>3, <3>4
  <2>6. SleepIsRight'  BY <2>1, <1>0, SMT DEF timerVars
  <2>7. QED  BY <2>1, <2>3, <2>4, <2>5, <2>6
<1>15. CASE UNCHANGED dirVars
  BY <1>15 DEF dirVars, timerVars, floor_seconds
<1>16. QED
  BY <1>1, <1>2, <1>3, <1>4, <1>5, <1>6, <1>7, <1>8, <1>9, <1>11, <1>12, <1>13, <1>14, <1>15
     DEF Next

\* The invariant of the timer holds before the timer has been started.
LEMMA TimerInit == Init => TimerInv
  BY DirectoryTypesInit, NoFileAssumption
     DEF Init, TimerInv, RequestsBegun, CurrentBegun, Order, TimerIsRight, SleepIsRight

\* The timer of IRotativeDirectory, once armed, is due at the next boundary.
THEOREM TimerInvariant == Spec => []TimerInv
<1>1. TimerInv /\ TypeOK' /\ [Next]_dirVars => TimerInv'  BY TimerStep
<1>2. QED  BY TimerInit, <1>1, DirectoryTypes, PTL DEF Spec

\* The timer handler never blocks the UI thread for longer than it was called
\* early (dirotation.cpp:131-135): FreezeIsShort is an invariant.
THEOREM FreezeIsAlwaysShort == Spec => []FreezeIsShort
<1>1. TimerInv => FreezeIsShort  BY DEF TimerInv, SleepIsRight, FreezeIsShort
<1>2. QED  BY <1>1, TimerInvariant, PTL

-----------------------------------------------------------------------------
(***************************************************************************)
(* Why rotations never go back, and a directory lags by one period at      *)
(* most.  Several creations may be under way, and the file system may end  *)
(* them in any order; so they have to be for the same period.  Either they *)
(* were asked for early in it, and are over long before the next one, or   *)
(* there is only one and the timer does not fire before it is over.  This  *)
(* is what TimingAssumption is for.                                        *)
(***************************************************************************)

RequestsInTime ==
  \A r \in creating :
    r.stamp = floor_seconds(r.issued) /\ r.issued <= clock /\ clock <= r.issued + Latency

\* The creations under way are for one period, which is not before that of the
\* current file.
OnePeriod ==
  /\ \A r, q \in creating : r.stamp = q.stamp
  /\ current_file \in Nat => \A r \in creating : current_file <= r.stamp

\* r was asked for early in its period: it and those that were asked for until
\* then are over before the next period.
Timely(r) == r.issued <= r.stamp + 2 * Latency

\* The rotation r is for is over, or the first that was asked for is under way.
Expected(r) ==
  phase = "running" /\ ui = "loop" =>
    r.stamp = current_file \/ \E q \in creating : q.issued <= q.stamp + Latency

\* r is the only one, until the timer fires.
Alone(r) ==
  /\ creating = {r} /\ ui # "rotated"
  /\ phase = "running" => r.issued + Latency + Early < due

AloneOrTimely ==
  (\A r \in creating : Timely(r) /\ Expected(r)) \/ (\E r \in creating : Alone(r))

\* The timer is armed for the end of the period of the current file, or for the
\* end of the next one if it was armed when that had just begun.
ArmedForNext ==
  phase = "running" /\ ui = "loop" /\ creating = {} =>
    \/ due = current_file + Span
    \/ due = current_file + 2 * Span /\ interval >= Span - Latency

\* Where the clock is.
InTime ==
  /\ phase = "running" /\ ui = "loop" => clock <= due + Latency
  /\ ui = "sleep" => /\ creating = {} /\ wake = current_file + Span
                     /\ wake <= due /\ clock <= wake + Latency
  /\ ui = "rotated" => /\ clock < current_file + Span + Latency
                       /\ \A r \in creating : r.stamp = current_file

PeriodInv == RequestsInTime /\ OnePeriod /\ AloneOrTimely /\ ArmedForNext /\ InTime

LEMMA Times ==
  /\ Span \in Nat /\ Early \in Nat /\ Latency \in Nat /\ Span > 0
  /\ 3 * Latency + Early < Span
  BY SpanAssumption, TimingAssumption, SMT

LEMMA NextBoundary == ASSUME NEW b \in Nat, Boundary(b) PROVE Boundary(b + Span)
<1>1. PICK k \in Nat : b = k * Span  BY DEF Boundary
<1>2. (k + 1) * Span = b + Span /\ k + 1 \in Nat  BY <1>1, Times, SMT
<1>3. QED  BY <1>2 DEF Boundary

\* The period of a timepoint is the one it lies in.
LEMMA FloorIs ==
  ASSUME NEW t \in Nat, NEW b \in Nat, Boundary(b), b <= t, t < b + Span
  PROVE  floor_seconds(t) = b
<1>1. b <= floor_seconds(t)  BY FloorIsLast
<1>2. floor_seconds(t) \in Nat /\ Boundary(floor_seconds(t)) /\ floor_seconds(t) <= t  BY Floor
<1>3. b < floor_seconds(t) => b + Span <= floor_seconds(t)  BY <1>2, BoundaryGap
<1>4. QED  BY <1>1, <1>2, <1>3, Times, SMT

LEMMA PeriodInit == Init => PeriodInv
  BY NoFileAssumption DEF Init, PeriodInv, RequestsInTime, OnePeriod, AloneOrTimely, ArmedForNext, InTime

\* What is known of a creation that is under way.
LEMMA OfRequest ==
  ASSUME TimerInv, PeriodInv, NEW r \in creating
  PROVE  /\ r.stamp \in Nat /\ r.issued \in Nat /\ Boundary(r.stamp)
         /\ r.stamp = floor_seconds(r.issued)
         /\ r.stamp <= r.issued /\ r.issued < r.stamp + Span
         /\ r.issued <= clock /\ clock <= r.issued + Latency
<1>1. r \in Requests /\ Boundary(r.stamp)  BY DEF TimerInv, TypeOK, RequestsBegun
<1>2. r.stamp \in Nat /\ r.issued \in Nat  BY <1>1 DEF Requests
<1>3. r.stamp = floor_seconds(r.issued) /\ r.issued <= clock /\ clock <= r.issued + Latency
  BY DEF PeriodInv, RequestsInTime
<1>4. r.stamp <= r.issued /\ r.issued < r.stamp + Span  BY <1>2, <1>3, Floor, SMT
<1>5. QED  BY <1>1, <1>2, <1>3, <1>4

\* When the timer fires the creations under way are of the clock's period, and
\* were asked for early in it.
LEMMA FiringIsInPeriod ==
  ASSUME TimerInv, PeriodInv, phase = "running", ui = "loop", clock + Early >= due,
         NEW r \in creating
  PROVE  /\ floor_seconds(clock) = r.stamp /\ current_file < r.stamp
         /\ clock <= r.stamp + 2 * Latency
         /\ \A q \in creating : Timely(q)
         /\ \E q \in creating : q.issued <= q.stamp + Latency
<1> USE DEF PeriodInv
<1>0. clock \in Nat /\ due \in Nat /\ current_file \in Nat
  BY DEF TimerInv, TypeOK, CurrentBegun
<1>1. \A q \in creating : Timely(q) /\ Expected(q)
  <2>1. ASSUME NEW q \in creating, Alone(q) PROVE FALSE
    <3>1. q.issued + Latency + Early < due  BY <2>1 DEF Alone
    <3>2. QED  BY <3>1, <1>0, OfRequest, Times, SMT
  <2>2. QED  BY <2>1 DEF AloneOrTimely
<1>2. r.issued <= r.stamp + 2 * Latency  BY <1>1 DEF Timely
<1>3. clock < r.stamp + Span - Early /\ r.stamp <= clock
  BY <1>0, <1>2, OfRequest, Times, SMT
<1>4. floor_seconds(clock) = r.stamp
  BY <1>0, <1>3, OfRequest, FloorIs, Times, SMT
<1>5. current_file # r.stamp
  <2>1. SUFFICES ASSUME current_file = r.stamp PROVE FALSE  OBVIOUS
  <2>2. Boundary(due) /\ current_file < due
    BY <1>0, <1>4, <2>1, Times, SMT DEF TimerInv, TimerIsRight
  <2>3. r.stamp + Span <= due  BY <2>1, <2>2, OfRequest, BoundaryGap
  <2>4. QED  BY <1>0, <1>3, <2>3, OfRequest, Times, SMT
<1>6. current_file < r.stamp
  <2>1. current_file <= r.stamp  BY <1>0 DEF OnePeriod
  <2>2. QED  BY <1>0, <1>5, <2>1, OfRequest, SMT
<1>7. \E q \in creating : q.issued <= q.stamp + Latency  BY <1>1, <1>5 DEF Expected
<1>8. PICK q \in creating : q.issued <= q.stamp + Latency  BY <1>7
<1>9. q.stamp = r.stamp  BY DEF OnePeriod
<1>10. clock <= r.stamp + 2 * Latency
  <2>1. clock <= q.issued + Latency /\ q.issued \in Nat  BY OfRequest
  <2>2. QED  BY <1>0, <1>8, <1>9, <2>1, OfRequest, Times, SMT
<1>11. QED  BY <1>1, <1>4, <1>6, <1>7, <1>10

\* Asking for the next file.
LEMMA AskStep ==
  ASSUME TimerInv, PeriodInv, clock' = clock, phase' = "running", ui' = "loop",
         current_file' = current_file, creating' = creating \cup {Request(clock)},
         clock <= due' + Latency,
         \A r \in creating : r.stamp = floor_seconds(clock),
         \/ /\ \A r \in creating : Timely(r)
            /\ clock <= floor_seconds(clock) + 2 * Latency
            /\ \/ clock <= floor_seconds(clock) + Latency
               \/ \E q \in creating : q.issued <= q.stamp + Latency
         \/ creating = {} /\ clock + Latency + Early < due'
  PROVE  PeriodInv'
<1> DEFINE new == Request(clock)
<1> USE DEF PeriodInv
<1>0. clock \in Nat /\ floor_seconds(clock) \in Nat /\ Boundary(floor_seconds(clock))
      /\ floor_seconds(clock) <= clock
  BY Floor DEF TimerInv, TypeOK
<1>1. new.stamp = floor_seconds(clock) /\ new.issued = clock  BY DEF Request
<1>2. RequestsInTime'
  <2>1. ASSUME NEW r \in creating'
        PROVE  r.stamp = floor_seconds(r.issued) /\ r.issued <= clock /\ clock <= r.issued + Latency
    <3>1. CASE r \in creating  BY <3>1, OfRequest
    <3>2. CASE r = new  BY <3>2, <1>0, <1>1, Times, SMT
    <3>3. QED  BY <3>1, <3>2
  <2>2. QED  BY <2>1 DEF RequestsInTime, floor_seconds
<1>3. OnePeriod'
  <2>1. \A r \in creating' : r.stamp = floor_seconds(clock)  BY <1>1
  <2>2. current_file \in Nat => current_file <= floor_seconds(clock)
    BY <1>0, FloorIsLast DEF TimerInv, CurrentBegun
  <2>3. QED  BY <2>1, <2>2 DEF OnePeriod
<1>4. AloneOrTimely'
  <2>1. CASE creating = {} /\ clock + Latency + Early < due'
    <3>1. creating' = {new} /\ new \in creating'  BY <2>1
    <3>2. Alone(new)'  BY <2>1, <3>1, <1>1 DEF Alone
    <3>3. QED  BY <3>1, <3>2 DEF AloneOrTimely
  <2>2. CASE /\ \A r \in creating : Timely(r)
             /\ clock <= floor_seconds(clock) + 2 * Latency
             /\ \/ clock <= floor_seconds(clock) + Latency
                \/ \E q \in creating : q.issued <= q.stamp + Latency
    <3>1. \A r \in creating' : Timely(r)  BY <2>2, <1>1 DEF Timely
    <3>2. \E q \in creating' : q.issued <= q.stamp + Latency  BY <2>2, <1>1
    <3>3. QED  BY <3>1, <3>2 DEF AloneOrTimely, Expected, Timely
  <2>3. QED  BY <2>1, <2>2
<1>5. ArmedForNext' /\ InTime'  BY DEF ArmedForNext, InTime
<1>6. QED  BY <1>2, <1>3, <1>4, <1>5

\* A tick that comes too early sleeps, one that comes when the timer was armed
\* for the end of the current period asks for the next file, and so do others
\* until it has come; one that lags asks for one file and does not fire again
\* before it has come.
LEMMA TickStep == ASSUME TimerInv, PeriodInv, Tick PROVE PeriodInv'
<1> USE DEF PeriodInv
<1>0. /\ phase = "running" /\ phase' = "running" /\ ui = "loop" /\ clock + Early >= due
      /\ due' = Later(clock, due) + interval /\ clock' = clock /\ current_file' = current_file
      /\ interval' = interval
  BY DEF Tick, SleepOrRotate
<1>1. /\ clock \in Nat /\ due \in Nat /\ interval \in Nat /\ current_file \in Nat
      /\ Boundary(current_file) /\ current_file <= clock
      /\ floor_seconds(clock) \in Nat /\ Boundary(floor_seconds(clock))
      /\ floor_seconds(clock) <= clock /\ clock < floor_seconds(clock) + Span
      /\ ceiling_seconds(clock) = floor_seconds(clock) + Span
  <2>1. clock \in Nat /\ due \in Nat /\ interval \in Nat /\ current_file \in Nat
        /\ Boundary(current_file) /\ current_file <= clock
    BY <1>0 DEF TimerInv, TypeOK, CurrentBegun
  <2>2. QED  BY <2>1, Floor, SMT
<1>2. clock <= due' + Latency  BY <1>0, <1>1, Times, SMT DEF Later
<1>3. CASE current_file = floor_seconds(clock)
  <2>1. creating = {}
    <3>1. \A r \in creating : current_file < r.stamp /\ floor_seconds(clock) = r.stamp
      BY <1>0, FiringIsInPeriod
    <3>2. \A r \in creating : FALSE  BY <3>1, <1>1, <1>3, SMT
    <3>3. QED  BY <3>2
  <2>2. ui' = "sleep" /\ wake' = current_file + Span /\ creating' = {}
    BY <1>0, <1>1, <1>3, <2>1 DEF Tick, SleepOrRotate
  <2>3. current_file + Span <= due
    <3>1. Boundary(due) /\ current_file < due
      BY <1>0, <1>1, <1>3, SMT DEF TimerInv, TimerIsRight
    <3>2. QED  BY <3>1, <1>1, BoundaryGap
  <2>4. wake' <= due' /\ clock' <= wake' + Latency
    BY <1>0, <1>1, <1>3, <2>2, <2>3, Times, SMT DEF Later
  <2>5. QED
    BY <1>0, <2>2, <2>4 DEF RequestsInTime, OnePeriod, AloneOrTimely, ArmedForNext, InTime
<1>4. CASE current_file # floor_seconds(clock)
  <2>1. ui' = "loop" /\ creating' = creating \cup {Request(clock)}
    BY <1>0, <1>4 DEF Tick, SleepOrRotate
  <2>2. CASE creating # {}
    <3>1. PICK r \in creating : TRUE  BY <2>2
    <3>2. \A q \in creating : q.stamp = floor_seconds(clock)  BY <1>0, FiringIsInPeriod
    <3>3. /\ \A q \in creating : Timely(q)
          /\ \E q \in creating : q.issued <= q.stamp + Latency
          /\ clock <= floor_seconds(clock) + 2 * Latency
      BY <1>0, <3>1, FiringIsInPeriod
    <3>4. QED  BY <1>0, <1>2, <2>1, <3>2, <3>3, AskStep
  <2>3. CASE creating = {}
    <3>1. clock <= due + Latency  BY <1>0 DEF InTime
    <3>2. current_file < floor_seconds(clock)
      <4>1. current_file <= floor_seconds(clock)  BY <1>1, FloorIsLast
      <4>2. QED  BY <4>1, <1>1, <1>4, SMT
    <3>3. CASE due = current_file + Span
      <4>1. current_file + Span <= floor_seconds(clock)  BY <1>1, <3>2, BoundaryGap
      <4>2. clock <= floor_seconds(clock) + Latency /\ clock <= floor_seconds(clock) + 2 * Latency
        BY <3>1, <3>3, <4>1, <1>1, Times, SMT
      <4>3. QED  BY <1>0, <1>2, <2>1, <2>3, <4>2, AskStep
    <3>4. CASE due = current_file + 2 * Span /\ interval >= Span - Latency
      <4>1. clock + Latency + Early < due'
        BY <1>0, <1>1, <3>1, <3>4, Times, SMT DEF Later
      <4>2. QED  BY <1>0, <1>2, <2>1, <2>3, <4>1, AskStep
    <3>5. QED  BY <1>0, <2>3, <3>3, <3>4 DEF ArmedForNext
  <2>4. QED  BY <2>2, <2>3
<1>5. QED  BY <1>3, <1>4

\* After the sleep the next period has just begun.
LEMMA WakeStep == ASSUME TimerInv, PeriodInv, Wake PROVE PeriodInv'
<1> USE DEF PeriodInv
<1>0. /\ ui = "sleep" /\ clock >= wake /\ due' = due /\ clock' = clock /\ phase' = phase
      /\ current_file' = current_file
  BY DEF Wake, SleepOrRotate
<1>1. phase = "running" /\ current_file \in Nat /\ clock \in Nat /\ due \in Nat
      /\ Boundary(current_file)
  BY <1>0 DEF TimerInv, TypeOK, CurrentBegun, Order
<1>2. creating = {} /\ wake = current_file + Span /\ wake <= due /\ clock <= wake + Latency
  BY <1>0 DEF InTime
<1>3. floor_seconds(clock) = current_file + Span
  <2>1. Boundary(current_file + Span) /\ current_file + Span \in Nat
    BY <1>1, NextBoundary, Times, SMT
  <2>2. QED  BY <1>0, <1>1, <1>2, <2>1, FloorIs, Times, SMT
<1>4. ui' = "loop" /\ creating' = creating \cup {Request(clock)}
  BY <1>1, <1>3, Times, SMT DEF Wake, SleepOrRotate
<1>5. clock <= due' + Latency /\ clock <= floor_seconds(clock) + Latency
      /\ clock <= floor_seconds(clock) + 2 * Latency
  BY <1>0, <1>1, <1>2, <1>3, Times, SMT
<1>6. QED  BY <1>0, <1>1, <1>2, <1>4, <1>5, AskStep

\* The file that has come is of the period of the others under way, and the
\* clock has not left it for long.
LEMMA ArrivalStep ==
  ASSUME TimerInv, PeriodInv, NEW r \in creating, FileArrived(r)
  PROVE  PeriodInv'
<1> USE DEF PeriodInv
<1>0. /\ current_file' = r.stamp /\ creating' = creating \ {r} /\ ui' = "rotated"
      /\ clock' = clock
  BY DEF FileArrived
<1>1. /\ r.stamp \in Nat /\ r.issued < r.stamp + Span /\ clock <= r.issued + Latency
      /\ r.issued \in Nat /\ clock \in Nat
  BY OfRequest DEF TimerInv, TypeOK
<1>2. \A q \in creating' : q \in creating /\ q.stamp = r.stamp  BY <1>0 DEF OnePeriod
<1>3. RequestsInTime'  BY <1>0, <1>2 DEF RequestsInTime, floor_seconds
<1>4. OnePeriod'  BY <1>0, <1>1, <1>2 DEF OnePeriod
<1>5. \A q \in creating' : Timely(q)
  BY <1>0, <1>2 DEF AloneOrTimely, Alone
<1>6. AloneOrTimely'  BY <1>0, <1>5 DEF AloneOrTimely, Expected, Timely
<1>7. InTime'
  <2>1. clock < r.stamp + Span + Latency  BY <1>1, Times, SMT
  <2>2. QED  BY <1>0, <1>2, <2>1 DEF InTime
<1>8. ArmedForNext'  BY <1>0 DEF ArmedForNext
<1>9. QED  BY <1>3, <1>4, <1>6, <1>7, <1>8

\* The timer is armed for the end of the clock's period, which is that of the
\* file or has just begun.
LEMMA ArmingStep == ASSUME TimerInv, PeriodInv, TimerArmed PROVE PeriodInv'
<1> USE DEF PeriodInv
<1>0. /\ ui = "rotated" /\ ui' = "loop" /\ phase' = "running" /\ creating' = creating
      /\ clock' = clock /\ current_file' = current_file
      /\ due' = ceiling_seconds(clock) /\ interval' = ceiling_seconds(clock) - clock
  BY DEF TimerArmed
<1>1. /\ clock \in Nat /\ current_file \in Nat /\ Boundary(current_file) /\ current_file <= clock
      /\ clock < current_file + Span + Latency
      /\ \A r \in creating : r.stamp = current_file
  BY <1>0 DEF TimerInv, TypeOK, CurrentBegun, InTime
<1>2. /\ ceiling_seconds(clock) = floor_seconds(clock) + Span
      /\ floor_seconds(clock) \in Nat /\ floor_seconds(clock) <= clock /\ clock < ceiling_seconds(clock)
  BY <1>1, Floor
<1>3. \/ due' = current_file + Span
      \/ due' = current_file + 2 * Span /\ interval' >= Span - Latency
  <2>1. CASE clock < current_file + Span
    BY <2>1, <1>0, <1>1, <1>2, FloorIs, SMT
  <2>2. CASE clock >= current_file + Span
    <3>1. Boundary(current_file + Span) /\ current_file + Span \in Nat
      BY <1>1, NextBoundary, Times, SMT
    <3>2. floor_seconds(clock) = current_file + Span
      BY <2>2, <3>1, <1>1, FloorIs, Times, SMT
    <3>3. QED  BY <1>0, <1>1, <1>2, <3>2, Times, SMT
  <2>3. QED  BY <2>1, <2>2, <1>1, Times, SMT
<1>4. \A r \in creating : Timely(r)  BY <1>0 DEF AloneOrTimely, Alone
<1>5. AloneOrTimely'  BY <1>0, <1>1, <1>4 DEF AloneOrTimely, Expected, Timely
<1>6. InTime'  BY <1>0, <1>1, <1>2, Times, SMT DEF InTime
<1>7. RequestsInTime' /\ OnePeriod'  BY <1>0 DEF RequestsInTime, OnePeriod, floor_seconds
<1>8. QED  BY <1>0, <1>3, <1>5, <1>6, <1>7 DEF ArmedForNext

\* The file system's part of a creation changes nothing of what it is for.
LEMMA CreatedStep ==
  ASSUME TimerInv, PeriodInv, NEW r \in creating, FileCreated(r)
  PROVE  PeriodInv'
<1> DEFINE done == [r EXCEPT !.done = TRUE]
<1> USE DEF PeriodInv
<1>0. /\ creating' = (creating \ {r}) \cup {done}
      /\ UNCHANGED <<clock, phase, ui, current_file, interval, due, wake>>
  BY DEF FileCreated, timerVars
<1>1. done.stamp = r.stamp /\ done.issued = r.issued
  <2>1. r \in Requests  BY DEF TimerInv, TypeOK
  <2>2. QED  BY <2>1 DEF Requests
<1>2. \A q \in creating' : \E p \in creating : q.stamp = p.stamp /\ q.issued = p.issued
  BY <1>0, <1>1
<1>3. \A p \in creating : \E q \in creating' : q.stamp = p.stamp /\ q.issued = p.issued
  BY <1>0, <1>1
<1>4. RequestsInTime'
  <2>1. \A q \in creating' : q.stamp = floor_seconds(q.issued) /\ q.issued <= clock
                             /\ clock <= q.issued + Latency
    BY <1>2 DEF RequestsInTime
  <2>2. QED  BY <2>1, <1>0 DEF RequestsInTime, floor_seconds
<1>5. OnePeriod'  BY <1>0, <1>2 DEF OnePeriod
<1>6. AloneOrTimely'
  <2>1. CASE \A q \in creating : Timely(q) /\ Expected(q)
    <3>1. ASSUME NEW q \in creating' PROVE Timely(q)' /\ Expected(q)'
      <4>1. PICK p \in creating : q.stamp = p.stamp /\ q.issued = p.issued  BY <1>2
      <4>2. Timely(p) /\ Expected(p)  BY <2>1
      <4>3. Timely(q)'  BY <4>1, <4>2 DEF Timely
      <4>4. Expected(q)'  BY <4>1, <4>2, <1>0, <1>3 DEF Expected
      <4>5. QED  BY <4>3, <4>4
    <3>2. QED  BY <3>1 DEF AloneOrTimely
  <2>2. CASE \E q \in creating : Alone(q)
    <3>1. PICK q \in creating : Alone(q)  BY <2>2
    <3>2. q = r /\ creating' = {done}  BY <3>1, <1>0 DEF Alone
    <3>3. Alone(done)'  BY <3>1, <3>2, <1>0, <1>1 DEF Alone
    <3>4. QED  BY <3>2, <3>3 DEF AloneOrTimely
  <2>3. QED  BY <2>1, <2>2 DEF AloneOrTimely
<1>7. ArmedForNext'  BY <1>0 DEF ArmedForNext
<1>8. InTime'
  <2>1. ui = "rotated" => \A q \in creating' : q.stamp = current_file  BY <1>2 DEF InTime
  <2>2. ui # "sleep"  BY DEF InTime
  <2>3. QED  BY <1>0, <2>1, <2>2 DEF InTime
<1>9. QED  BY <1>4, <1>5, <1>6, <1>7, <1>8

LEMMA ClockStep == ASSUME TimerInv, PeriodInv, ClockTick PROVE PeriodInv'
<1> USE DEF PeriodInv
<1>0. /\ clock' = clock + 1 /\ ui # "rotated"
      /\ \A r \in creating : clock < r.issued + Latency
      /\ phase = "running" /\ ui = "loop" => clock < due + Latency
      /\ ui = "sleep" => clock < wake + Latency
      /\ UNCHANGED <<phase, ui, current_file, creating, interval, due, wake>>
  BY DEF ClockTick, timerVars
<1>1. clock \in Nat /\ due \in Nat /\ wake \in Nat  BY DEF TimerInv, TypeOK
<1>2. RequestsInTime'
  <2>1. ASSUME NEW r \in creating
        PROVE  r.stamp = floor_seconds(r.issued) /\ r.issued <= clock + 1
               /\ clock + 1 <= r.issued + Latency
    BY <1>0, <1>1, OfRequest, Times, SMT
  <2>2. QED  BY <1>0, <2>1 DEF RequestsInTime, floor_seconds
<1>3. OnePeriod' /\ AloneOrTimely' /\ ArmedForNext'
  BY <1>0 DEF OnePeriod, AloneOrTimely, ArmedForNext, Timely, Expected, Alone
<1>4. InTime'  BY <1>0, <1>1, Times, SMT DEF InTime
<1>5. QED  BY <1>2, <1>3, <1>4

LEMMA StartStep == ASSUME TimerInv, PeriodInv, MissionStart PROVE PeriodInv'
<1> USE DEF PeriodInv
<1>0. /\ creating' = {Request(clock)} /\ clock' = clock /\ current_file' = current_file
      /\ phase' = "starting" /\ ui' = "loop"
  BY DEF MissionStart
<1>1. Request(clock).stamp = floor_seconds(clock) /\ Request(clock).issued = clock  BY DEF Request
<1>2. clock \in Nat  BY DEF TimerInv, TypeOK
<1>3. current_file \in Nat => current_file <= floor_seconds(clock)
  BY <1>2, FloorIsLast DEF TimerInv, CurrentBegun
<1>4. RequestsInTime'  BY <1>0, <1>1, <1>2, Times, SMT DEF RequestsInTime, floor_seconds
<1>5. OnePeriod'  BY <1>0, <1>1, <1>3 DEF OnePeriod
<1>6. AloneOrTimely'  BY <1>0 DEF AloneOrTimely, Alone
<1>7. QED  BY <1>0, <1>4, <1>5, <1>6 DEF ArmedForNext, InTime

LEMMA DeathStep == ASSUME PeriodInv, Die PROVE PeriodInv'
  BY NoFileAssumption
  DEF Die, PeriodInv, RequestsInTime, OnePeriod, AloneOrTimely, ArmedForNext, InTime

LEMMA PeriodStep == ASSUME TimerInv, PeriodInv, [Next]_dirVars PROVE PeriodInv'
<1>1. CASE UNCHANGED <<clock, current_file, creating, timerVars>>
           /\ phase # "running" /\ phase' # "running"
           /\ ui \in {"loop", "folder_ready"} /\ ui' \in {"loop", "folder_ready"}
  BY <1>1 DEF PeriodInv, RequestsInTime, OnePeriod, AloneOrTimely, ArmedForNext, InTime, timerVars,
              Timely, Expected, Alone, floor_seconds
<1>2. CASE UNCHANGED dirVars
  BY <1>2 DEF dirVars, timerVars, PeriodInv, RequestsInTime, OnePeriod, AloneOrTimely, ArmedForNext,
              InTime, Timely, Expected, Alone, floor_seconds
<1>3. CASE Construct
  <2>1. ui = "loop"
    BY <1>3 DEF Construct, TimerInv, Order, TypeOK, UIs
  <2>2. QED  BY <1>1, <1>3, <2>1 DEF Construct
<1>4. CASE FolderGot \/ FolderNotFound \/ FolderCreated
  BY <1>1, <1>4 DEF FolderGot, FolderNotFound, FolderCreated
<1>5. CASE MissionStart  BY <1>5, StartStep
<1>6. ASSUME NEW r \in creating, FileCreated(r) \/ FileArrived(r) \/ CreationFailed(r)
      PROVE  PeriodInv'
  BY <1>6, CreatedStep, ArrivalStep, DeathStep DEF CreationFailed
<1>7. CASE TimerArmed  BY <1>7, ArmingStep
<1>8. CASE Tick  BY <1>8, TickStep
<1>9. CASE Wake  BY <1>9, WakeStep
<1>10. CASE Crash  BY <1>10, DeathStep DEF Crash
<1>11. CASE ClockTick  BY <1>11, ClockStep
<1>12. QED  BY <1>2, <1>3, <1>4, <1>5, <1>6, <1>7, <1>8, <1>9, <1>10, <1>11 DEF Next

\* At every moment the creations under way are for one period, and over before
\* those for the next are asked for.
THEOREM PeriodInvariant == Spec => [](TimerInv /\ PeriodInv)
<1>1. TimerInv /\ PeriodInv /\ [Next]_dirVars => PeriodInv'  BY PeriodStep
<1>2. QED  BY PeriodInit, <1>1, TimerInvariant, PTL DEF Spec

\* Rotations are applied in the order of the periods, for all latencies and
\* early ticks that are short compared with a period.
THEOREM RotationsNeverGoBack == Spec => NeverBackwards
<1> DEFINE Forwards == current_file # NoFile /\ current_file' # NoFile => current_file' >= current_file
<1>1. ASSUME TimerInv, PeriodInv, [Next]_dirVars PROVE [Forwards]_dirVars
  <2>1. current_file # NoFile => current_file \in Nat  BY <1>1 DEF TimerInv, TypeOK
  <2>2. ASSUME NEW r \in creating, FileArrived(r) PROVE Forwards
    <3>1. current_file' = r.stamp /\ r.stamp \in Nat  BY <1>1, <2>2, OfRequest DEF FileArrived
    <3>2. current_file \in Nat => current_file <= r.stamp  BY <1>1 DEF PeriodInv, OnePeriod
    <3>3. QED  BY <2>1, <3>1, <3>2, SMT
  <2>3. CASE current_file' \in {current_file, NoFile}
    <3>1. current_file # NoFile => current_file >= current_file  BY <2>1, SMT
    <3>2. QED  BY <2>3, <3>1
  <2>4. CASE UNCHANGED dirVars  BY <2>4
  <2>5. CASE Next
    BY <2>2, <2>3, <2>5
    DEF Next, Construct, FolderGot, FolderNotFound, FolderCreated, MissionStart, FileCreated,
        CreationFailed, TimerArmed, Tick, Wake, SleepOrRotate, Crash, Die, ClockTick
  <2>6. QED  BY <1>1, <2>4, <2>5
<1>2. QED  BY <1>1, PeriodInvariant, PTL DEF Spec, NeverBackwards

\* The current file is that of the clock's period or of the one before.
THEOREM AlwaysLagsOnePeriod == Spec => []LagsOnePeriod
<1>1. ASSUME TimerInv, PeriodInv PROVE LagsOnePeriod
  <2>1. SUFFICES ASSUME phase = "running", clock < due, creating = {}
                 PROVE  floor_seconds(clock) <= current_file + Span
    BY DEF LagsOnePeriod
  <2>2. /\ clock \in Nat /\ due \in Nat /\ current_file \in Nat /\ Boundary(current_file)
        /\ ui \in {"loop", "folder_ready", "rotated", "sleep"}
    BY <1>1, <2>1 DEF TimerInv, TypeOK, CurrentBegun, UIs
  <2>3. clock < current_file + 2 * Span
    <3>1. CASE ui = "loop"
      <4>1. due <= current_file + 2 * Span
        BY <1>1, <2>1, <2>2, <3>1, Times, SMT DEF PeriodInv, ArmedForNext
      <4>2. QED  BY <2>1, <2>2, <4>1, Times, SMT
    <3>2. CASE ui = "rotated"
      BY <1>1, <2>2, <3>2, Times, SMT DEF PeriodInv, InTime
    <3>3. CASE ui = "sleep"
      BY <1>1, <2>2, <3>3, Times, SMT DEF PeriodInv, InTime
    <3>4. CASE ui = "folder_ready"
      BY <1>1, <2>1, <3>4 DEF TimerInv, Order
    <3>5. QED  BY <2>2, <3>1, <3>2, <3>3, <3>4
  <2>4. floor_seconds(clock) \in Nat /\ Boundary(floor_seconds(clock)) /\ floor_seconds(clock) <= clock
    BY <2>2, Floor
  <2>5. Boundary(current_file + Span) /\ current_file + Span \in Nat
    BY <2>2, NextBoundary, Times, SMT
  <2>6. current_file + Span < floor_seconds(clock) => current_file + Span + Span <= floor_seconds(clock)
    BY <2>4, <2>5, BoundaryGap
  <2>7. QED  BY <2>2, <2>3, <2>4, <2>5, <2>6, Times, SMT
<1>2. QED  BY <1>1, PeriodInvariant, PTL

-----------------------------------------------------------------------------
(***************************************************************************)
(* PART 2.  The database on the files of the directory.                    *)
(***************************************************************************)

\* The connections only follow the steps of their directory.
LEMMA FollowsDirectory == [SQLiteNext]_sqliteVars => [Next]_dirVars
  BY DEF SQLiteNext, sqliteVars, SQLiteConstruct, DirectoryStep, FileCreatedOnDisk, NewConnection,
         SQLiteCreationFailed, lockfree_previous_connection, EmployNew, Prepare, Finalize,
         SQLiteCrash, Next

\* A rotative database is a rotative directory: what is proved of the latter
\* holds of the former.
THEOREM IsDirectory == SQLiteSpec => Spec
<1>1. SQLiteInit => Init  BY DEF SQLiteInit
<1>2. QED  BY <1>1, FollowsDirectory, PTL DEF SQLiteSpec, Spec

-----------------------------------------------------------------------------
(***************************************************************************)
(* The inductive invariant.                                                *)
(***************************************************************************)

\* The connections of a process: numbered as they are opened, and the newest
\* is the one being introduced by on_file_rotated.
Numbered ==
  /\ \A c \in open : c \in Conns /\ c.id >= 1 /\ c.id <= opened
  /\ new_employee # NullConn <=> ui = "rotated"
  /\ ui = "rotated" => new_employee \in open /\ new_employee # employee
                       /\ new_employee # prev_employee

\* The PLC thread always finds an employee that is open, and the previous one
\* is somebody else, open or absent.
EmployeeIsOpen ==
  /\ phase # "down" => employee \in open
  /\ employee # NullConn => employee \in open
  /\ prev_employee # NullConn => prev_employee \in open
  /\ prev_employee = employee => phase = "down" \/ ui = "rotated"
  /\ phase = "down" => ui = "loop" /\ employee = NullConn /\ prev_employee = NullConn /\ open = {}
                       /\ opened = 0 /\ busy = NullConn /\ creating = {}

\* Where the connection of a statement is after the rotations it has met.
Met ==
  busy # NullConn =>
    /\ swaps = 0 => ui # "rotated" /\ busy = employee
    /\ swaps = 1 => IF ui = "rotated" THEN busy = employee ELSE busy \in {employee, prev_employee}

ConnInv ==
  /\ SQLiteTypeOK
  /\ Order
  /\ Numbered /\ EmployeeIsOpen /\ Met /\ NoLostConnection

\* The invariant of the connections holds when only the in-memory one exists.
LEMMA ConnInit == SQLiteInit => ConnInv
<1>1. SQLiteInit => TypeOK /\ Order  BY DirectoryTypesInit DEF SQLiteInit, Init, Order
<1>2. QED
  BY <1>1 DEF SQLiteInit, Init, ConnInv, SQLiteTypeOK, Numbered, EmployeeIsOpen, Met, NoLostConnection

\* A step of the directory that changes neither the connections nor the
\* beginning and the end of on_file_rotated.
LEMMA ConnUnchanged ==
  ASSUME ConnInv, TypeOK', Order', UNCHANGED <<connVars, useVars>>,
         ui = "rotated" <=> ui' = "rotated",
         phase = "down" <=> phase' = "down",
         phase' = "down" => ui' = "loop" /\ creating' = {}
  PROVE  ConnInv'
  BY DEF ConnInv, SQLiteTypeOK, Numbered, EmployeeIsOpen, Met, NoLostConnection, connVars, useVars

\* Nothing is left of the connections of a process that died.
LEMMA ConnLost ==
  ASSUME ConnInv, TypeOK', Order', Die, LoseConnections
  PROVE  ConnInv'
  BY DEF Die, LoseConnections, ConnInv, SQLiteTypeOK, Numbered, EmployeeIsOpen, Met, NoLostConnection

\* A connection opened by this process is none of those that are open.
LEMMA FreshConnection ==
  ASSUME ConnInv, NEW f \in Nat
  PROVE  LET c == [id |-> opened + 1, file |-> f]
         IN  c \in Conns /\ c \notin open /\ c # NullConn /\ c.id >= 1
  BY DEF ConnInv, SQLiteTypeOK, Numbered, Conns, NullConn

\* Every step of a rotation and of a statement keeps the invariant of the
\* connections.
LEMMA ConnStep ==
  ASSUME ConnInv, TypeOK', Order', [SQLiteNext]_sqliteVars
  PROVE  ConnInv'
<1> USE DEF connVars, useVars
<1>1. CASE SQLiteConstruct
  <2>1. MemoryConn \in Conns /\ MemoryConn.id = 1 /\ MemoryConn # NullConn
    BY DEF MemoryConn, NullConn, Conns
  <2>2. QED
    BY <1>1, <2>1 DEF SQLiteConstruct, Construct, ConnInv, SQLiteTypeOK, Numbered, EmployeeIsOpen,
       Met, NoLostConnection
<1>2. CASE DirectoryStep
  <2>1. UNCHANGED <<connVars, useVars>>  BY <1>2 DEF DirectoryStep
  <2>2. CASE FolderGot \/ FolderNotFound \/ FolderCreated \/ MissionStart \/ ClockTick
    BY <2>1, <2>2, ConnUnchanged DEF FolderGot, FolderNotFound, FolderCreated, MissionStart, ClockTick,
       ConnInv, Numbered, EmployeeIsOpen
  <2>3. CASE Tick \/ Wake
    BY <2>1, <2>3, ConnUnchanged DEF Tick, Wake, SleepOrRotate, ConnInv, Order, Numbered, EmployeeIsOpen
  <2>4. QED  BY <1>2, <2>2, <2>3 DEF DirectoryStep
<1>3. ASSUME NEW r \in creating, FileCreatedOnDisk(r)
      PROVE  ConnInv'
  BY <1>3, ConnUnchanged DEF FileCreatedOnDisk, FileCreated, ConnInv, Numbered, EmployeeIsOpen
<1>4. ASSUME NEW r \in creating, NewConnection(r)
      PROVE  ConnInv'
  <2> DEFINE c == [id |-> opened + 1, file |-> r.stamp]
  <2>1. r.stamp \in Nat  BY DEF ConnInv, SQLiteTypeOK, TypeOK, Requests
  <2>2. c \in Conns /\ c \notin open /\ c # NullConn /\ c.id = opened + 1  BY <2>1, FreshConnection
  <2> HIDE DEF c
  <2>3. /\ new_employee' = c /\ opened' = opened + 1 /\ open' = open \cup {c}
        /\ swaps' = (IF busy = NullConn THEN 0 ELSE swaps + 1)
        /\ UNCHANGED <<employee, prev_employee, busy, phase>>
        /\ ui = "loop" /\ ui' = "rotated" /\ creating' = creating \ {r} /\ new_employee = NullConn
    BY <1>4 DEF NewConnection, FileArrived, c
  <2>4. phase \in {"starting", "running"}  BY DEF ConnInv, Order
  <2>5. opened \in Nat /\ swaps \in Nat  BY DEF ConnInv, SQLiteTypeOK
  <2>6. SQLiteTypeOK'  BY <2>2, <2>3, <2>5 DEF ConnInv, SQLiteTypeOK
  <2>7. Numbered'
    <3>1. \A d \in open : d \in Conns /\ d.id >= 1 /\ d.id <= opened  BY DEF ConnInv, Numbered
    <3>2. \A d \in open' : d \in Conns /\ d.id >= 1 /\ d.id <= opened'
      BY <3>1, <2>2, <2>3, <2>5 DEF Conns
    <3>3. employee \in open /\ prev_employee \in open \cup {NullConn}
      BY <2>4 DEF ConnInv, EmployeeIsOpen
    <3>4. QED  BY <3>2, <3>3, <2>2, <2>3 DEF Numbered
  <2>8. EmployeeIsOpen'  BY <2>3, <2>4 DEF ConnInv, EmployeeIsOpen
  <2>9. Met'  BY <2>3, <2>4, <2>5 DEF ConnInv, Met
  <2>10. NoLostConnection'
    <3>1. NullConn \notin open  BY DEF ConnInv, Numbered, NullConn
    <3>2. QED  BY <3>1, <2>3 DEF ConnInv, NoLostConnection
  <2>11. QED  BY <2>3, <2>4, <2>6, <2>7, <2>8, <2>9, <2>10 DEF ConnInv
<1>5. ASSUME NEW r \in creating, SQLiteCreationFailed(r)
      PROVE  ConnInv'
  BY <1>5, ConnLost DEF SQLiteCreationFailed, CreationFailed
<1>6. CASE lockfree_previous_connection
  <2>1. UNCHANGED dirVars  BY <1>6 DEF lockfree_previous_connection
  <2>2. phase # "down"  BY <1>6 DEF lockfree_previous_connection, ConnInv, Order
  <2>3. QED
    BY <1>6, <2>1, <2>2 DEF dirVars, lockfree_previous_connection, ConnInv, SQLiteTypeOK, Numbered,
       EmployeeIsOpen, Met, NoLostConnection
<1>7. CASE EmployNew
  <2>1. phase # "down" /\ new_employee \in open  BY <1>7 DEF EmployNew, TimerArmed, ConnInv, Numbered, Order
  <2>2. QED
    BY <1>7, <2>1 DEF EmployNew, TimerArmed, ConnInv, SQLiteTypeOK, Numbered, EmployeeIsOpen, Met,
       NoLostConnection
<1>8. CASE Prepare
  BY <1>8 DEF Prepare, dirVars, ConnInv, SQLiteTypeOK, Numbered, EmployeeIsOpen, Met, NoLostConnection
<1>9. CASE Finalize
  BY <1>9 DEF Finalize, dirVars, ConnInv, SQLiteTypeOK, Numbered, EmployeeIsOpen, Met, NoLostConnection
<1>10. CASE SQLiteCrash  BY <1>10, ConnLost DEF SQLiteCrash, Crash
<1>11. CASE UNCHANGED sqliteVars
  BY <1>11, ConnUnchanged DEF sqliteVars, dirVars, ConnInv, EmployeeIsOpen
<1>12. QED
  BY <1>1, <1>2, <1>3, <1>4, <1>5, <1>6, <1>7, <1>8, <1>9, <1>10, <1>11 DEF SQLiteNext

-----------------------------------------------------------------------------
\* The connections of RotativeSQLite3 are the employed one, the one kept from
\* the rotation before, and deleted ones.
THEOREM ConnInvariant == SQLiteSpec => []ConnInv
<1>1. TimerInv => TypeOK /\ Order  BY DEF TimerInv
<1>2. ConnInv /\ TypeOK' /\ Order' /\ [SQLiteNext]_sqliteVars => ConnInv'  BY ConnStep
<1>3. QED  BY <1>1, <1>2, ConnInit, IsDirectory, TimerInvariant, PTL DEF SQLiteSpec

\* "destruct last connection until next rotation for lockfree purpose"
\* (rotation.cpp:46): a statement that meets one rotation at most is never
\* executed on a deleted connection, whatever the period and the latency.
THEOREM LockfreePurposeHolds == SQLiteSpec => []LockfreePurpose
<1>1. ConnInv => LockfreePurpose
  BY DEF ConnInv, SQLiteTypeOK, EmployeeIsOpen, Met, LockfreePurpose
<1>2. QED  BY <1>1, ConnInvariant, PTL

\* Rotations leak no connection: every one that is open will be deleted.
THEOREM NoConnectionIsLost == SQLiteSpec => []NoLostConnection
<1>1. ConnInv => NoLostConnection  BY DEF ConnInv
<1>2. QED  BY <1>1, ConnInvariant, PTL

\* The variables of a rotative database have their types.
THEOREM SQLiteTypes == SQLiteSpec => []SQLiteTypeOK
<1>1. ConnInv => SQLiteTypeOK  BY DEF ConnInv
<1>2. QED  BY <1>1, ConnInvariant, PTL

\* The connection being introduced is on the file that has just become current.
OnCurrentFile ==
  /\ EmployedOnCurrentFile
  /\ new_employee # NullConn => new_employee.file = current_file

LEMMA OnCurrentFileInit == SQLiteInit => OnCurrentFile
  BY DEF SQLiteInit, Init, OnCurrentFile, EmployedOnCurrentFile

\* File and connection are replaced within one on_file_rotated: there is a new
\* connection from when the file is current to when the timer is armed.
LEMMA OnCurrentFileStep ==
  ASSUME OnCurrentFile, ConnInv, [SQLiteNext]_sqliteVars
  PROVE  OnCurrentFile'
<1>1. new_employee # NullConn <=> ui = "rotated"  BY DEF ConnInv, Numbered
<1> USE DEF OnCurrentFile, EmployedOnCurrentFile
<1>2. CASE SQLiteConstruct  BY <1>1, <1>2 DEF SQLiteConstruct, Construct
<1>3. CASE DirectoryStep
  <2>1. CASE FolderGot \/ FolderNotFound \/ FolderCreated \/ MissionStart \/ ClockTick
    BY <1>1, <1>3, <2>1 DEF DirectoryStep, FolderGot, FolderNotFound, FolderCreated, MissionStart,
       ClockTick, connVars
  <2>2. CASE Tick \/ Wake
    BY <1>1, <1>3, <2>2 DEF DirectoryStep, Tick, Wake, SleepOrRotate, connVars
  <2>3. QED  BY <1>3, <2>1, <2>2 DEF DirectoryStep
<1>4. ASSUME NEW r \in creating, FileCreatedOnDisk(r)
      PROVE  OnCurrentFile'
  BY <1>4 DEF FileCreatedOnDisk, FileCreated, connVars
<1>5. ASSUME NEW r \in creating, NewConnection(r)
      PROVE  OnCurrentFile'
  BY <1>5 DEF NewConnection, FileArrived
<1>6. ASSUME NEW r \in creating, SQLiteCreationFailed(r)
      PROVE  OnCurrentFile'
  BY <1>6 DEF SQLiteCreationFailed, CreationFailed, Die, LoseConnections
<1>7. CASE lockfree_previous_connection  BY <1>7 DEF lockfree_previous_connection, dirVars
<1>8. CASE EmployNew  BY <1>1, <1>8 DEF EmployNew, TimerArmed
<1>9. CASE Prepare \/ Finalize  BY <1>9 DEF Prepare, Finalize, dirVars, connVars
<1>10. CASE SQLiteCrash  BY <1>10 DEF SQLiteCrash, Crash, Die, LoseConnections
<1>11. CASE UNCHANGED sqliteVars  BY <1>11 DEF sqliteVars, dirVars, connVars
<1>12. QED
  BY <1>2, <1>3, <1>4, <1>5, <1>6, <1>7, <1>8, <1>9, <1>10, <1>11 DEF SQLiteNext

\* Between two rotations the PLC thread records in the current file, in every
\* run and for every period.
THEOREM AlwaysEmployedOnCurrentFile == SQLiteSpec => []EmployedOnCurrentFile
<1>1. OnCurrentFile => EmployedOnCurrentFile  BY DEF OnCurrentFile
<1>2. ConnInv /\ OnCurrentFile /\ [SQLiteNext]_sqliteVars => OnCurrentFile'
  BY OnCurrentFileStep
<1>3. QED  BY <1>1, <1>2, OnCurrentFileInit, ConnInvariant, PTL DEF SQLiteSpec

-----------------------------------------------------------------------------
(***************************************************************************)
(* PART 3.  alerts.db.                                                     *)
(***************************************************************************)
NewRow == {"insert", "prepare", "record", "remember"}
OldRow == {"prepare_response", "record_response", "update", "delete", "forget"}

Plans == [pc : NewRow \cup OldRow, time : Nat, row : Rows]

\* The rows in the map.
Mapped == {alerts[i] : i \in Index} \ {NoRow}

\* The rows of alarms the program or alerts.db knows of, except one that is
\* about to be inserted.
Known == alerts_db \cup ahead \cup Mapped

(***************************************************************************)
(* The inductive invariants.  Rows holds whenever data are delivered: a    *)
(* uuid stands for one row, wherever it is.                                *)
(***************************************************************************)
RowsInv ==
  /\ \A r \in Known : r.uuid >= 1 /\ r.uuid <= uuids /\ r.fixedtime = 0
  /\ \A r, s \in Known : r.uuid = s.uuid => r = s
  /\ plc.pc = "insert" =>
       /\ plc.row.uuid >= 1 /\ plc.row.uuid <= uuids /\ plc.row.fixedtime = 0
       /\ \A r \in Known : r.uuid < plc.row.uuid
  /\ plc # Idle /\ plc.pc # "insert" =>
       /\ plc.row.uuid >= 1 /\ plc.row.uuid <= uuids
       /\ \A r \in Known : r.uuid = plc.row.uuid => r = plc.row
  /\ plc.pc \in {"prepare", "record", "remember"} => plc.row \in alerts_db

\* As long as nothing was delivered while alerts.db was read, it has at most
\* one row of an alarm.
OneRowEach == \A r, s \in alerts_db : r.index = s.index => r = s

\* The PLC thread has something to do only while the data source runs.
PLCRuns ==
  /\ phase \notin {"starting", "running"} => plc = Idle
  /\ plc # Idle => /\ plc.pc = "insert" => \A r \in alerts_db : r.index # plc.row.index
                   /\ plc.pc \in NewRow => alerts[plc.row.index] = NoRow
                   /\ plc.pc \in OldRow => alerts[plc.row.index] = plc.row
                   /\ plc.pc = "forget" => \A r \in alerts_db : r.index # plc.row.index

\* alerts.db is open once it is read.
Opened ==
  /\ phase \notin {"starting", "running"} /\ ui # "folder_ready" => ~alerts_dbc
  /\ ahead \subseteq alerts_db
  /\ ui # "folder_ready" => ahead = {}

\* The row the PLC thread has entered into alerts.db and not yet into the map,
\* or deleted from alerts.db and not yet from the map.
InsertedOnly(row) == plc.pc \in {"prepare", "record", "remember"} /\ row = plc.row
DeletedOnly(row) == plc.pc = "forget" /\ row = plc.row

\* The rows of alerts.db that on_folder_ready has come to.
Restored ==
  IF phase \in {"starting", "running"} THEN alerts_db
  ELSE IF ui = "folder_ready" THEN alerts_db \ ahead
  ELSE {}

\* The map and the restored rows agree but for the row in progress.
MapAgrees ==
  /\ \A row \in Restored : alerts[row.index] = row \/ InsertedOnly(row)
  /\ \A i \in Index : alerts[i] # NoRow =>
       /\ alerts[i].index = i
       /\ alerts[i] \in Restored \/ DeletedOnly(alerts[i])

LedgerInv == OneRowEach /\ PLCRuns /\ Opened /\ MapAgrees

-----------------------------------------------------------------------------
(***************************************************************************)
(* The journal is a rotative database, but that it may die of an access    *)
(* violation as well.                                                      *)
(***************************************************************************)
LEMMA FollowsDatabase ==
  ASSUME [JournalNext]_vars
  PROVE  [SQLiteNext]_sqliteVars \/ (AccessViolation /\ Die /\ LoseConnections /\ UNCHANGED crashes)
<1> USE DEF SQLiteNext
<1>1. CASE JournalConstruct       BY <1>1 DEF JournalConstruct
<1>2. CASE OnFolderReady          BY <1>2 DEF OnFolderReady, DirectoryStep
<1>3. CASE \E row \in ahead : step(row)  BY <1>3 DEF step
<1>4. CASE JournalStart           BY <1>4 DEF JournalStart, DirectoryStep
<1>5. CASE JournalDirectoryStep   BY <1>5 DEF JournalDirectoryStep, DirectoryStep
<1>6. CASE \E r \in creating : JournalFileCreated(r)  BY <1>6 DEF JournalFileCreated
<1>7. CASE JournalRotation        BY <1>7 DEF JournalRotation
<1>8. CASE \E i \in Index : Flip(i) \/ Alert(i) \/ Respond(i)  BY <1>8 DEF Flip, Alert, Respond
<1>9. CASE PLCStep
  BY <1>9 DEF PLCStep, InsertAlert, PrepareAlert, RecordAlert, RememberAlert, PrepareResponse,
              RecordResponse, UpdateAlarm, DeleteAlert, ForgetAlert
<1>10. CASE JournalCrash          BY <1>10 DEF JournalCrash
<1>11. CASE AccessViolation       BY <1>11 DEF AccessViolation
<1>12. CASE UNCHANGED vars        BY <1>12 DEF vars
<1>13. QED
  BY <1>1, <1>2, <1>3, <1>4, <1>5, <1>6, <1>7, <1>8, <1>9, <1>10, <1>11, <1>12 DEF JournalNext

\* A directory whose process died is as it was before the first start.
LEMMA DeadDirectory ==
  ASSUME TimerInv, Die, UNCHANGED crashes
  PROVE  TimerInv'
  BY NoFileAssumption DEF Die, TimerInv, TypeOK, Phases, UIs, RequestsBegun, CurrentBegun, Order,
     TimerIsRight, SleepIsRight

\* The invariants of the directory and of the database hold under the
\* journal, which adds data of its own to their steps.
LEMMA DatabaseInvariant == JournalSpec => [](TimerInv /\ ConnInv)
<1>1. JournalInit => TimerInv /\ ConnInv
  BY ConnInit, TimerInit DEF JournalInit, SQLiteInit
<1>2. ASSUME TimerInv /\ ConnInv, [JournalNext]_vars
      PROVE  TimerInv' /\ ConnInv'
  <2>1. CASE [SQLiteNext]_sqliteVars
    <3>1. [Next]_dirVars  BY <2>1, FollowsDirectory
    <3>2. TypeOK'  BY <1>2, <3>1, DirectoryTypesStep DEF TimerInv
    <3>3. TimerInv'  BY <1>2, <3>1, <3>2, TimerStep
    <3>4. QED  BY <1>2, <2>1, <3>3, ConnStep DEF TimerInv
  <2>2. CASE Die /\ LoseConnections /\ UNCHANGED crashes
    <3>1. TimerInv'  BY <1>2, <2>2, DeadDirectory
    <3>2. QED  BY <1>2, <2>2, <3>1, ConnLost DEF TimerInv
  <2>3. QED  BY <1>2, <2>1, <2>2, FollowsDatabase
<1>3. QED  BY <1>1, <1>2, PTL DEF JournalSpec

-----------------------------------------------------------------------------
(***************************************************************************)
(* Types.                                                                  *)
(***************************************************************************)

\* The types the ledger depends on.
AlarmTypes ==
  /\ bits \subseteq Index /\ uuids \in Nat /\ overlap \in BOOLEAN
  /\ alerts \in [Index -> Rows \cup {NoRow}]
  /\ alerts_db \subseteq Rows /\ ahead \subseteq Rows /\ unrecorded \subseteq Rows
  /\ plc = Idle \/ plc \in Plans

\* What the PLC thread goes on with.
LEMMA NextPlan ==
  ASSUME plc \in Plans, NEW pc \in NewRow \cup OldRow
  PROVE  /\ [plc EXCEPT !.pc = pc] \in Plans
         /\ [plc EXCEPT !.pc = pc].pc = pc
         /\ [plc EXCEPT !.pc = pc].row = plc.row /\ [plc EXCEPT !.pc = pc].time = plc.time
         /\ [plc EXCEPT !.pc = pc] # Idle
         /\ plc.row \in Rows /\ plc.time \in Nat /\ plc.pc \in NewRow \cup OldRow
  BY DEF Plans, Idle, NewRow, OldRow

\* It has a plan whenever it is beyond the scan.
LEMMA HasPlan ==
  ASSUME AlarmTypes, plc.pc \in NewRow \cup OldRow
  PROVE  plc \in Plans
  BY DEF AlarmTypes, Idle, NewRow, OldRow

\* The record built by Alert or Respond is a plan, with the fields given.
LEMMA NewPlan ==
  ASSUME NEW pc \in NewRow \cup OldRow, NEW t \in Nat, NEW row \in Rows
  PROVE  LET plan == [pc |-> pc, time |-> t, row |-> row]
         IN  plan \in Plans /\ plan.pc = pc /\ plan.time = t /\ plan.row = row /\ plan # Idle
  BY DEF Plans, Idle, NewRow, OldRow

\* A step of the PLC thread has a plan.
LEMMA StepsHavePlans ==
  ASSUME AlarmTypes, PLCStep
  PROVE  /\ plc \in Plans /\ plc # Idle /\ plc.row \in Rows /\ plc.time \in Nat
         /\ plc.row.uuid \in Nat /\ plc.row.index \in Index /\ plc.row.alarmtime \in Nat
         /\ plc.row.fixedtime \in Nat /\ plc.pc \in NewRow \cup OldRow
<1>1. plc.pc \in NewRow \cup OldRow
  BY DEF PLCStep, InsertAlert, PrepareAlert, RecordAlert, RememberAlert, PrepareResponse,
         RecordResponse, UpdateAlarm, DeleteAlert, ForgetAlert, NewRow, OldRow
<1>2. plc \in Plans /\ plc.row \in Rows /\ plc.time \in Nat  BY <1>1, HasPlan, NextPlan
<1>3. plc # Idle  BY <1>1 DEF Idle, NewRow, OldRow
<1>4. QED  BY <1>1, <1>2, <1>3 DEF Rows

\* What a step leaves of the map is typed, and what it has it had, or the row.
LEMMA MapChanges ==
  ASSUME AlarmTypes, NEW row \in Rows, alerts' \in {Inserted(row), alerts}
  PROVE  /\ alerts' \in [Index -> Rows \cup {NoRow}]
         /\ Mapped' \subseteq Mapped \cup {row}
<1>1. row.index \in Index  BY DEF Rows
<1>2. alerts' = alerts \/ alerts' = [alerts EXCEPT ![row.index] = row]  BY DEF Inserted
<1>3. QED  BY <1>1, <1>2 DEF AlarmTypes, Mapped

LEMMA MapForgets ==
  ASSUME AlarmTypes, NEW i \in Index, alerts' \in {[alerts EXCEPT ![i] = NoRow], alerts}
  PROVE  /\ alerts' \in [Index -> Rows \cup {NoRow}]
         /\ Mapped' \subseteq Mapped
<1> QED  BY DEF AlarmTypes, Mapped

\* The record of a response is a row.
LEMMA ResponseIsRow == ASSUME AlarmTypes, plc \in Plans PROVE Response(plc.time) \in Rows
  BY DEF Response, AlarmTypes, Plans, Rows

LEMMA AlarmTypesInit == JournalInit => AlarmTypes
<1>1. JournalInit => overlap = FALSE  BY DEF JournalInit
<1>2. JournalInit => overlap \in BOOLEAN  BY <1>1
<1>3. QED  BY <1>2 DEF JournalInit, AlarmTypes

\* Every step of the journal, on either thread, keeps the types of its own
\* variables.
LEMMA AlarmTypesStep ==
  ASSUME AlarmTypes, TimerInv, [JournalNext]_vars
  PROVE  AlarmTypes'
<1> USE DEF AlarmTypes, memoryVars, diskVars, envVars, ghostVars, alarmVars
<1>0. clock \in Nat  BY DEF TimerInv, TypeOK
<1>1. CASE JournalConstruct       BY <1>1 DEF JournalConstruct
<1>2. CASE OnFolderReady          BY <1>2 DEF OnFolderReady
<1>3. ASSUME NEW row \in ahead, step(row) PROVE AlarmTypes'
  <2>1. alerts' \in [Index -> Rows \cup {NoRow}]  BY <1>3, MapChanges DEF step, Raced
  <2>2. QED  BY <1>3, <2>1 DEF step
<1>4. CASE JournalStart           BY <1>4 DEF JournalStart
<1>5. CASE JournalDirectoryStep   BY <1>5 DEF JournalDirectoryStep
<1>6. ASSUME NEW r \in creating, JournalFileCreated(r) PROVE AlarmTypes'
  BY <1>6 DEF JournalFileCreated
<1>7. CASE JournalRotation        BY <1>7 DEF JournalRotation
<1>8. ASSUME NEW i \in Index, Flip(i) PROVE AlarmTypes'  BY <1>8 DEF Flip
<1>9. ASSUME NEW i \in Index, Alert(i) PROVE AlarmTypes'
  <2> DEFINE row == [uuid |-> uuids', index |-> i, alarmtime |-> clock, fixedtime |-> 0]
  <2>1. uuids' \in Nat /\ UNCHANGED <<bits, ahead, alerts, alerts_db, unrecorded>> /\ overlap' \in BOOLEAN
    BY <1>9 DEF Alert, Overlaps
  <2>2. row \in Rows  BY <2>1, <1>0 DEF Rows
  <2>3. plc' \in Plans  BY <1>9, <2>2, <1>0, NewPlan DEF Alert, NewRow
  <2>4. QED  BY <2>1, <2>3
<1>10. ASSUME NEW i \in Index, Respond(i) PROVE AlarmTypes'
  <2>1. uuids' \in Nat /\ UNCHANGED <<bits, ahead, alerts, alerts_db, unrecorded>> /\ overlap' \in BOOLEAN
    BY <1>10 DEF Respond, Overlaps
  <2>2. alerts[i] \in Rows  BY <1>10 DEF Respond
  <2>3. plc' \in Plans  BY <1>10, <2>2, <1>0, NewPlan DEF Respond, OldRow
  <2>4. QED  BY <2>1, <2>3
<1>11. CASE PLCStep
  <2>1. /\ plc \in Plans /\ plc.row \in Rows /\ plc.row.index \in Index
        /\ Response(plc.time) \in Rows
    BY <1>11, StepsHavePlans, ResponseIsRow
  <2>2. plc' = Idle \/ plc' \in Plans
    BY <1>11, <2>1, NextPlan
       DEF PLCStep, InsertAlert, PrepareAlert, RecordAlert, RememberAlert, PrepareResponse,
           RecordResponse, UpdateAlarm, DeleteAlert, ForgetAlert, NewRow, OldRow
  <2>3. /\ bits' \subseteq Index /\ uuids' \in Nat /\ overlap' \in BOOLEAN /\ alerts_db' \subseteq Rows
    BY <1>11, <2>1
       DEF PLCStep, InsertAlert, PrepareAlert, RecordAlert, RememberAlert, PrepareResponse,
           RecordResponse, UpdateAlarm, DeleteAlert, ForgetAlert, Without
  <2>4. ahead' \subseteq Rows /\ unrecorded' \subseteq Rows
    BY <1>11, <2>1
       DEF PLCStep, InsertAlert, PrepareAlert, RecordAlert, RememberAlert, PrepareResponse,
           RecordResponse, UpdateAlarm, DeleteAlert, ForgetAlert, Without, Unrecorded
  <2>5. alerts' \in [Index -> Rows \cup {NoRow}]
    <3>1. CASE RememberAlert \/ ForgetAlert
      BY <3>1, <2>1, MapChanges, MapForgets DEF RememberAlert, ForgetAlert, Raced
    <3>2. CASE ~RememberAlert /\ ~ForgetAlert
      BY <1>11, <3>2
         DEF PLCStep, InsertAlert, PrepareAlert, RecordAlert, PrepareResponse,
             RecordResponse, UpdateAlarm, DeleteAlert
    <3>3. QED  BY <3>1, <3>2
  <2>6. QED  BY <2>2, <2>3, <2>4, <2>5
<1>12. CASE JournalCrash \/ AccessViolation
  BY <1>12 DEF JournalCrash, AccessViolation, ForgetAll, Overlaps
<1>13. CASE UNCHANGED vars  BY <1>13 DEF vars
<1>14. QED
  BY <1>1, <1>2, <1>3, <1>4, <1>5, <1>6, <1>7, <1>8, <1>9, <1>10, <1>11, <1>12, <1>13 DEF JournalNext

-----------------------------------------------------------------------------
(***************************************************************************)
(* The rows.  Nothing becomes known but the row InsertAlert inserts.       *)
(***************************************************************************)

\* Known rows are rows.
LEMMA KnownAreRows ==
  ASSUME AlarmTypes
  PROVE  \A r \in Known : /\ r \in Rows /\ r.uuid \in Nat /\ r.index \in Index
                          /\ r.alarmtime \in Nat /\ r.fixedtime \in Nat
<1>1. Known \subseteq Rows  BY DEF AlarmTypes, Known, Mapped
<1>2. QED  BY <1>1 DEF Rows

\* A step makes nothing known, apart from InsertAlert.
LEMMA KnownStep ==
  ASSUME AlarmTypes, RowsInv, [JournalNext]_vars
  PROVE  /\ Known' \subseteq Known \cup (IF InsertAlert THEN {plc.row} ELSE {})
         /\ uuids' = uuids \/ \E i \in Index : Alert(i) \/ Respond(i)
<1> USE DEF memoryVars, diskVars, envVars, ghostVars, alarmVars
<1>0. uuids' = uuids \/ \E i \in Index : Alert(i) \/ Respond(i)
  BY DEF JournalNext, JournalConstruct, OnFolderReady, step, JournalStart, JournalDirectoryStep,
     JournalFileCreated, JournalRotation, Flip, PLCStep, InsertAlert, PrepareAlert, RecordAlert,
     RememberAlert, PrepareResponse, RecordResponse, UpdateAlarm, DeleteAlert, ForgetAlert,
     JournalCrash, AccessViolation, ForgetAll, vars
<1>1. CASE UNCHANGED <<alerts, alerts_db>> /\ ahead' \subseteq Known
  BY <1>0, <1>1 DEF Known, Mapped
<1>2. ASSUME NEW row \in ahead, step(row) PROVE Known' \subseteq Known
  <2>1. Mapped' \subseteq Mapped \cup {row}  BY <1>2, MapChanges DEF step, Raced, AlarmTypes
  <2>2. QED  BY <1>2, <2>1 DEF step, Known
<1>3. CASE PLCStep
  <2>1. plc.row \in Rows /\ plc.row.index \in Index /\ plc # Idle  BY <1>3, StepsHavePlans
  <2>2. CASE InsertAlert
    BY <1>0, <2>2 DEF InsertAlert, Known, Mapped
  <2>3. CASE RememberAlert
    <3>1. plc.row \in alerts_db  BY <2>3 DEF RememberAlert, RowsInv
    <3>2. Mapped' \subseteq Mapped \cup {plc.row}
      BY <2>1, <2>3, MapChanges DEF RememberAlert, Raced
    <3>3. QED  BY <1>0, <2>3, <3>1, <3>2 DEF RememberAlert, Known
  <2>4. CASE ForgetAlert
    <3>1. Mapped' \subseteq Mapped  BY <2>1, <2>4, MapForgets DEF ForgetAlert, Raced
    <3>2. QED  BY <1>0, <2>4, <3>1 DEF ForgetAlert, Known
  <2>5. CASE DeleteAlert
    BY <1>0, <2>5 DEF DeleteAlert, Without, Known, Mapped
  <2>6. CASE PrepareAlert \/ RecordAlert \/ PrepareResponse \/ RecordResponse \/ UpdateAlarm
    BY <1>1, <2>6 DEF PrepareAlert, RecordAlert, PrepareResponse, RecordResponse, UpdateAlarm, Known
  <2>7. QED  BY <1>3, <2>2, <2>3, <2>4, <2>5, <2>6 DEF PLCStep
<1>4. CASE JournalCrash \/ AccessViolation
  <2>1. Mapped' = {} /\ ahead' = {} /\ alerts_db' = alerts_db
    BY <1>4 DEF JournalCrash, AccessViolation, ForgetAll, Mapped
  <2>2. QED  BY <1>0, <2>1 DEF Known
<1>5. CASE ~PLCStep /\ ~JournalCrash /\ ~AccessViolation /\ ~\E row \in ahead : step(row)
  BY <1>1, <1>5
     DEF JournalNext, JournalConstruct, OnFolderReady, JournalStart, JournalDirectoryStep,
         JournalFileCreated, JournalRotation, Flip, Alert, Respond, vars, Known
<1>6. QED  BY <1>0, <1>2, <1>3, <1>4, <1>5

\* Every step keeps a uuid to one row.
LEMMA RowsStep ==
  ASSUME AlarmTypes, RowsInv, [JournalNext]_vars
  PROVE  RowsInv'
<1> USE DEF memoryVars, diskVars, envVars, ghostVars, alarmVars
<1>0. /\ \A r \in Known : r \in Rows /\ r.uuid \in Nat
      /\ uuids \in Nat /\ (plc = Idle => plc.pc = "idle")
  BY KnownAreRows DEF AlarmTypes, Idle
<1>1. ASSUME NEW i \in Index, Alert(i) PROVE RowsInv'
  <2>1. /\ UNCHANGED <<alerts, alerts_db, ahead>> /\ uuids' = uuids + 1
        /\ plc'.pc = "insert" /\ plc'.row.uuid = uuids + 1 /\ plc'.row.fixedtime = 0
    BY <1>1 DEF Alert
  <2>2. Known' = Known  BY <2>1 DEF Known, Mapped
  <2>3. QED  BY <2>1, <2>2, <1>0 DEF RowsInv
<1>2. ASSUME NEW i \in Index, Respond(i) PROVE RowsInv'
  <2>1. /\ UNCHANGED <<alerts, alerts_db, ahead>> /\ uuids' = uuids + 1
        /\ plc'.pc = "prepare_response" /\ plc'.row = alerts[i] /\ alerts[i] \in Known
    BY <1>2 DEF Respond, Known, Mapped
  <2>2. Known' = Known  BY <2>1 DEF Known, Mapped
  <2>3. QED  BY <2>1, <2>2, <1>0 DEF RowsInv
<1>3. CASE InsertAlert
  <2>1. plc \in Plans /\ plc # Idle /\ plc.row \in Rows /\ plc.row.uuid \in Nat
    BY <1>3, StepsHavePlans DEF PLCStep
  <2>2. /\ plc.pc = "insert" /\ plc'.pc = "prepare" /\ plc'.row = plc.row /\ uuids' = uuids
        /\ plc.row \in alerts_db'
    BY <1>3, <2>1, NextPlan DEF InsertAlert, NewRow
  <2>3. Known' \subseteq Known \cup {plc.row}  BY <1>3, KnownStep
  <2>4. /\ plc.row.uuid >= 1 /\ plc.row.uuid <= uuids /\ plc.row.fixedtime = 0
        /\ \A r \in Known : r.uuid < plc.row.uuid
    BY <2>2 DEF RowsInv
  <2>5. \A r \in Known' : r = plc.row \/ (r \in Known /\ r.uuid # plc.row.uuid)
    BY <2>3, <2>4, <2>1, <1>0
  <2>6. \A r, s \in Known' : r.uuid = s.uuid => r = s  BY <2>5 DEF RowsInv
  <2>7. \A r \in Known' : r.uuid >= 1 /\ r.uuid <= uuids' /\ r.fixedtime = 0
    BY <2>2, <2>4, <2>5 DEF RowsInv
  <2>8. QED  BY <2>2, <2>4, <2>5, <2>6, <2>7 DEF RowsInv
<1>4. CASE /\ Known' \subseteq Known /\ uuids' = uuids
           /\ \/ plc' = Idle
              \/ plc' = plc /\ alerts_db \subseteq alerts_db'
              \/ /\ plc # Idle /\ plc.pc # "insert" /\ plc'.pc # "insert" /\ plc'.row = plc.row
                 /\ plc'.pc \in {"prepare", "record", "remember"} =>
                      plc.pc \in {"prepare", "record", "remember"} /\ alerts_db' = alerts_db
  BY <1>4, <1>0 DEF RowsInv, Idle
<1>5. CASE PLCStep /\ ~InsertAlert
  <2>1. Known' \subseteq Known  BY <1>5, KnownStep
  <2>2. plc \in Plans /\ plc # Idle /\ plc.pc \in NewRow \cup OldRow  BY <1>5, StepsHavePlans
  <2>3. uuids' = uuids
    BY <1>5 DEF PLCStep, PrepareAlert, RecordAlert, RememberAlert, PrepareResponse, RecordResponse,
       UpdateAlarm, DeleteAlert, ForgetAlert
  <2>4. CASE RememberAlert \/ ForgetAlert
    BY <2>1, <2>3, <2>4, <1>4 DEF RememberAlert, ForgetAlert
  <2>5. CASE PrepareAlert \/ RecordAlert
    <3>1. PICK pc \in {"record", "remember"} : plc' = [plc EXCEPT !.pc = pc]
      BY <2>5 DEF PrepareAlert, RecordAlert
    <3>2. plc.pc \in {"prepare", "record"} /\ alerts_db' = alerts_db
      BY <2>5 DEF PrepareAlert, RecordAlert
    <3>3. pc \in NewRow  BY DEF NewRow
    <3>4. plc'.pc = pc /\ plc'.row = plc.row  BY <2>2, <3>1, <3>3, NextPlan
    <3>5. plc'.pc # "insert" /\ plc.pc # "insert" /\ plc.pc \in {"prepare", "record", "remember"}
      BY <3>1, <3>2, <3>4
    <3>6. QED  BY <2>1, <2>2, <2>3, <3>2, <3>4, <3>5, <1>4
  <2>6. CASE PrepareResponse \/ RecordResponse \/ UpdateAlarm \/ DeleteAlert
    <3>1. PICK pc \in {"record_response", "update", "delete", "forget"} :
            plc' = [plc EXCEPT !.pc = pc]
      BY <2>6 DEF PrepareResponse, RecordResponse, UpdateAlarm, DeleteAlert
    <3>2. plc.pc \in {"prepare_response", "record_response", "update", "delete"}
      BY <2>6 DEF PrepareResponse, RecordResponse, UpdateAlarm, DeleteAlert
    <3>3. pc \in OldRow  BY DEF OldRow
    <3>4. plc'.pc = pc /\ plc'.row = plc.row  BY <2>2, <3>1, <3>3, NextPlan
    <3>5. /\ plc.pc # "insert" /\ plc'.pc # "insert"
          /\ plc'.pc \notin {"prepare", "record", "remember"}
      BY <3>1, <3>2, <3>4
    <3>6. QED  BY <2>1, <2>2, <2>3, <3>4, <3>5, <1>4
  <2>7. QED  BY <1>5, <2>4, <2>5, <2>6 DEF PLCStep
<1>6. CASE ~PLCStep /\ ~\E i \in Index : Alert(i) \/ Respond(i)
  <2>1. Known' \subseteq Known /\ uuids' = uuids  BY <1>6, KnownStep DEF PLCStep
  <2>2. plc' \in {plc, Idle} /\ alerts_db' = alerts_db
    BY <1>6 DEF JournalNext, JournalConstruct, OnFolderReady, step, JournalStart, JournalDirectoryStep,
       JournalFileCreated, JournalRotation, Flip, JournalCrash, AccessViolation, ForgetAll, vars
  <2>3. QED  BY <2>1, <2>2, <1>4
<1>7. QED  BY <1>1, <1>2, <1>3, <1>5, <1>6

\* The invariant of the rows holds whenever and whatever the PLC delivers.
LEMMA RowsInvariant == JournalSpec => [](AlarmTypes /\ RowsInv)
<1>1. JournalInit => AlarmTypes /\ RowsInv
  BY AlarmTypesInit DEF JournalInit, RowsInv, Known, Mapped, Idle
<1>2. TimerInv /\ AlarmTypes /\ RowsInv /\ [JournalNext]_vars => AlarmTypes' /\ RowsInv'
  BY AlarmTypesStep, RowsStep
<1>3. QED  BY <1>1, <1>2, DatabaseInvariant, PTL DEF JournalSpec

-----------------------------------------------------------------------------
(***************************************************************************)
(* The map and alerts.db, action by action, as long as nothing has been    *)
(* delivered while alerts.db was read.                                     *)
(***************************************************************************)

\* What the ledger invariant does not look at may change.
LEMMA LedgerUnchanged ==
  ASSUME LedgerInv, UNCHANGED <<alerts, alerts_db, plc>>, Restored' = Restored, Opened',
         phase' \notin {"starting", "running"} => plc = Idle
  PROVE  LedgerInv'
  BY DEF LedgerInv, OneRowEach, PLCRuns, MapAgrees, InsertedOnly, DeletedOnly

\* A new process remembers nothing, and alerts.db is as it was.
LEMMA LedgerForgotten ==
  ASSUME LedgerInv, ForgetAll, Die
  PROVE  LedgerInv'
<1>1. OneRowEach'  BY DEF LedgerInv, OneRowEach, ForgetAll, diskVars
<1>2. PLCRuns'     BY DEF PLCRuns, ForgetAll
<1>3. Restored' = {}  BY DEF Restored, Die
<1>4. MapAgrees'   BY <1>3 DEF MapAgrees, ForgetAll
<1>5. Opened'      BY DEF Opened, ForgetAll
<1>6. QED  BY <1>1, <1>2, <1>4, <1>5 DEF LedgerInv

\* AlarmMS::step restores a row: the alarm was not in the map.
LEMMA LedgerRestores ==
  ASSUME AlarmTypes, TimerInv, LedgerInv, NEW row \in ahead, step(row)
  PROVE  LedgerInv'
<1>0. /\ row \in alerts_db /\ row \in Rows /\ row.index \in Index
      /\ \A r \in alerts_db : r.index \in Index
  BY DEF AlarmTypes, Rows, LedgerInv, Opened
<1>1. /\ phase \in {"getting", "making"} /\ ui = "folder_ready"
      /\ UNCHANGED <<phase, ui, plc, alerts_dbc, alerts_db>> /\ ahead' = ahead \ {row}
  BY DEF step, Restoring, TimerInv, Order, sqliteVars, dirVars, diskVars
<1>2. plc = Idle  BY <1>1 DEF LedgerInv, PLCRuns
<1>3. Restored = alerts_db \ ahead /\ Restored' = alerts_db \ (ahead \ {row})
  BY <1>1 DEF Restored
<1>4. alerts \in [Index -> Rows \cup {NoRow}]  BY DEF AlarmTypes
<1>5. Restored' = Restored \cup {row}  BY <1>0, <1>3
<1>6. \A r : ~InsertedOnly(r) /\ ~DeletedOnly(r)
  BY <1>2 DEF InsertedOnly, DeletedOnly, Idle
<1>7. alerts[row.index] = NoRow
  <2>1. SUFFICES ASSUME alerts[row.index] # NoRow PROVE FALSE  OBVIOUS
  <2>2. alerts[row.index].index = row.index /\ alerts[row.index] \in Restored
    BY <2>1, <1>0, <1>6 DEF LedgerInv, MapAgrees
  <2>3. alerts[row.index] = row  BY <2>2, <1>0, <1>3 DEF LedgerInv, OneRowEach
  <2>4. QED  BY <2>2, <2>3, <1>3
<1>8. alerts' = [alerts EXCEPT ![row.index] = row]
  BY <1>2, <1>7 DEF step, Raced, Inserted, Idle
<1>9. MapAgrees'
  <2>1. \A r \in Restored' : alerts'[r.index] = r
    <3>1. TAKE r \in Restored'
    <3>2. CASE r = row  BY <3>2, <1>0, <1>4, <1>8
    <3>3. CASE r \in Restored
      <4>1. alerts[r.index] = r /\ r \in Rows
        BY <3>3, <1>3, <1>6 DEF LedgerInv, MapAgrees, AlarmTypes
      <4>2. r.index # row.index  BY <4>1, <1>7, NoRowAssumption
      <4>3. r.index \in Index  BY <4>1 DEF Rows
      <4>4. QED  BY <4>1, <4>2, <4>3, <1>0, <1>4, <1>8
    <3>4. QED  BY <3>1, <3>2, <3>3, <1>5
  <2>2. \A i \in Index : alerts'[i] # NoRow => alerts'[i].index = i /\ alerts'[i] \in Restored'
    <3>1. TAKE i \in Index
    <3>2. CASE i = row.index  BY <3>2, <1>0, <1>4, <1>5, <1>8
    <3>3. CASE i # row.index
      BY <3>3, <1>0, <1>4, <1>5, <1>6, <1>8 DEF LedgerInv, MapAgrees
    <3>4. QED  BY <3>2, <3>3
  <2>3. QED  BY <2>1, <2>2 DEF MapAgrees
<1>10. OneRowEach' /\ Opened'  BY <1>1 DEF LedgerInv, OneRowEach, Opened
<1>11. PLCRuns'     BY <1>1, <1>2 DEF PLCRuns
<1>12. QED  BY <1>9, <1>10, <1>11 DEF LedgerInv

\* Data that are not looked at while alerts.db is read find it open only once
\* the data source runs.
LEMMA ScanRuns ==
  ASSUME TimerInv, LedgerInv, ~overlap', NEW i \in Index, Alert(i) \/ Respond(i)
  PROVE  phase \in {"starting", "running"} /\ plc = Idle /\ ui # "folder_ready"
<1>1. plc = Idle /\ ui # "folder_ready"
  BY DEF Alert, Respond, Scanning, Overlaps, Restoring
<1>2. CASE Alert(i)
  BY <1>1, <1>2 DEF Alert, LedgerInv, Opened
<1>3. CASE Respond(i)
  <2>1. alerts[i] # NoRow  BY <1>3 DEF Respond
  <2>2. Restored # {}
    BY <1>1, <2>1 DEF LedgerInv, MapAgrees, DeletedOnly, Idle
  <2>3. QED  BY <1>1, <2>2 DEF Restored
<1>4. QED  BY <1>1, <1>2, <1>3

\* The scan finds an alarm that begins to alert: it is nowhere yet.
LEMMA LedgerAlerts ==
  ASSUME AlarmTypes, TimerInv, LedgerInv, ~overlap', NEW i \in Index, Alert(i)
  PROVE  LedgerInv'
<1>1. /\ phase \in {"starting", "running"} /\ plc = Idle /\ alerts[i] = NoRow
      /\ UNCHANGED <<phase, ui, alerts, alerts_db, ahead, alerts_dbc>>
      /\ clock \in Nat /\ uuids \in Nat /\ uuids' = uuids + 1
  BY ScanRuns DEF Alert, NotFound, Restoring, sqliteVars, dirVars, diskVars, TimerInv, TypeOK, AlarmTypes
<1>2. [uuid |-> uuids', index |-> i, alarmtime |-> clock, fixedtime |-> 0] \in Rows
  BY <1>1 DEF Rows
<1>3. plc' # Idle /\ plc'.pc = "insert" /\ plc'.row.index = i
  BY <1>1, <1>2, NewPlan DEF Alert, NewRow
<1>4. Restored = alerts_db /\ Restored' = alerts_db  BY <1>1 DEF Restored
<1>5. \A r : ~InsertedOnly(r) /\ ~DeletedOnly(r)
  BY <1>1 DEF InsertedOnly, DeletedOnly, Idle
<1>6. \A r \in alerts_db : r.index # i
  <2>1. \A r \in alerts_db : alerts[r.index] = r /\ r \in Rows
    BY <1>4, <1>5 DEF LedgerInv, MapAgrees, AlarmTypes
  <2>2. QED  BY <2>1, <1>1, NoRowAssumption
<1>7. OneRowEach' /\ Opened'  BY <1>1 DEF LedgerInv, OneRowEach, Opened
<1>8. PLCRuns'     BY <1>1, <1>3, <1>6 DEF PLCRuns, OldRow
<1>9. MapAgrees'
  BY <1>1, <1>3, <1>4, <1>5 DEF LedgerInv, MapAgrees
<1>10. QED  BY <1>7, <1>8, <1>9 DEF LedgerInv

\* The scan finds an alarm that has ceased to alert.
LEMMA LedgerResponds ==
  ASSUME AlarmTypes, TimerInv, LedgerInv, ~overlap', NEW i \in Index, Respond(i)
  PROVE  LedgerInv'
<1>1. /\ phase \in {"starting", "running"} /\ plc = Idle /\ alerts[i] # NoRow
      /\ UNCHANGED <<phase, ui, alerts, alerts_db, ahead, alerts_dbc>> /\ clock \in Nat
  BY ScanRuns DEF Respond, sqliteVars, dirVars, diskVars, TimerInv, TypeOK
<1>2. alerts[i] \in Rows  BY <1>1 DEF AlarmTypes
<1>3. plc' # Idle /\ plc'.pc = "prepare_response" /\ plc'.row = alerts[i]
  BY <1>1, <1>2, NewPlan DEF Respond, OldRow
<1>4. Restored = alerts_db /\ Restored' = alerts_db  BY <1>1 DEF Restored
<1>5. \A r : ~InsertedOnly(r) /\ ~DeletedOnly(r)
  BY <1>1 DEF InsertedOnly, DeletedOnly, Idle
<1>6. alerts[i] \in alerts_db /\ alerts[i].index = i
  BY <1>1, <1>4, <1>5 DEF LedgerInv, MapAgrees
<1>7. OneRowEach' /\ Opened'  BY <1>1 DEF LedgerInv, OneRowEach, Opened
<1>8. PLCRuns'     BY <1>1, <1>3, <1>6 DEF PLCRuns, NewRow
<1>9. MapAgrees'  BY <1>1, <1>4, <1>5 DEF LedgerInv, MapAgrees
<1>10. QED  BY <1>7, <1>8, <1>9 DEF LedgerInv

\* A step of save or of the rest of on_digital_input.
LEMMA LedgerPLCStep ==
  ASSUME AlarmTypes, TimerInv, RowsInv, LedgerInv, PLCStep
  PROVE  LedgerInv'
<1> DEFINE row == plc.row
<1>0. /\ plc \in Plans /\ plc # Idle /\ plc.pc \in NewRow \cup OldRow
      /\ row \in Rows /\ row.uuid \in Nat /\ row.index \in Index
  BY StepsHavePlans
<1>1. phase \in {"starting", "running"} /\ ~Restoring
  BY <1>0 DEF LedgerInv, PLCRuns, TimerInv, Order, Restoring
<1>2. Restored = alerts_db  BY <1>1 DEF Restored
<1>3. \A r \in alerts_db : r \in Rows /\ r.index \in Index  BY DEF AlarmTypes, Rows
<1>4. alerts \in [Index -> Rows \cup {NoRow}]  BY DEF AlarmTypes
<1>5. ASSUME UNCHANGED dirVars
      PROVE  phase' = phase /\ Restored' = alerts_db'
  BY <1>5, <1>1 DEF dirVars, Restored
<1>6. ahead = {} /\ (UNCHANGED dirVars /\ ahead' = {} => Opened')
  BY <1>1 DEF dirVars, Restoring, LedgerInv, Opened
<1>7. CASE InsertAlert
  <2>1. /\ plc.pc = "insert" /\ alerts_db' = alerts_db \cup {row} /\ UNCHANGED <<alerts, dirVars>>
        /\ plc'.pc = "prepare" /\ plc'.row = row /\ plc' # Idle /\ ahead' = ahead
    BY <1>1, <1>7, <1>0, NextPlan DEF InsertAlert, sqliteVars, NewRow
  <2>2. /\ \A r \in alerts_db : r.index # row.index
        /\ alerts[row.index] = NoRow
    BY <2>1, <1>0 DEF LedgerInv, PLCRuns, NewRow
  <2>3. OneRowEach' /\ Opened'
    BY <2>1, <2>2, <1>6 DEF LedgerInv, OneRowEach, Opened
  <2>4. PLCRuns'     BY <2>1, <2>2, <1>1, <1>5 DEF PLCRuns, OldRow
  <2>5. MapAgrees'
    BY <2>1, <1>2, <1>5 DEF LedgerInv, MapAgrees, InsertedOnly, DeletedOnly
  <2>6. QED  BY <2>3, <2>4, <2>5 DEF LedgerInv
<1>8. CASE PrepareAlert \/ RecordAlert
  <2>1. /\ plc.pc \in {"prepare", "record"} /\ UNCHANGED <<alerts, alerts_db, ahead, dirVars>>
        /\ plc'.pc \in {"record", "remember"} /\ plc'.row = row /\ plc' # Idle
    BY <1>8, <1>0, NextPlan
       DEF PrepareAlert, RecordAlert, Prepare, Finalize, diskVars, NewRow
  <2>2. OneRowEach' /\ Opened'  BY <2>1, <1>6 DEF LedgerInv, OneRowEach, Opened
  <2>3. PLCRuns'     BY <2>1, <1>0, <1>1, <1>5 DEF LedgerInv, PLCRuns, NewRow, OldRow
  <2>4. MapAgrees'
    BY <2>1, <1>2, <1>5 DEF LedgerInv, MapAgrees, InsertedOnly, DeletedOnly
  <2>5. QED  BY <2>2, <2>3, <2>4 DEF LedgerInv
<1>9. CASE RememberAlert
  <2>1. plc.pc = "remember" /\ plc' = Idle /\ UNCHANGED <<alerts_db, ahead, dirVars>>
    BY <1>9 DEF RememberAlert, sqliteVars, diskVars
  <2>2. alerts[row.index] = NoRow /\ row \in alerts_db
    BY <2>1, <1>0 DEF LedgerInv, PLCRuns, RowsInv, NewRow
  <2>3. alerts' = [alerts EXCEPT ![row.index] = row]
    BY <1>1, <1>9, <2>2 DEF RememberAlert, Raced, Inserted
  <2>4. OneRowEach' /\ Opened'  BY <2>1, <1>6 DEF LedgerInv, OneRowEach, Opened
  <2>5. PLCRuns'     BY <2>1 DEF PLCRuns
  <2>6. \A r \in alerts_db : alerts'[r.index] = r
    <3>1. TAKE r \in alerts_db
    <3>2. CASE r = row  BY <3>2, <2>3, <1>0, <1>4
    <3>3. CASE r # row
      <4>1. r.index # row.index  BY <3>3, <2>2 DEF LedgerInv, OneRowEach
      <4>2. alerts[r.index] = r
        BY <3>3, <1>2 DEF LedgerInv, MapAgrees, InsertedOnly
      <4>3. QED  BY <4>1, <4>2, <2>3, <1>0, <1>3, <1>4
    <3>4. QED  BY <3>2, <3>3
  <2>7. \A i \in Index : alerts'[i] # NoRow => alerts'[i].index = i /\ alerts'[i] \in alerts_db
    <3>1. TAKE i \in Index
    <3>2. CASE i = row.index  BY <3>2, <2>2, <2>3, <1>0, <1>4
    <3>3. CASE i # row.index
      BY <3>3, <2>1, <2>3, <1>0, <1>2, <1>4 DEF LedgerInv, MapAgrees, DeletedOnly
    <3>4. QED  BY <3>2, <3>3
  <2>8. MapAgrees'  BY <2>1, <2>6, <2>7, <1>5 DEF MapAgrees
  <2>9. QED  BY <2>4, <2>5, <2>8 DEF LedgerInv
<1>10. CASE PrepareResponse \/ RecordResponse \/ UpdateAlarm
  <2>1. /\ plc.pc \in {"prepare_response", "record_response", "update"}
        /\ UNCHANGED <<alerts, alerts_db, ahead, dirVars>>
        /\ plc'.pc \in {"record_response", "update", "delete"} /\ plc'.row = row /\ plc' # Idle
    BY <1>10, <1>0, NextPlan
       DEF PrepareResponse, RecordResponse, UpdateAlarm, Prepare, Finalize, diskVars, sqliteVars, OldRow
  <2>2. OneRowEach' /\ Opened'  BY <2>1, <1>6 DEF LedgerInv, OneRowEach, Opened
  <2>3. PLCRuns'     BY <2>1, <1>0, <1>1, <1>5 DEF LedgerInv, PLCRuns, NewRow, OldRow
  <2>4. MapAgrees'
    BY <2>1, <1>2, <1>5 DEF LedgerInv, MapAgrees, InsertedOnly, DeletedOnly
  <2>5. QED  BY <2>2, <2>3, <2>4 DEF LedgerInv
<1>11. CASE DeleteAlert
  <2>1. /\ plc.pc = "delete" /\ alerts_db' = Without(alerts_db)
        /\ UNCHANGED <<alerts, dirVars>> /\ ahead' \in {ahead, Without(ahead)}
        /\ plc'.pc = "forget" /\ plc'.row = row /\ plc' # Idle
    BY <1>11, <1>0, NextPlan DEF DeleteAlert, sqliteVars, OldRow
  <2>2. alerts[row.index] = row  BY <2>1, <1>0 DEF LedgerInv, PLCRuns, OldRow
  <2>3. row \in alerts_db
    BY <2>1, <2>2, <1>0, <1>2, NoRowAssumption DEF LedgerInv, MapAgrees, DeletedOnly
  <2>4. alerts_db' = alerts_db \ {row}
    BY <2>1, <2>3, <1>0 DEF Without, RowsInv, Known
  <2>5. \A r \in alerts_db' : r.index # row.index  BY <2>3, <2>4 DEF LedgerInv, OneRowEach
  <2>6. OneRowEach'  BY <2>4 DEF LedgerInv, OneRowEach
  <2>7. PLCRuns'     BY <2>1, <2>2, <2>5, <1>0, <1>1, <1>5 DEF LedgerInv, PLCRuns, NewRow, OldRow
  <2>8. MapAgrees'
    BY <2>1, <2>4, <1>2, <1>5 DEF LedgerInv, MapAgrees, InsertedOnly, DeletedOnly
  <2>9. Opened'  BY <2>1, <1>6 DEF Without
  <2>10. QED  BY <2>6, <2>7, <2>8, <2>9 DEF LedgerInv
<1>12. CASE ForgetAlert
  <2>1. /\ plc.pc = "forget" /\ plc' = Idle /\ alerts' = [alerts EXCEPT ![row.index] = NoRow]
        /\ UNCHANGED <<alerts_db, ahead, dirVars>>
    BY <1>1, <1>12 DEF ForgetAlert, Raced, sqliteVars, diskVars
  <2>2. \A r \in alerts_db : r.index # row.index  BY <2>1, <1>0 DEF LedgerInv, PLCRuns
  <2>3. OneRowEach' /\ Opened'  BY <2>1, <1>6 DEF LedgerInv, OneRowEach, Opened
  <2>4. PLCRuns'     BY <2>1 DEF PLCRuns
  <2>5. \A r \in alerts_db : alerts'[r.index] = r
    BY <2>1, <2>2, <1>2, <1>3, <1>4 DEF LedgerInv, MapAgrees, InsertedOnly
  <2>6. \A i \in Index : alerts'[i] # NoRow => alerts'[i].index = i /\ alerts'[i] \in alerts_db
    BY <2>1, <1>0, <1>2, <1>4 DEF LedgerInv, MapAgrees, DeletedOnly
  <2>7. MapAgrees'  BY <2>1, <2>5, <2>6, <1>5 DEF MapAgrees
  <2>8. QED  BY <2>3, <2>4, <2>7 DEF LedgerInv
<1>13. QED  BY <1>7, <1>8, <1>9, <1>10, <1>11, <1>12 DEF PLCStep

\* Every step of the journal that does not look at data while alerts.db is read
\* keeps the map, alerts.db and what the threads are about to do consistent.
LEMMA LedgerStep ==
  ASSUME AlarmTypes, TimerInv, RowsInv, LedgerInv, ~overlap', [JournalNext]_vars
  PROVE  LedgerInv'
<1> USE DEF memoryVars, diskVars, envVars, ghostVars, alarmVars
<1>0. Order /\ phase \in Phases /\ ui \in UIs  BY DEF TimerInv, TypeOK
<1>1. ASSUME UNCHANGED <<alerts, alerts_db, alerts_dbc, plc, ahead>>,
             phase' \in {"starting", "running"} <=> phase \in {"starting", "running"},
             ui' = "folder_ready" <=> ui = "folder_ready"
      PROVE  LedgerInv'
  <2>1. Restored' = Restored /\ Opened'  BY <1>1 DEF Restored, LedgerInv, Opened
  <2>2. phase' \notin {"starting", "running"} => plc = Idle  BY <1>1 DEF LedgerInv, PLCRuns
  <2>3. QED  BY <1>1, <2>1, <2>2, LedgerUnchanged
<1>2. CASE JournalConstruct \/ (FolderNotFound /\ JournalDirectoryStep)
  BY <1>1, <1>2
     DEF JournalConstruct, SQLiteConstruct, Construct, JournalDirectoryStep, FolderNotFound
<1>3. CASE OnFolderReady
  <2>1. /\ phase \in {"getting", "making"} /\ phase' = phase /\ ui = "loop" /\ ui' = "folder_ready"
        /\ ahead' = alerts_db /\ UNCHANGED <<alerts, alerts_db, plc>>
    BY <1>3 DEF OnFolderReady, FolderGot, FolderCreated
  <2>2. Restored = {} /\ Restored' = {} /\ Opened'  BY <2>1 DEF Restored, Opened
  <2>3. plc = Idle  BY <2>1 DEF LedgerInv, PLCRuns
  <2>4. QED  BY <2>1, <2>2, <2>3, LedgerUnchanged
<1>4. ASSUME NEW row \in ahead, step(row) PROVE LedgerInv'
  BY <1>4, LedgerRestores
<1>5. CASE JournalStart
  <2>1. /\ phase \in {"getting", "making"} /\ ui = "folder_ready" /\ ui' = "loop" /\ phase' = "starting"
        /\ ahead = {} /\ UNCHANGED <<alerts, alerts_db, plc, ahead>>
    BY <1>5, <1>0 DEF JournalStart, MissionStart, Order
  <2>2. Restored' = Restored /\ Opened'  BY <2>1 DEF Restored, Opened
  <2>3. plc = Idle  BY <2>1 DEF LedgerInv, PLCRuns
  <2>4. QED  BY <2>1, <2>2, <2>3, LedgerUnchanged
<1>6. CASE (Tick \/ Wake \/ ClockTick) /\ JournalDirectoryStep
  BY <1>0, <1>1, <1>6 DEF JournalDirectoryStep, Tick, Wake, ClockTick, SleepOrRotate
<1>7. ASSUME NEW r \in creating, JournalFileCreated(r) PROVE LedgerInv'
  BY <1>1, <1>7 DEF JournalFileCreated, FileCreatedOnDisk, FileCreated
<1>8. CASE JournalRotation
  <2>1. UNCHANGED <<alerts, alerts_db, alerts_dbc, plc, ahead>>  BY <1>8 DEF JournalRotation
  <2>2. /\ phase \in {"starting", "running"} /\ phase' \in {"starting", "running"}
        /\ ui # "folder_ready" /\ ui' # "folder_ready"
    BY <1>8, <1>0
       DEF JournalRotation, NewConnection, FileArrived, lockfree_previous_connection, EmployNew,
           TimerArmed, dirVars, Order
  <2>3. QED  BY <1>1, <2>1, <2>2
<1>9. ASSUME NEW i \in Index, Flip(i) PROVE LedgerInv'
  BY <1>1, <1>9 DEF Flip, sqliteVars, dirVars
<1>10. ASSUME NEW i \in Index, Alert(i) PROVE LedgerInv'    BY <1>10, LedgerAlerts
<1>11. ASSUME NEW i \in Index, Respond(i) PROVE LedgerInv'  BY <1>11, LedgerResponds
<1>12. CASE PLCStep  BY <1>12, LedgerPLCStep
<1>13. CASE JournalCrash \/ AccessViolation
  BY <1>13, LedgerForgotten
     DEF JournalCrash, AccessViolation, SQLiteCrash, SQLiteCreationFailed, Crash, CreationFailed
<1>14. CASE UNCHANGED vars  BY <1>1, <1>14 DEF vars, sqliteVars, dirVars
<1>15. JournalDirectoryStep =>
         (FolderNotFound \/ Tick \/ Wake \/ ClockTick) /\ JournalDirectoryStep
  BY DEF JournalDirectoryStep
<1>16. QED
  BY <1>2, <1>3, <1>4, <1>5, <1>6, <1>7, <1>8, <1>9, <1>10, <1>11, <1>12, <1>13, <1>14, <1>15 DEF JournalNext

-----------------------------------------------------------------------------
\* Once the ledger is disturbed, it stays so.
LEMMA OverlapStays ==
  ASSUME AlarmTypes, [JournalNext]_vars
  PROVE  overlap' = overlap \/ overlap' = TRUE
<1>1. CASE Overlaps  BY <1>1 DEF AlarmTypes, Overlaps, Restoring
<1>2. CASE UNCHANGED overlap  BY <1>2
<1>3. QED
  BY <1>1, <1>2
     DEF JournalNext, JournalConstruct, OnFolderReady, step, JournalStart, JournalDirectoryStep,
         JournalFileCreated, JournalRotation, Flip, Alert, Respond, PLCStep, InsertAlert, PrepareAlert,
         RecordAlert, RememberAlert, PrepareResponse, RecordResponse, UpdateAlarm, DeleteAlert, ForgetAlert,
         JournalCrash, AccessViolation, vars, alarmVars, ghostVars

\* The invariant behind the ledger.
THEOREM LedgerInvariant == JournalSpec => [](~overlap => LedgerInv)
<1>1. JournalInit => LedgerInv
  BY DEF JournalInit, SQLiteInit, Init, LedgerInv, OneRowEach, PLCRuns, Opened, MapAgrees, Restored, Idle
<1>2. TimerInv /\ AlarmTypes /\ RowsInv /\ (~overlap => LedgerInv) /\ [JournalNext]_vars
        => (~overlap => LedgerInv)'
  <2>1. SUFFICES ASSUME TimerInv, AlarmTypes, RowsInv, ~overlap => LedgerInv, [JournalNext]_vars, ~overlap'
                 PROVE  LedgerInv'
    OBVIOUS
  <2>2. ~overlap  BY <2>1, OverlapStays
  <2>3. QED  BY <2>1, <2>2, LedgerStep
<1>3. QED  BY <1>1, <1>2, DatabaseInvariant, RowsInvariant, PTL DEF JournalSpec

\* alerts.db is the ledger of the alarms that alert, in whatever phase the PLC
\* delivers data: every restart finds the entries, they are entered and removed
\* one by one, and each alarm is entered once at a time as long as no data are
\* looked at while alerts.db is read.
THEOREM JournalIsLedger == JournalSpec => LedgerSpec
<1>1. JournalInit => Ledger!Init  BY DEF JournalInit, Ledger!Init
<1>2. ASSUME AlarmTypes, RowsInv, ~overlap => LedgerInv, [JournalNext]_vars
      PROVE  [Ledger!Next]_<<alerts_db, overlap>>
  <2>1. CASE InsertAlert
    <3>1. plc \in Plans /\ plc # Idle /\ plc.row \in Rows /\ plc.row.uuid \in Nat
      BY <1>2, <2>1, StepsHavePlans DEF PLCStep
    <3>2. plc.row \notin alerts_db
      BY <1>2, <2>1, <3>1 DEF InsertAlert, RowsInv, Known
    <3>3. overlap \/ \A other \in alerts_db : other.index # plc.row.index
      BY <1>2, <2>1, <3>1 DEF InsertAlert, LedgerInv, PLCRuns
    <3>4. Ledger!Raise(plc.row)
      BY <2>1, <3>1, <3>2, <3>3 DEF InsertAlert, Ledger!Raise, ghostVars
    <3>5. plc.row \in alerts_db'  BY <2>1 DEF InsertAlert
    <3>6. QED  BY <3>4, <3>5 DEF Ledger!Next
  <2>2. CASE DeleteAlert
    <3>1. plc.pc = "delete" /\ plc # Idle /\ UNCHANGED overlap /\ alerts_db' = Without(alerts_db)
      BY <1>2, <2>2, StepsHavePlans DEF DeleteAlert, PLCStep, ghostVars
    <3>2. \A r \in alerts_db : r.uuid = plc.row.uuid => r = plc.row
      BY <1>2, <3>1 DEF RowsInv, Known
    <3>3. CASE plc.row \in alerts_db
      <4>1. alerts_db' = alerts_db \ {plc.row}  BY <3>1, <3>2 DEF Without
      <4>2. QED  BY <3>1, <3>3, <4>1 DEF Ledger!Next, Ledger!Fix
    <3>4. CASE plc.row \notin alerts_db
      <4>1. alerts_db' = alerts_db  BY <3>1, <3>2, <3>4 DEF Without
      <4>2. QED  BY <3>1, <4>1
    <3>5. QED  BY <3>3, <3>4
  <2>3. CASE UNCHANGED alerts_db
    <3>1. overlap' = overlap \/ overlap' = TRUE  BY <1>2, OverlapStays
    <3>2. QED  BY <2>3, <3>1 DEF Ledger!Next, Ledger!Disturb
  <2>4. CASE ~InsertAlert /\ ~DeleteAlert
    <3>1. UNCHANGED alerts_db
      BY <1>2, <2>4
         DEF JournalNext, JournalConstruct, OnFolderReady, step, JournalStart, JournalDirectoryStep,
             JournalFileCreated, JournalRotation, Flip, Alert, Respond, PLCStep, PrepareAlert,
             RecordAlert, RememberAlert, PrepareResponse, RecordResponse, UpdateAlarm, ForgetAlert,
             JournalCrash, AccessViolation, ForgetAll, vars, alarmVars, diskVars
    <3>2. QED  BY <2>3, <3>1
  <2>5. QED  BY <2>1, <2>2, <2>4
<1>3. QED  BY <1>1, <1>2, LedgerInvariant, RowsInvariant, PTL DEF JournalSpec, LedgerSpec, Ledger!Spec

\* The map in memory and alerts.db agree whenever the PLC thread is idle, if no
\* data were looked at while alerts.db was read.
THEOREM MapIsAlwaysAlertsDB == JournalSpec => []MapIsAlertsDB
<1>1. ASSUME AlarmTypes, ~overlap => LedgerInv PROVE MapIsAlertsDB
  <2>1. SUFFICES ASSUME phase \in {"starting", "running"}, plc = Idle, LedgerInv
                 PROVE  {alerts[i] : i \in Index} \ {NoRow} = alerts_db
    BY <1>1 DEF MapIsAlertsDB
  <2>2. Restored = alerts_db /\ \A row : ~InsertedOnly(row) /\ ~DeletedOnly(row)
    BY <2>1 DEF Restored, InsertedOnly, DeletedOnly, Idle
  <2>3. \A row \in alerts_db : row.index \in Index /\ alerts[row.index] = row /\ row # NoRow
    BY <1>1, <2>1, <2>2, NoRowAssumption DEF LedgerInv, MapAgrees, AlarmTypes, Rows
  <2>4. \A i \in Index : alerts[i] # NoRow => alerts[i] \in alerts_db
    BY <2>1, <2>2 DEF LedgerInv, MapAgrees
  <2>5. QED  BY <2>3, <2>4
<1>2. QED  BY <1>1, LedgerInvariant, RowsInvariant, PTL

-----------------------------------------------------------------------------
(***************************************************************************)
(* PART 4.  The history.                                                   *)
(***************************************************************************)

-----------------------------------------------------------------------------
(***************************************************************************)
(* The invariants of the directory, its rotations and its connections hold *)
(* under the journal.                                                      *)
(***************************************************************************)
RotationInv == TimerInv /\ ConnInv /\ PeriodInv /\ OnCurrentFile

LEMMA RotationStep ==
  ASSUME RotationInv, TimerInv', ConnInv', [JournalNext]_vars
  PROVE  RotationInv'
<1>1. CASE [SQLiteNext]_sqliteVars
  BY <1>1, FollowsDirectory, PeriodStep, OnCurrentFileStep DEF RotationInv
<1>2. CASE Die /\ LoseConnections
  <2>1. OnCurrentFile'
    BY <1>2 DEF Die, LoseConnections, OnCurrentFile, EmployedOnCurrentFile
  <2>2. QED  BY <1>2, <2>1, DeathStep DEF RotationInv
<1>3. QED  BY <1>1, <1>2, FollowsDatabase

LEMMA RotationInvariant == JournalSpec => []RotationInv
<1>1. JournalInit => RotationInv
  BY ConnInit, TimerInit, PeriodInit, OnCurrentFileInit DEF JournalInit, SQLiteInit, RotationInv
<1>2. TimerInv /\ ConnInv /\ RotationInv /\ TimerInv' /\ ConnInv' /\ [JournalNext]_vars
        => RotationInv'
  BY RotationStep
<1>3. QED  BY <1>1, <1>2, DatabaseInvariant, PTL DEF JournalSpec

-----------------------------------------------------------------------------
(***************************************************************************)
(* The files.  ReplaceExisting leaves nothing of an existing file; that no *)
(* row is lost depends on that the file asked for is later than all that   *)
(* have rows, or is the current one, which cannot be replaced while it is  *)
(* employed.                                                               *)
(***************************************************************************)

\* The file b is of a period that has begun, and not after the current file,
\* nor after that the first creation of a run is for.
NotAfter(b) ==
  /\ Boundary(b) /\ b <= clock
  /\ current_file \in Nat => b <= current_file
  /\ phase = "starting" => \A r \in creating : b <= r.stamp

Filed ==
  /\ history \subseteq [file : Nat, row : Rows]
  /\ \A e \in history : NotAfter(e.file)

\* The connections are to memory and to files that are not after the current
\* one; from the first rotation on the employee is one to a file.
OnFiles ==
  /\ \A c \in open : c.file = Memory \/
       /\ c.file \in Nat /\ Boundary(c.file)
       /\ current_file \in Nat /\ c.file <= current_file
  /\ phase = "running" => employee.file # Memory

FilesInv == Filed /\ OnFiles

\* A file that is not after the current one never will be.
LEMMA NotAfterStep ==
  ASSUME RotationInv, [JournalNext]_vars, NEW b \in Nat, NotAfter(b)
  PROVE  NotAfter(b)'
<1> USE DEF NotAfter
<1>0. /\ clock \in Nat /\ Boundary(b)' /\ floor_seconds(clock) \in Nat
      /\ \A r \in creating : r.stamp \in Nat
      /\ current_file \in Nat => \A r \in creating : current_file <= r.stamp
      /\ creating # {} => phase \in {"starting", "running"}
      /\ phase = "running" => current_file \in Nat
  BY OfRequest, Floor DEF RotationInv, TimerInv, TypeOK, Order, CurrentBegun, PeriodInv, OnePeriod, Boundary
<1>1. CASE Die
  BY <1>0, <1>1, NoFileAssumption DEF Die
<1>2. CASE UNCHANGED dirVars  BY <1>0, <1>2 DEF dirVars
<1>3. CASE MissionStart
  <2>1. b <= Request(clock).stamp  BY <1>0, FloorIsLast DEF Request
  <2>2. QED  BY <1>0, <1>3, <2>1 DEF MissionStart
<1>4. ASSUME NEW r \in creating, FileArrived(r) PROVE NotAfter(b)'
  <2>1. b <= r.stamp
    <3>1. CASE phase = "starting"  BY <3>1
    <3>2. CASE phase = "running"  BY <1>0, <3>2
    <3>3. QED  BY <1>0, <3>1, <3>2
  <2>2. QED  BY <1>0, <1>4, <2>1 DEF FileArrived
<1>5. ASSUME NEW r \in creating, FileCreated(r) PROVE NotAfter(b)'
  <2>1. [r EXCEPT !.done = TRUE].stamp = r.stamp
    BY DEF RotationInv, TimerInv, TypeOK, Requests
  <2>2. QED  BY <1>0, <1>5, <2>1 DEF FileCreated
<1>6. CASE Construct \/ FolderGot \/ FolderNotFound \/ FolderCreated \/ TimerArmed
  BY <1>0, <1>6 DEF Construct, FolderGot, FolderNotFound, FolderCreated, TimerArmed
<1>7. CASE Tick \/ Wake
  <2>1. phase = "running" /\ phase' = phase /\ current_file' = current_file /\ clock' = clock
    BY <1>7 DEF Tick, Wake, SleepOrRotate, RotationInv, TimerInv, Order
  <2>2. QED  BY <1>0, <2>1
<1>8. CASE ClockTick  BY <1>0, <1>8 DEF ClockTick
<1>9. QED
  <2>1. Next \/ UNCHANGED dirVars \/ Die
    BY FollowsDatabase, FollowsDirectory
  <2>2. QED
    BY <2>1, <1>1, <1>2, <1>3, <1>4, <1>5, <1>6, <1>7, <1>8 DEF Next, CreationFailed, Crash

\* The file of an open connection is one that an entry may be in.
LEMMA OfConnection ==
  ASSUME RotationInv, OnFiles, NEW c \in open, c.file # Memory
  PROVE  c.file \in Nat /\ NotAfter(c.file)
<1>1. /\ c.file \in Nat /\ Boundary(c.file) /\ current_file \in Nat /\ c.file <= current_file
  BY DEF OnFiles
<1>2. /\ clock \in Nat /\ current_file <= clock
      /\ \A r \in creating : r.stamp \in Nat /\ current_file <= r.stamp
  BY <1>1, OfRequest DEF RotationInv, TimerInv, TypeOK, CurrentBegun, PeriodInv, OnePeriod
<1>3. QED  BY <1>1, <1>2 DEF NotAfter

\* CreateFileAsync destroys no row, whatever its option.
LEMMA NothingReplaced ==
  ASSUME RotationInv, FilesInv, NEW r \in creating, JournalFileCreated(r)
  PROVE  history' = history
<1>1. CASE phase # "running"  BY <1>1 DEF JournalFileCreated
<1>2. CASE phase = "running"
  <2>1. ~Employed(r.stamp)  BY <1>2 DEF JournalFileCreated, FileCreatedOnDisk
  <2>2. /\ current_file \in Nat /\ r.stamp \in Nat /\ current_file <= r.stamp
    BY <1>2, OfRequest DEF RotationInv, TimerInv, CurrentBegun, PeriodInv, OnePeriod
  <2>3. \E c \in open : c.file = current_file
    <3>1. CASE ui = "rotated"
      BY <3>1 DEF RotationInv, ConnInv, Numbered, OnCurrentFile
    <3>2. CASE ui # "rotated"
      BY <1>2, <3>2 DEF RotationInv, ConnInv, EmployeeIsOpen, OnCurrentFile, EmployedOnCurrentFile
    <3>3. QED  BY <3>1, <3>2
  <2>4. current_file < r.stamp  BY <2>1, <2>2, <2>3 DEF Employed
  <2>5. \A e \in history : e.file # r.stamp
    BY <2>2, <2>4 DEF FilesInv, Filed, NotAfter
  <2>6. QED  BY <1>2, <2>5 DEF JournalFileCreated
<1>3. QED  BY <1>1, <1>2

\* Apart from the PLC thread nobody changes the history.
LEMMA WhoRecords ==
  ASSUME RotationInv, FilesInv, [JournalNext]_vars
  PROVE  history' = history \/ RecordAlert \/ RecordResponse \/ UpdateAlarm
<1>1. ASSUME NEW r \in creating, JournalFileCreated(r) PROVE history' = history
  BY <1>1, NothingReplaced
<1>2. QED
  BY <1>1 DEF JournalNext, JournalConstruct, OnFolderReady, step, JournalStart, JournalDirectoryStep,
     JournalRotation, Flip, Alert, Respond, PLCStep, InsertAlert, PrepareAlert, RememberAlert,
     PrepareResponse, DeleteAlert, ForgetAlert, JournalCrash, AccessViolation, ForgetAll,
     vars, alarmVars, diskVars

\* An entry as update_alarm leaves it.
UpdatedEntry(e) ==
  IF e.file = floor_seconds(plc.row.alarmtime) /\ e.row.uuid = plc.row.uuid
  THEN [e EXCEPT !.row.fixedtime = plc.time] ELSE e

LEMMA UpdatedIs ==
  ASSUME plc \in Plans, NEW e \in [file : Nat, row : Rows]
  PROVE  /\ UpdatedEntry(e) \in [file : Nat, row : Rows] /\ UpdatedEntry(e).file = e.file
         /\ UpdatedEntry(e).row.uuid = e.row.uuid /\ UpdatedEntry(e).row.index = e.row.index
         /\ UpdatedEntry(e).row.alarmtime = e.row.alarmtime
         /\ UpdatedEntry(e).row.fixedtime =
              IF e.file = floor_seconds(plc.row.alarmtime) /\ e.row.uuid = plc.row.uuid
              THEN plc.time ELSE e.row.fixedtime
<1>1. plc.time \in Nat  BY DEF Plans
<1>2. QED  BY <1>1 DEF UpdatedEntry, Rows

\* An entry of the history is an old one, the alarm, or the response.
LEMMA Entries ==
  ASSUME RotationInv, AlarmTypes, FilesInv, [JournalNext]_vars
  PROVE  /\ history' \subseteq [file : Nat, row : Rows]
         /\ \A e \in history' : \/ \E f \in history : e.file = f.file
                                \/ busy \in open /\ busy.file # Memory /\ e.file = busy.file
<1>1. CASE history' = history  BY <1>1 DEF FilesInv, Filed
<1>2. CASE RecordAlert \/ RecordResponse
  <2>1. plc \in Plans  BY <1>2, HasPlan DEF RecordAlert, RecordResponse, NewRow, OldRow
  <2>2. plc.row \in Rows /\ Response(plc.time) \in Rows  BY <2>1, ResponseIsRow DEF Plans
  <2>3. busy \in open /\ \E row \in {plc.row, Response(plc.time)} : history' = history \cup Recorded(row)
    BY <1>2 DEF RecordAlert, RecordResponse, Response
  <2>4. busy.file = Memory \/ busy.file \in Nat
    BY <2>3, OfConnection DEF FilesInv
  <2>5. QED  BY <2>2, <2>3, <2>4 DEF Recorded, Entry, FilesInv, Filed
<1>3. CASE UpdateAlarm
  <2>1. plc \in Plans  BY <1>3, HasPlan DEF UpdateAlarm, OldRow
  <2>2. history' = {UpdatedEntry(e) : e \in history}  BY <1>3 DEF UpdateAlarm, UpdatedEntry
  <2>3. \A e \in history : e \in [file : Nat, row : Rows]  BY DEF FilesInv, Filed
  <2>4. QED  BY <2>1, <2>2, <2>3, UpdatedIs
<1>4. QED  BY <1>1, <1>2, <1>3, WhoRecords

LEMMA FiledStep ==
  ASSUME RotationInv, AlarmTypes, FilesInv, [JournalNext]_vars
  PROVE  Filed'
<1>1. history' \subseteq [file : Nat, row : Rows]  BY Entries
<1>2. ASSUME NEW e \in history' PROVE NotAfter(e.file)'
  <2>1. CASE \E f \in history : e.file = f.file
    <3>1. PICK f \in history : e.file = f.file  BY <2>1
    <3>2. f.file \in Nat /\ NotAfter(f.file)  BY DEF FilesInv, Filed
    <3>3. e.file \in Nat /\ NotAfter(e.file)  BY <3>1, <3>2
    <3>4. QED  BY <3>3, NotAfterStep
  <2>2. CASE busy \in open /\ busy.file # Memory /\ e.file = busy.file
    <3>1. e.file \in Nat /\ NotAfter(e.file)  BY <2>2, OfConnection DEF FilesInv
    <3>2. QED  BY <3>1, NotAfterStep
  <2>3. QED  BY <2>1, <2>2, Entries
<1>3. QED  BY <1>1, <1>2 DEF Filed

\* Connections are opened on the file that becomes the current one.
LEMMA OnFilesStep ==
  ASSUME RotationInv, OnFiles, [JournalNext]_vars
  PROVE  OnFiles'
<1> USE DEF OnFiles, connVars, useVars
<1>0. Memory \notin Nat  BY ConnAssumption
<1>1. CASE Die /\ LoseConnections  BY <1>1 DEF Die, LoseConnections
<1>2. CASE SQLiteConstruct
  BY <1>2 DEF SQLiteConstruct, Construct, MemoryConn
<1>3. CASE UNCHANGED <<current_file, connVars>> /\ (phase' = "running" => phase = "running")
  BY <1>3
<1>4. ASSUME NEW r \in creating, NewConnection(r) PROVE OnFiles'
  <2>1. /\ r.stamp \in Nat /\ Boundary(r.stamp)
        /\ current_file \in Nat => current_file <= r.stamp
    BY OfRequest DEF RotationInv, PeriodInv, OnePeriod
  <2>2. /\ current_file' = r.stamp /\ phase' = phase /\ employee' = employee
        /\ open' = open \cup {new_employee'} /\ new_employee'.file = r.stamp
    BY <1>4 DEF NewConnection, FileArrived
  <2>3. QED  BY <2>1, <2>2
<1>5. CASE lockfree_previous_connection
  BY <1>5 DEF lockfree_previous_connection, dirVars
<1>6. CASE EmployNew
  <2>1. new_employee.file = current_file /\ current_file \in Nat
    BY <1>6 DEF EmployNew, TimerArmed, RotationInv, ConnInv, Numbered, OnCurrentFile, TimerInv, CurrentBegun
  <2>2. QED  BY <1>0, <1>6, <2>1 DEF EmployNew, TimerArmed
<1>7. CASE DirectoryStep \/ Prepare \/ Finalize \/ (\E r \in creating : FileCreatedOnDisk(r))
           \/ UNCHANGED sqliteVars
  BY <1>3, <1>7
     DEF DirectoryStep, Prepare, Finalize, FileCreatedOnDisk, FileCreated, FolderGot, FolderNotFound,
         FolderCreated, MissionStart, Tick, Wake, SleepOrRotate, ClockTick, sqliteVars, dirVars
<1>8. QED
  BY <1>1, <1>2, <1>4, <1>5, <1>6, <1>7, FollowsDatabase
     DEF SQLiteNext, SQLiteCrash, SQLiteCreationFailed, Crash, CreationFailed

\* All rows of the history are in files of the past or in the current file.
LEMMA FilesInvariant == JournalSpec => [](RotationInv /\ AlarmTypes /\ FilesInv)
<1>1. JournalInit => AlarmTypes /\ FilesInv
  BY AlarmTypesInit DEF JournalInit, SQLiteInit, Init, FilesInv, Filed, OnFiles
<1>2. RotationInv /\ RotationInv' /\ AlarmTypes /\ FilesInv /\ [JournalNext]_vars
        => AlarmTypes' /\ FilesInv'
  BY AlarmTypesStep, FiledStep, OnFilesStep DEF FilesInv, RotationInv
<1>3. QED  BY <1>1, <1>2, RotationInvariant, PTL DEF JournalSpec

\* No step of the program, no rotation, no crash and no restart loses a row of
\* the history, in whatever phase the PLC delivers data.
THEOREM HistoryIsAlwaysKept == JournalSpec => HistoryIsKept
<1> DEFINE Kept ==
      \A e \in history : \E f \in history' : f.file = e.file /\ f.row.uuid = e.row.uuid
<1>1. ASSUME RotationInv, AlarmTypes, FilesInv, [JournalNext]_vars PROVE Kept
  <2>1. CASE history \subseteq history'  BY <2>1
  <2>2. CASE UpdateAlarm
    <3>1. plc \in Plans  BY <1>1, <2>2, HasPlan DEF UpdateAlarm, OldRow
    <3>2. history' = {UpdatedEntry(e) : e \in history}  BY <2>2 DEF UpdateAlarm, UpdatedEntry
    <3>3. \A e \in history : e \in [file : Nat, row : Rows]  BY <1>1 DEF FilesInv, Filed
    <3>4. QED  BY <3>1, <3>2, <3>3, UpdatedIs
  <2>3. QED  BY <1>1, <2>1, <2>2, WhoRecords DEF RecordAlert, RecordResponse
<1>2. QED  BY <1>1, FilesInvariant, PTL DEF JournalSpec, HistoryIsKept

-----------------------------------------------------------------------------
(***************************************************************************)
(* The events.  A row that shows an alarm as alerting is in alerts.db, as  *)
(* the row is updated before the alarm is deleted there; one that shows an *)
(* alarm as fixed was updated after the response had been recorded.  The   *)
(* uuids tell the rows of the alarms from those of the responses.          *)
(***************************************************************************)
Responding == {"prepare_response", "record_response"}

\* No recorded row has a uuid above the last one that was given, and that of an
\* event which is still to be recorded is new.
Uuids ==
  /\ \A e \in history : e.row.uuid <= uuids
  /\ \A row \in unrecorded : row.uuid <= uuids
  /\ plc.pc = "insert" => /\ \A e \in history : e.row.uuid < plc.row.uuid
                          /\ \A row \in unrecorded : row.uuid < plc.row.uuid
  /\ plc.pc \in Responding => /\ \A e \in history : e.row.uuid < uuids
                              /\ \A r \in Known : r.uuid < uuids
                              /\ plc.row.uuid < uuids

\* An entry and an alarm that is known with the same uuid are about the same alarm.
SameAlarm ==
  \A e \in history :
    /\ \A r \in Known : e.row.uuid = r.uuid => e.row.index = r.index
    /\ plc # Idle /\ plc.pc # "insert" /\ e.row.uuid = plc.row.uuid => e.row.index = plc.row.index

\* The time 0, which stands for "not fixed", is over.
Begun == clock >= 1 /\ (plc # Idle => plc.time >= 1)

\* The row of an alarm that is about to be deleted shows it as fixed.
Updated ==
  plc.pc = "delete" =>
    \A e \in history :
      e.file = floor_seconds(plc.row.alarmtime) /\ e.row.uuid = plc.row.uuid => e.row.fixedtime # 0

EventsInv == Uuids /\ SameAlarm /\ Begun /\ UnfixedIsAlerting /\ Updated

\* What neither the PLC thread does nor a new process changes.
LEMMA EventsUnchanged ==
  ASSUME RotationInv, EventsInv, [JournalNext]_vars, Known' \subseteq Known,
         UNCHANGED <<alerts_db, history, unrecorded, uuids>>, plc' \in {plc, Idle}
  PROVE  EventsInv'
<1>1. clock' >= clock /\ clock \in Nat /\ clock' \in Nat
  <2>1. clock \in Nat  BY DEF RotationInv, TimerInv, TypeOK
  <2>2. clock' = clock \/ clock' = clock + 1
    <3>1. Next \/ UNCHANGED dirVars \/ Die  BY FollowsDatabase, FollowsDirectory
    <3>2. QED
      BY <3>1 DEF Next, Construct, FolderGot, FolderNotFound, FolderCreated, MissionStart, FileCreated,
         FileArrived, CreationFailed, TimerArmed, Tick, Wake, SleepOrRotate, Crash, Die, ClockTick, dirVars
  <2>3. QED  BY <2>1, <2>2
<1>2. Begun'  BY <1>1 DEF EventsInv, Begun
<1>3. UnfixedIsAlerting' /\ Updated'
  BY DEF EventsInv, UnfixedIsAlerting, Updated, Idle, floor_seconds
<1>4. Uuids' /\ SameAlarm'
  BY DEF EventsInv, Uuids, SameAlarm, Idle, Responding
<1>5. QED  BY <1>2, <1>3, <1>4 DEF EventsInv

\* Steps of the PLC thread that do not touch the disk.
LEMMA EventsPass ==
  ASSUME EventsInv, plc \in Plans, UNCHANGED <<clock, alerts_db, history, unrecorded, uuids>>,
         Known' \subseteq Known, plc.pc # "insert",
         NEW pc \in NewRow \cup OldRow, plc' = [plc EXCEPT !.pc = pc],
         pc # "delete", pc # "insert", pc \in Responding => plc.pc \in Responding
  PROVE  EventsInv'
<1>1. plc'.pc = pc /\ plc'.row = plc.row /\ plc'.time = plc.time /\ plc' # Idle /\ plc # Idle
  BY NextPlan DEF Plans, Idle, NewRow, OldRow
<1>2. Uuids' /\ SameAlarm'  BY <1>1 DEF EventsInv, Uuids, SameAlarm
<1>3. QED
  BY <1>1, <1>2 DEF EventsInv, Begun, UnfixedIsAlerting, Updated, floor_seconds

\* Every step of the PLC thread keeps what rows and alarms say of each other.
LEMMA EventsPLCStep ==
  ASSUME RotationInv, AlarmTypes, RowsInv, FilesInv, EventsInv, [JournalNext]_vars, PLCStep
  PROVE  EventsInv'
<1> USE DEF EventsInv
<1>0. /\ plc \in Plans /\ plc # Idle /\ plc.row \in Rows /\ plc.time \in Nat /\ plc.pc \in NewRow \cup OldRow
      /\ plc.row.uuid \in Nat /\ plc.row.index \in Index /\ plc.row.alarmtime \in Nat
      /\ clock \in Nat /\ uuids \in Nat
  BY StepsHavePlans DEF RotationInv, TimerInv, TypeOK, AlarmTypes
<1>1. /\ \A e \in history : e \in [file : Nat, row : Rows] /\ e.row \in Rows /\ e.row.uuid \in Nat
                            /\ e.row.index \in Index /\ e.row.alarmtime \in Nat /\ e.row.fixedtime \in Nat
      /\ \A r \in Known : r \in Rows /\ r.uuid \in Nat
      /\ \A r \in unrecorded : r.uuid \in Nat
  <2>1. \A r \in Rows : r.uuid \in Nat /\ r.index \in Index /\ r.alarmtime \in Nat /\ r.fixedtime \in Nat
    BY DEF Rows
  <2>2. QED  BY <2>1, KnownAreRows DEF FilesInv, Filed, AlarmTypes
<1>2. /\ plc.row.uuid <= uuids /\ plc.time >= 1
      /\ plc.pc \in {"prepare", "record", "remember"} => plc.row \in alerts_db
      /\ plc.pc = "insert" => \A r \in Known : r.uuid < plc.row.uuid
      /\ plc.pc # "insert" => \A r \in Known : r.uuid = plc.row.uuid => r = plc.row
  BY <1>0 DEF RowsInv, Begun
<1>3. Known' \subseteq Known \cup (IF InsertAlert THEN {plc.row} ELSE {})  BY KnownStep
<1>4. CASE InsertAlert
  <2>1. /\ plc.pc = "insert" /\ alerts_db' = alerts_db \cup {plc.row}
        /\ UNCHANGED <<clock, history, unrecorded, uuids>>
        /\ plc'.pc = "prepare" /\ plc'.row = plc.row /\ plc'.time = plc.time /\ plc' # Idle
    BY <1>4, <1>0, NextPlan DEF InsertAlert, sqliteVars, dirVars, ghostVars, NewRow
  <2>2. Known' \subseteq Known \cup {plc.row}  BY <1>3, <1>4
  <2>3. Uuids' /\ Begun' /\ Updated'
    BY <2>1, <1>2, <1>0 DEF Uuids, Begun, Updated, Responding
  <2>4. SameAlarm'
    <3>1. \A e \in history : e.row.uuid # plc.row.uuid  BY <2>1, <1>0, <1>1 DEF Uuids
    <3>2. QED  BY <2>1, <2>2, <3>1 DEF SameAlarm
  <2>5. UnfixedIsAlerting'  BY <2>1 DEF UnfixedIsAlerting, floor_seconds
  <2>6. QED  BY <2>3, <2>4, <2>5
<1>5. CASE PrepareAlert \/ PrepareResponse
  <2>1. Known' \subseteq Known
    BY <1>5, <1>3, <1>0 DEF PrepareAlert, PrepareResponse, InsertAlert
  <2>2. UNCHANGED <<clock, alerts_db, history, unrecorded, uuids>>
    BY <1>5 DEF PrepareAlert, PrepareResponse, Prepare, dirVars, diskVars, ghostVars
  <2>3. CASE PrepareAlert
    BY <2>1, <2>2, <2>3, <1>0, EventsPass DEF PrepareAlert, Responding, NewRow
  <2>4. CASE PrepareResponse
    BY <2>1, <2>2, <2>4, <1>0, EventsPass DEF PrepareResponse, Responding, OldRow
  <2>5. QED  BY <1>5, <2>3, <2>4
<1>6. CASE RecordAlert \/ RecordResponse
  <2>1. /\ plc.pc \in {"record", "record_response"}
        /\ UNCHANGED <<clock, alerts_db, uuids>>
        /\ plc'.pc \in {"remember", "update"} /\ plc'.row = plc.row /\ plc'.time = plc.time /\ plc' # Idle
    BY <1>6, <1>0, NextPlan DEF RecordAlert, RecordResponse, Finalize, dirVars, NewRow, OldRow
  <2>2. Known' \subseteq Known  BY <2>1, <1>3 DEF InsertAlert
  <2>3. PICK row : /\ \/ plc.pc = "record" /\ row = plc.row
                      \/ plc.pc = "record_response" /\ row = Response(plc.time)
                   /\ history' = history \cup Recorded(row)
                   /\ unrecorded' = unrecorded \cup Unrecorded(row)
    <3>1. CASE RecordAlert
      <4>1. /\ plc.pc = "record" /\ history' = history \cup Recorded(plc.row)
            /\ unrecorded' = unrecorded \cup Unrecorded(plc.row)
        BY <3>1 DEF RecordAlert
      <4>2. QED  BY <4>1
    <3>2. CASE RecordResponse
      <4>1. /\ plc.pc = "record_response" /\ history' = history \cup Recorded(Response(plc.time))
            /\ unrecorded' = unrecorded \cup Unrecorded(Response(plc.time))
        BY <3>2 DEF RecordResponse
      <4>2. QED  BY <4>1
    <3>3. QED  BY <1>6, <3>1, <3>2
  <2>4. /\ plc.pc = "record" => row \in alerts_db
        /\ plc.pc = "record_response" =>
             row.fixedtime # 0 /\ \A r \in Known : r.uuid < row.uuid
        /\ row.uuid <= uuids /\ row.uuid \in Nat
    BY <2>3, <1>0, <1>2 DEF Response, Uuids, Responding
  <2>5. /\ \A e \in Recorded(row) : e.row = row
        /\ Unrecorded(row) \subseteq {row}
    BY DEF Recorded, Entry, Unrecorded
  <2>6. Begun' /\ Updated'  BY <2>1, <1>0 DEF Begun, Updated
  <2>7. Uuids'  BY <2>1, <2>3, <2>4, <2>5 DEF Uuids, Responding
  <2>8. SameAlarm'
    <3>1. \A r \in Known \cup {plc.row} : r.uuid = row.uuid => r.index = row.index
      <4>1. CASE plc.pc = "record"
        BY <4>1, <2>3, <1>2
      <4>2. CASE plc.pc = "record_response"
        <5>1. row.uuid = uuids /\ row.index = plc.row.index  BY <4>2, <2>3 DEF Response
        <5>2. \A r \in Known : r.uuid # row.uuid  BY <4>2, <2>4, <1>1
        <5>3. QED  BY <5>1, <5>2
      <4>3. QED  BY <2>1, <4>1, <4>2
    <3>2. ASSUME NEW e \in history'
          PROVE  /\ \A r \in Known : e.row.uuid = r.uuid => e.row.index = r.index
                 /\ e.row.uuid = plc.row.uuid => e.row.index = plc.row.index
      <4>1. CASE e \in history  BY <4>1, <2>1, <1>0 DEF SameAlarm
      <4>2. CASE e.row = row  BY <4>2, <3>1
      <4>3. QED  BY <2>3, <2>5, <4>1, <4>2
    <3>3. QED  BY <2>1, <2>2, <3>2 DEF SameAlarm
  <2>9. UnfixedIsAlerting'
    BY <2>1, <2>3, <2>4, <2>5 DEF UnfixedIsAlerting, floor_seconds
  <2>10. QED  BY <2>6, <2>7, <2>8, <2>9
<1>7. CASE RememberAlert \/ ForgetAlert
  <2>1. Known' \subseteq Known  BY <1>7, <1>3 DEF InsertAlert, RememberAlert, ForgetAlert
  <2>2. QED  BY <1>7, <2>1, EventsUnchanged DEF RememberAlert, ForgetAlert, diskVars, ghostVars
<1>8. CASE UpdateAlarm
  <2>1. /\ history' = {UpdatedEntry(e) : e \in history}
        /\ UNCHANGED <<clock, alerts_db, unrecorded, uuids>> /\ plc.pc = "update"
        /\ plc'.pc = "delete" /\ plc'.row = plc.row /\ plc'.time = plc.time /\ plc' # Idle
    BY <1>8, <1>0, NextPlan DEF UpdateAlarm, UpdatedEntry, sqliteVars, dirVars, ghostVars, OldRow
  <2>2. ASSUME NEW f \in history'
        PROVE  \E e \in history :
                 /\ f.file = e.file /\ f.row.uuid = e.row.uuid /\ f.row.index = e.row.index
                 /\ f.row.alarmtime = e.row.alarmtime
                 /\ e.file = floor_seconds(plc.row.alarmtime) /\ e.row.uuid = plc.row.uuid
                      => f.row.fixedtime = plc.time
                 /\ f = e \/ f.row.fixedtime = plc.time
    <3>1. PICK e \in history : f = UpdatedEntry(e)  BY <2>1
    <3>2. QED  BY <3>1, <1>0, <1>1, UpdatedIs DEF UpdatedEntry
  <2>3. Known' \subseteq Known  BY <2>1, <1>3 DEF InsertAlert
  <2>4. Uuids'  BY <2>1, <2>2 DEF Uuids, Responding
  <2>5. SameAlarm'  BY <2>1, <2>2, <2>3, <1>0 DEF SameAlarm
  <2>6. Begun'  BY <2>1, <1>0 DEF Begun
  <2>7. Updated'
    <3>1. SUFFICES ASSUME NEW f \in history', f.file = floor_seconds(plc.row.alarmtime),
                          f.row.uuid = plc.row.uuid
                   PROVE  f.row.fixedtime # 0
      BY <2>1 DEF Updated, floor_seconds
    <3>2. QED  BY <3>1, <2>2, <1>0, <1>2
  <2>8. UnfixedIsAlerting'
    <3>1. SUFFICES ASSUME NEW f \in history', f.row.fixedtime = 0,
                          f.file = floor_seconds(f.row.alarmtime)
                   PROVE  f.row \in alerts_db
      BY <2>1 DEF UnfixedIsAlerting, floor_seconds
    <3>2. f \in history  BY <3>1, <2>2, <1>0, <1>2
    <3>3. QED  BY <3>1, <3>2 DEF UnfixedIsAlerting
  <2>9. QED  BY <2>4, <2>5, <2>6, <2>7, <2>8
<1>9. CASE DeleteAlert
  <2>1. /\ plc.pc = "delete" /\ alerts_db' = Without(alerts_db)
        /\ UNCHANGED <<clock, history, unrecorded, uuids>>
        /\ plc'.pc = "forget" /\ plc'.row = plc.row /\ plc'.time = plc.time /\ plc' # Idle
    BY <1>9, <1>0, NextPlan DEF DeleteAlert, sqliteVars, dirVars, ghostVars, OldRow
  <2>2. Known' \subseteq Known  BY <2>1, <1>3 DEF InsertAlert
  <2>3. Uuids' /\ SameAlarm' /\ Begun' /\ Updated'
    BY <2>1, <2>2, <1>0 DEF Uuids, SameAlarm, Begun, Updated, Responding
  <2>4. UnfixedIsAlerting'
    <3>1. SUFFICES ASSUME NEW e \in history, e.row.fixedtime = 0,
                          e.file = floor_seconds(e.row.alarmtime)
                   PROVE  e.row \in alerts_db'
      BY <2>1 DEF UnfixedIsAlerting, floor_seconds
    <3>2. e.row \in alerts_db  BY <3>1 DEF UnfixedIsAlerting
    <3>3. e.row.uuid = plc.row.uuid => e.row = plc.row
      BY <2>1, <3>2, <1>2 DEF Known
    <3>4. e.row.uuid # plc.row.uuid  BY <2>1, <3>1, <3>3 DEF Updated
    <3>5. QED  BY <2>1, <3>2, <3>4 DEF Without
  <2>5. QED  BY <2>3, <2>4
<1>10. QED  BY <1>4, <1>5, <1>6, <1>7, <1>8, <1>9 DEF PLCStep

\* Every step keeps what rows and alarms say of each other.
LEMMA EventsStep ==
  ASSUME RotationInv, AlarmTypes, RowsInv, FilesInv, EventsInv, [JournalNext]_vars
  PROVE  EventsInv'
<1>1. CASE PLCStep  BY <1>1, EventsPLCStep
<1>2. ASSUME NEW i \in Index, Alert(i) \/ Respond(i) PROVE EventsInv'
  <2>1. /\ clock \in Nat /\ clock >= 1 /\ uuids \in Nat /\ plc = Idle
        /\ \A e \in history : e.row.uuid \in Nat /\ e.row.uuid <= uuids
        /\ \A r \in unrecorded : r.uuid \in Nat /\ r.uuid <= uuids
        /\ \A r \in Known : r.uuid \in Nat /\ r.uuid <= uuids
    BY <1>2, KnownAreRows DEF RotationInv, TimerInv, TypeOK, EventsInv, Begun, Uuids, AlarmTypes, FilesInv,
           Filed, Rows, RowsInv, Alert, Respond, Scanning
  <2>2. /\ uuids' = uuids + 1 /\ UNCHANGED <<clock, alerts, ahead, alerts_db, history, unrecorded>>
        /\ plc'.pc \in {"insert", "prepare_response"} /\ plc'.time = clock
        /\ plc'.pc = "insert" => plc'.row.uuid = uuids + 1
        /\ plc'.pc = "prepare_response" => plc'.row \in Known
    <3>1. CASE Alert(i)  BY <3>1 DEF Alert, sqliteVars, dirVars, diskVars
    <3>2. CASE Respond(i)
      <4>1. alerts[i] \in Known  BY <3>2 DEF Respond, Known, Mapped
      <4>2. QED  BY <3>2, <4>1 DEF Respond, sqliteVars, dirVars, diskVars
    <3>3. QED  BY <1>2, <3>1, <3>2
  <2>3. Known' = Known  BY <2>2 DEF Known, Mapped
  <2>4. Uuids'  BY <2>1, <2>2, <2>3 DEF Uuids, Responding
  <2>5. SameAlarm'  BY <2>2, <2>3 DEF EventsInv, SameAlarm
  <2>6. UnfixedIsAlerting'
    BY <2>2 DEF EventsInv, UnfixedIsAlerting, floor_seconds
  <2>7. Begun' /\ Updated'  BY <2>1, <2>2 DEF Begun, Updated
  <2>8. QED  BY <2>4, <2>5, <2>6, <2>7 DEF EventsInv
<1>3. CASE ~PLCStep /\ ~\E i \in Index : Alert(i) \/ Respond(i)
  <2>1. UNCHANGED <<alerts_db, unrecorded, uuids>> /\ plc' \in {plc, Idle}
    BY <1>3 DEF JournalNext, JournalConstruct, OnFolderReady, step, JournalStart, JournalDirectoryStep,
       JournalFileCreated, JournalRotation, Flip, JournalCrash, AccessViolation, ForgetAll,
       vars, alarmVars, memoryVars, diskVars, ghostVars
  <2>2. history' = history  BY <1>3, WhoRecords DEF PLCStep
  <2>3. Known' \subseteq Known  BY <1>3, KnownStep DEF PLCStep
  <2>4. QED  BY <2>1, <2>2, <2>3, EventsUnchanged
<1>4. QED  BY <1>1, <1>2, <1>3

\* The rows of the history and the alerting alarms fit together.
LEMMA EventsInvariant == JournalSpec => []EventsInv
<1>1. JournalInit => EventsInv
  <2>1. JournalInit => clock >= 1  BY SpanAssumption, SMT DEF JournalInit, SQLiteInit, Init
  <2>2. QED
    BY <2>1 DEF JournalInit, EventsInv, Uuids, SameAlarm, Begun, UnfixedIsAlerting, Updated, Idle, Responding
<1>2. RotationInv /\ AlarmTypes /\ RowsInv /\ FilesInv /\ EventsInv /\ [JournalNext]_vars => EventsInv'
  BY EventsStep
<1>3. QED  BY <1>1, <1>2, FilesInvariant, RowsInvariant, PTL DEF JournalSpec

\* A row that is found under the time of its alarm and is not fixed belongs to
\* an alarm that alerts, through all crashes and rotations, and in whatever
\* phase data are delivered.
THEOREM UnfixedIsAlwaysAlerting == JournalSpec => []UnfixedIsAlerting
<1>1. EventsInv => UnfixedIsAlerting  BY DEF EventsInv
<1>2. QED  BY <1>1, EventsInvariant, PTL

-----------------------------------------------------------------------------
(***************************************************************************)
(* The answers.  A response is inserted before the row of the alarm is     *)
(* updated: in the file that is employed, or in memory.                    *)
(***************************************************************************)
Answering == {e.row : e \in history} \cup unrecorded

\* row is the response at time t to the alarm i, and will never be taken for
\* the row of an alarm.
Answers(row, i, t) ==
  /\ row.index = i /\ row.alarmtime = t /\ row.fixedtime = t
  /\ row.uuid <= uuids /\ row.uuid \in Nat
  /\ \A r \in Known : r.uuid # row.uuid
  /\ plc # Idle => plc.row.uuid # row.uuid

AnsweredInv ==
  /\ \A e \in history : e.row.fixedtime > e.row.alarmtime =>
       \E answer \in Answering : Answers(answer, e.row.index, e.row.fixedtime)
  /\ plc.pc = "update" => \E answer \in Answering : Answers(answer, plc.row.index, plc.time)

\* What neither records nor answers.
LEMMA AnsweredUnchanged ==
  ASSUME AnsweredInv, UNCHANGED <<history, unrecorded, uuids>>,
         Known' \subseteq Known \cup (IF plc # Idle THEN {plc.row} ELSE {}),
         plc' = Idle \/ UNCHANGED plc \/ (plc # Idle /\ plc'.pc # "update" /\ plc'.row = plc.row)
  PROVE  AnsweredInv'
<1>1. Answering' = Answering  BY DEF Answering
<1>2. ASSUME NEW row \in Answering, NEW i, NEW t, Answers(row, i, t)
      PROVE  Answers(row, i, t)'
  BY <1>2 DEF Answers
<1>3. QED  BY <1>1, <1>2 DEF AnsweredInv, Idle

\* Every step of the PLC thread keeps the answers.
LEMMA AnsweredPLCStep ==
  ASSUME RotationInv, AlarmTypes, RowsInv, FilesInv, EventsInv, AnsweredInv,
         [JournalNext]_vars, PLCStep
  PROVE  AnsweredInv'
<1> USE DEF AnsweredInv
<1>0. /\ plc \in Plans /\ plc # Idle /\ plc.row \in Rows /\ plc.time \in Nat
      /\ plc.row.uuid \in Nat /\ plc.row.index \in Index /\ plc.pc \in NewRow \cup OldRow
      /\ plc.row.alarmtime \in Nat /\ uuids \in Nat
  BY StepsHavePlans DEF AlarmTypes
<1>1. \A e \in history : /\ e \in [file : Nat, row : Rows] /\ e.row.uuid \in Nat
                         /\ e.row.alarmtime \in Nat /\ e.row.fixedtime \in Nat
  BY DEF FilesInv, Filed, Rows
<1>2. Known' \subseteq Known \cup (IF InsertAlert THEN {plc.row} ELSE {})  BY KnownStep
<1>3. CASE InsertAlert \/ PrepareAlert \/ PrepareResponse
  <2>1. UNCHANGED <<history, unrecorded, uuids>> /\ plc'.pc # "update" /\ plc'.row = plc.row
    <3>1. UNCHANGED <<history, unrecorded, uuids>>
      BY <1>3 DEF InsertAlert, PrepareAlert, PrepareResponse, diskVars, ghostVars
    <3>2. CASE InsertAlert      BY <1>0, <3>1, <3>2, NextPlan DEF InsertAlert, NewRow
    <3>3. CASE PrepareAlert     BY <1>0, <3>1, <3>3, NextPlan DEF PrepareAlert, NewRow
    <3>4. CASE PrepareResponse  BY <1>0, <3>1, <3>4, NextPlan DEF PrepareResponse, OldRow
    <3>5. QED  BY <1>3, <3>2, <3>3, <3>4
  <2>2. Known' \subseteq Known \cup (IF plc # Idle THEN {plc.row} ELSE {})  BY <1>0, <1>2
  <2>3. QED  BY <1>0, <2>1, <2>2, AnsweredUnchanged
<1>4. CASE RecordAlert
  <2>1. /\ plc.row \in alerts_db /\ history' = history \cup Recorded(plc.row)
        /\ unrecorded \subseteq unrecorded' /\ uuids' = uuids
        /\ plc'.pc = "remember" /\ plc'.row = plc.row /\ plc.pc = "record" /\ plc' # Idle
    BY <1>4, <1>0, NextPlan DEF RecordAlert, RowsInv, NewRow
  <2>2. \A e \in Recorded(plc.row) : e.row = plc.row  BY DEF Recorded, Entry
  <2>3. plc.row.fixedtime = 0  BY <2>1 DEF RowsInv, Known
  <2>4. \A e \in history' : e \in history \/ ~(e.row.fixedtime > e.row.alarmtime)
    BY <2>1, <2>2, <2>3, <1>0
  <2>5. Known' \subseteq Known /\ Answering \subseteq Answering'
    BY <2>1, <1>2 DEF InsertAlert, Answering
  <2>6. ASSUME NEW row, NEW i, NEW t, Answers(row, i, t) PROVE Answers(row, i, t)'
    BY <2>1, <2>5, <2>6, <1>0 DEF Answers
  <2>7. QED  BY <2>1, <2>4, <2>5, <2>6
<1>5. CASE RecordResponse
  <2>0. PICK answer : answer = Response(plc.time)  OBVIOUS
  <2>1. /\ plc.pc = "record_response" /\ history' = history \cup Recorded(answer)
        /\ unrecorded' = unrecorded \cup Unrecorded(answer) /\ uuids' = uuids
        /\ plc'.pc = "update" /\ plc'.row = plc.row /\ plc'.time = plc.time /\ plc' # Idle
    BY <1>5, <1>0, <2>0, NextPlan DEF RecordResponse, OldRow
  <2>2. /\ answer.uuid = uuids /\ answer.index = plc.row.index
        /\ answer.alarmtime = plc.time /\ answer.fixedtime = plc.time
    BY <2>0 DEF Response
  <2>3. Known' \subseteq Known /\ \A r \in Known : r.uuid # uuids
    BY <2>1, <1>2, KnownAreRows, <1>0 DEF InsertAlert, EventsInv, Uuids, Responding
  <2>4. plc.row.uuid # uuids
    BY <2>1, <1>0 DEF EventsInv, Uuids, Responding
  <2>5. answer \in Answering' /\ Answering \subseteq Answering'
    <3>1. CASE busy.file = Memory  BY <3>1, <2>1 DEF Unrecorded, Answering
    <3>2. CASE busy.file # Memory
      <4>1. Entry(busy.file, answer) \in history' /\ Entry(busy.file, answer).row = answer
        BY <3>2, <2>1 DEF Recorded, Entry
      <4>2. QED  BY <2>1, <4>1 DEF Answering
    <3>3. QED  BY <3>1, <3>2, <2>1 DEF Answering
  <2>6. Answers(answer, plc.row.index, plc.time)'
    BY <2>1, <2>2, <2>3, <2>4, <1>0 DEF Answers
  <2>7. \A e \in history' : e \in history \/ ~(e.row.fixedtime > e.row.alarmtime)
    <3>1. \A e \in Recorded(answer) : e.row = answer  BY DEF Recorded, Entry
    <3>2. QED  BY <2>1, <2>2, <3>1, <1>0
  <2>8. ASSUME NEW row, NEW i, NEW t, Answers(row, i, t) PROVE Answers(row, i, t)'
    BY <2>1, <2>3, <2>8, <1>0 DEF Answers
  <2>9. QED  BY <2>1, <2>5, <2>6, <2>7, <2>8
<1>6. CASE UpdateAlarm
  <2>1. /\ history' = {UpdatedEntry(e) : e \in history} /\ plc.pc = "update"
        /\ UNCHANGED <<unrecorded, uuids>> /\ plc'.pc = "delete" /\ plc'.row = plc.row
    BY <1>6, <1>0, NextPlan DEF UpdateAlarm, UpdatedEntry, ghostVars, OldRow
  <2>2. Known' \subseteq Known  BY <2>1, <1>2 DEF InsertAlert
  <2>3. ASSUME NEW row \in Answering, NEW i, NEW t, Answers(row, i, t)
        PROVE  row \in Answering' /\ Answers(row, i, t)'
    <3>1. row.uuid # plc.row.uuid  BY <2>3, <1>0 DEF Answers
    <3>2. row \in Answering'
      <4>1. CASE row \in unrecorded  BY <4>1, <2>1 DEF Answering
      <4>2. ASSUME NEW e \in history, row = e.row PROVE row \in Answering'
        <5>1. UpdatedEntry(e) = e  BY <3>1, <4>2 DEF UpdatedEntry
        <5>2. e \in history'  BY <2>1, <5>1
        <5>3. QED  BY <4>2, <5>2 DEF Answering
      <4>3. QED  BY <4>1, <4>2 DEF Answering
    <3>3. QED  BY <2>1, <2>2, <2>3, <3>2, <1>0 DEF Answers
  <2>4. ASSUME NEW f \in history', f.row.fixedtime > f.row.alarmtime
        PROVE  \E answer \in Answering' : Answers(answer, f.row.index, f.row.fixedtime)'
    <3>1. PICK e \in history : f = UpdatedEntry(e)  BY <2>1
    <3>2. \E answer \in Answering : Answers(answer, f.row.index, f.row.fixedtime)
      <4>1. CASE e.file = floor_seconds(plc.row.alarmtime) /\ e.row.uuid = plc.row.uuid
        <5>1. f.row.index = e.row.index /\ f.row.fixedtime = plc.time
          BY <4>1, <3>1, <1>0, <1>1, UpdatedIs
        <5>2. e.row.index = plc.row.index  BY <4>1, <2>1, <1>0 DEF EventsInv, SameAlarm
        <5>3. QED  BY <5>1, <5>2, <2>1
      <4>2. CASE f = e  BY <2>4, <4>2
      <4>3. QED  BY <4>1, <4>2, <3>1 DEF UpdatedEntry
    <3>3. PICK answer \in Answering : Answers(answer, f.row.index, f.row.fixedtime)  BY <3>2
    <3>4. answer \in Answering' /\ Answers(answer, f.row.index, f.row.fixedtime)'  BY <3>3, <2>3
    <3>5. QED  BY <3>4
  <2>5. QED  BY <2>1, <2>4
<1>7. CASE DeleteAlert \/ RememberAlert \/ ForgetAlert
  <2>1. /\ UNCHANGED <<history, unrecorded, uuids>>
        /\ plc' = Idle \/ (plc'.pc = "forget" /\ plc'.row = plc.row)
    BY <1>7, <1>0, NextPlan DEF DeleteAlert, RememberAlert, ForgetAlert, diskVars, ghostVars, OldRow
  <2>2. Known' \subseteq Known \cup (IF plc # Idle THEN {plc.row} ELSE {})  BY <1>0, <1>2
  <2>3. QED  BY <1>0, <2>1, <2>2, AnsweredUnchanged
<1>8. QED  BY <1>3, <1>4, <1>5, <1>6, <1>7 DEF PLCStep

\* Every step keeps the answers.
LEMMA AnsweredStep ==
  ASSUME RotationInv, AlarmTypes, RowsInv, FilesInv, EventsInv, AnsweredInv, [JournalNext]_vars
  PROVE  AnsweredInv'
<1>1. CASE PLCStep  BY <1>1, AnsweredPLCStep
<1>2. ASSUME NEW i \in Index, Alert(i) \/ Respond(i) PROVE AnsweredInv'
  <2>1. /\ UNCHANGED <<alerts, ahead, alerts_db, history, unrecorded>>
        /\ plc = Idle /\ uuids' = uuids + 1 /\ uuids \in Nat
        /\ plc'.pc \in {"insert", "prepare_response"}
        /\ plc'.row \in Known \/ plc'.row.uuid = uuids + 1
    <3>1. CASE Alert(i)  BY <3>1 DEF Alert, Scanning, diskVars, AlarmTypes
    <3>2. CASE Respond(i)
      <4>1. alerts[i] \in Known  BY <3>2 DEF Respond, Known, Mapped
      <4>2. QED  BY <3>2, <4>1 DEF Respond, Scanning, diskVars, AlarmTypes
    <3>3. QED  BY <1>2, <3>1, <3>2
  <2>2. Known' = Known /\ Answering' = Answering  BY <2>1 DEF Known, Mapped, Answering
  <2>3. ASSUME NEW row, NEW j, NEW t, Answers(row, j, t) PROVE Answers(row, j, t)'
    BY <2>1, <2>2, <2>3 DEF Answers
  <2>4. QED  BY <2>1, <2>2, <2>3 DEF AnsweredInv
<1>3. CASE ~PLCStep /\ ~\E i \in Index : Alert(i) \/ Respond(i)
  <2>1. history' = history  BY <1>3, WhoRecords DEF PLCStep
  <2>2. UNCHANGED <<unrecorded, uuids>> /\ (plc' = Idle \/ UNCHANGED plc)
    BY <1>3 DEF JournalNext, JournalConstruct, OnFolderReady, step, JournalStart,
       JournalDirectoryStep, JournalFileCreated, JournalRotation, Flip, JournalCrash, AccessViolation,
       ForgetAll, vars, alarmVars, memoryVars, diskVars, ghostVars
  <2>3. Known' \subseteq Known  BY <1>3, KnownStep DEF PLCStep
  <2>4. QED  BY <2>1, <2>2, <2>3, AnsweredUnchanged
<1>4. QED  BY <1>1, <1>2, <1>3

\* An alarm that the history shows as fixed has been answered, at the time at
\* which it claims to be fixed, through all crashes and rotations, and in
\* whatever phase data are delivered.
THEOREM FixedIsAlwaysAnswered == JournalSpec => []FixedIsAnswered
<1>1. JournalInit => AnsweredInv
  BY DEF JournalInit, AnsweredInv, Idle
<1>2. RotationInv /\ AlarmTypes /\ RowsInv /\ FilesInv /\ EventsInv /\ AnsweredInv
        /\ [JournalNext]_vars => AnsweredInv'
  BY AnsweredStep
<1>3. AnsweredInv => FixedIsAnswered  BY DEF AnsweredInv, FixedIsAnswered, Answers, Answering
<1>4. QED  BY <1>1, <1>2, <1>3, FilesInvariant, RowsInvariant, EventsInvariant, PTL DEF JournalSpec

\* Every variable keeps its type, whatever the PLC delivers and when.
THEOREM JournalTypes == JournalSpec => []JournalTypeOK
<1> DEFINE Others == flips \in Nat /\ alerts_dbc \in BOOLEAN
<1>1. JournalInit => flips \in Nat /\ alerts_dbc = FALSE  BY DEF JournalInit
<1>2. JournalInit => Others  BY <1>1
<1>3. ASSUME Others, [JournalNext]_vars PROVE flips' \in {flips, flips + 1}
  BY <1>3 DEF JournalNext, JournalConstruct, OnFolderReady, step, JournalStart, JournalDirectoryStep,
     JournalFileCreated, JournalRotation, Flip, Alert, Respond, PLCStep, InsertAlert, PrepareAlert,
     RecordAlert, RememberAlert, PrepareResponse, RecordResponse, UpdateAlarm, DeleteAlert, ForgetAlert,
     JournalCrash, AccessViolation, ForgetAll, vars, alarmVars, memoryVars, envVars
<1>4. ASSUME Others, [JournalNext]_vars PROVE alerts_dbc' \in BOOLEAN
  BY <1>4 DEF JournalNext, JournalConstruct, OnFolderReady, step, JournalStart, JournalDirectoryStep,
     JournalFileCreated, JournalRotation, Flip, Alert, Respond, PLCStep, InsertAlert, PrepareAlert,
     RecordAlert, RememberAlert, PrepareResponse, RecordResponse, UpdateAlarm, DeleteAlert, ForgetAlert,
     JournalCrash, AccessViolation, ForgetAll, vars, alarmVars, memoryVars, envVars
<1>5. Others /\ [JournalNext]_vars => Others'  BY <1>3, <1>4
<1>6. RotationInv /\ AlarmTypes /\ FilesInv /\ Others => JournalTypeOK
  BY DEF RotationInv, ConnInv, AlarmTypes, FilesInv, Filed, JournalTypeOK, Plans, NewRow, OldRow
<1>7. QED  BY <1>2, <1>5, <1>6, FilesInvariant, PTL DEF JournalSpec

=============================================================================

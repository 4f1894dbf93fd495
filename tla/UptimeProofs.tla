---------------------------- MODULE UptimeProofs ----------------------------
(***************************************************************************)
(* What is proved of Uptime, for every trigger of two seconds or more, any *)
(* offsets and any number of leaps: what leaps leave in an uptime.         *)
(*                                                                         *)
(* A reading of the clock is an offset and a second.  What the corrections *)
(* got wrong so far is the sum of the seconds between the readings of each *)
(* leap they saw, and of what was missed of those they did not see.  It is *)
(* bounded by what it may still become: Within says, of each state of the  *)
(* two checks, which readings the next correction may go from.             *)
(***************************************************************************)
EXTENDS Uptime, TLAPS

Swapping(t) == check[t].pc = "swap"

\* The seconds at which the clock was read.
LastSecond == last_time - seen
Second(t) == check[t].now - read[t]

\* The leap task holds a reading of before the last leap.
Stale == Swapping("leap") /\ read["leap"] # offset

Places == {"idle", "read", "swap", "start", "connect"}
WifiPlaces == {"idle", "connect", "look", "read", "swap", "add", "sync", "unsync"}

TypeInv ==
    /\ elapsed \in 0 .. MaxTime
    /\ offset \in Offsets
    /\ leaps \in 0 .. MaxLeaps
    /\ met \subseteq Offsets /\ {0, offset, seen} \subseteq met
    /\ system_start \in Int
    /\ last_time \in Int
    /\ last_connect_time \in Int
    /\ cumulated_uptime \in Int
    /\ check \in [Tasks -> [pc : Places, now : Int, delta : Int]]
    /\ wifi \in [pc : WifiPlaces, now : Int, delta : Int]
    /\ synced \in BOOLEAN
    /\ checked \in 0 .. MaxTime
    /\ read \in [Tasks -> met]
    /\ seen \in Offsets
    /\ since \in -1 .. MaxTime
    /\ LastSecond \in 0 .. MaxTime
    /\ \A t \in Tasks : Swapping(t) => Second(t) \in 0 .. MaxTime

\* How old readings are: no check is put off for more than a second.
AgeInv ==
    /\ checked \in elapsed - 1 .. elapsed
    /\ LastSecond \in checked - 1 .. elapsed
    /\ Swapping("leap") => Second("leap") \in checked .. elapsed
    /\ Swapping("sntp") => read["sntp"] = offset /\ Second("sntp") \in elapsed - 1 .. elapsed

\* The error d, once it is corrected from second s to one that the leap task has
\* still to reach (late) or that its next check ends in, stays within the bound,
\* less what may be missed by the checks that cross the leap.
Turns(d, s, late, bound, missed) ==
    /\ d + checked - 1 - s >= missed - bound
    /\ d + checked + late - s <= bound - missed

\* What is known of an error d, with the given bound, while corrections may be missing.
Within(d, bound) ==
    /\ ~Stale /\ seen = offset => d \in -bound .. bound
    /\ ~Stale /\ seen # offset => Turns(d, LastSecond, 1, bound, Blur)
    /\ Stale /\ seen = offset =>
        /\ Turns(d, LastSecond, 2, bound, 2 * Blur)
        /\ check["sntp"].pc = "read" => d - 2 >= 2 * Blur - bound
        /\ Swapping("sntp") => Turns(d, Second("sntp"), 2, bound, 2 * Blur)
    /\ Stale /\ seen # offset =>
        /\ Turns(d, LastSecond, 2, bound, 3 * Blur)
        /\ seen = read["leap"] => Turns(d, Second("leap"), 2, bound, 3 * Blur)

\* What the checks have seen and not yet added.
Pending(t, places) == IF check[t].pc \in places THEN check[t].delta ELSE 0
AllPending(places) == Pending("leap", places) + Pending("sntp", places)
StartPending == AllPending({"start"})
ConnectPending == AllPending({"start", "connect"})

StartError == system_start + StartPending - seen
ConnectError == last_connect_time + ConnectPending - seen - since

StartWithin == Within(StartError, Error + Blur)
ConnectWithin == Within(ConnectError, Error)

\* While a connection is being noted the clock does not leap, and no check has
\* anything to correct.
Quiet ==
    /\ ~synced
    /\ seen = offset
    /\ \A t \in Tasks : ~Checking(t) /\ (Swapping(t) => read[t] = offset)
    /\ since # -1 /\ wifi.now = offset + since

ConnectInv ==
    /\ wifi.pc = "connect" => Quiet
    /\ wifi.pc = "idle" /\ since = -1 => ~synced
    /\ wifi.pc \notin {"idle", "sync", "connect"} => since = -1
    /\ wifi.pc = "sync" => since # -1
    /\ wifi.pc \in {"idle", "sync"} /\ since # -1 => ConnectWithin

IInv == TypeInv /\ AgeInv /\ StartWithin /\ ConnectInv

-----------------------------------------------------------------------------
(* The numbers. *)

LEMMA Numbers ==
    /\ TRIGGER \in Nat /\ TRIGGER > 1 /\ MaxTime \in Nat /\ MaxLeaps \in Nat
    /\ Offsets \subseteq Nat /\ 0 \in Offsets
BY UptimeAssumption

LEMMA BlurNat == Blur \in Nat
BY UptimeAssumption DEF Blur

\* Offsets far apart are farther than the trigger, whatever passed between two checks.
LEMMA FarApart ==
    ASSUME TypeInv, Far, NEW a \in met, NEW b \in met, a # b
    PROVE  a - b > TRIGGER + 2 \/ b - a > TRIGGER + 2
<1>1. a \in Nat /\ b \in Nat
  BY Numbers DEF TypeInv
<1> QED
  BY <1>1, Numbers DEF Far, Abs

LEMMA AreNumbers ==
    ASSUME TypeInv
    PROVE  /\ elapsed \in Nat /\ checked \in Nat /\ leaps \in Nat /\ offset \in Nat /\ seen \in Nat
           /\ Blur \in Nat /\ Error \in Nat
           /\ LastSecond \in Nat
           /\ \A t \in Tasks : read[t] \in Nat /\ (Swapping(t) => Second(t) \in Nat)
<1>1. leaps \in Nat
  BY Numbers DEF TypeInv
<1>2. \A m, n \in Nat : 3 * (1 + m) * n \in Nat
  OBVIOUS
<1>3. Error \in Nat
  BY <1>1, <1>2, BlurNat DEF Error
<1>4. offset \in Nat /\ seen \in Nat /\ \A t \in Tasks : read[t] \in Nat
  BY Numbers DEF TypeInv
<1>5. /\ elapsed \in Nat /\ checked \in Nat /\ LastSecond \in Nat
      /\ \A t \in Tasks : Swapping(t) => Second(t) \in Nat
  BY Numbers DEF TypeInv
<1> QED
  BY <1>1, <1>3, <1>4, <1>5, BlurNat

\* What a check may miss once, it may miss ever after.
LEMMA BlurGrows ==
    ASSUME Leap
    PROVE  Blur' \in Nat /\ Blur' >= Blur
<1>1. Far' => Far
  BY DEF Leap, Far
<1> QED
  BY <1>1, Numbers DEF Blur

\* A leap costs three seconds, and what three checks may miss.
LEMMA LeapError ==
    ASSUME TypeInv, Leap
    PROVE  Error' \in Nat /\ Error' >= Error + 3 + 3 * Blur'
<1>1. leaps' = leaps + 1 /\ leaps \in Nat
  BY Numbers DEF Leap, TypeInv
<1>2. PICK m \in Nat, k \in Nat, n \in Nat : m = Blur /\ m + k = Blur' /\ n = leaps
  <2>1. Blur' - Blur \in Nat
    BY BlurGrows, BlurNat
  <2> QED
    BY <1>1, <2>1, BlurNat, BlurGrows
<1>3. Error = 3 * (1 + m) * n /\ Error' = 3 * (1 + (m + k)) * (n + 1)
  BY <1>1, <1>2 DEF Error
<1>4. 3 * (1 + (m + k)) * (n + 1) = 3 * (1 + m) * n + 3 * (k * n) + 3 + 3 * (m + k)
  OBVIOUS
<1>5. k * n \in Nat /\ 3 * (1 + m) * n \in Nat
  OBVIOUS
<1>6. PICK x \in Nat, y \in Nat : x = k * n /\ y = 3 * (1 + m) * n
  BY <1>5
<1>7. Error = y /\ Error' = y + 3 * x + 3 + 3 * (m + k)
  BY <1>3, <1>4, <1>6
<1> QED
  BY <1>2, <1>7

\* The seconds between the reading that a check swaps and the last one.
LEMMA SwapSeconds ==
    ASSUME TypeInv, AgeInv, NEW t \in Tasks, Swap(t)
    PROVE  Second(t) - LastSecond \in -2 .. 2
<1>1. Swapping(t)
  BY DEF Swap, Swapping
<1>2. CASE t = "leap"
  BY <1>1, <1>2, AreNumbers DEF AgeInv
<1>3. CASE t = "sntp"
  BY <1>1, <1>3, AreNumbers DEF AgeInv
<1> QED
  BY <1>2, <1>3 DEF Tasks

\* A check that finds the offset unchanged corrects nothing.
LEMMA SwapSame ==
    ASSUME TypeInv, AgeInv, NEW t \in Tasks, Swap(t), read[t] = seen
    PROVE  ~Detected(check[t].now - last_time)
<1>1. PICK now \in Int, last \in Int, o \in Int :
        now = check[t].now /\ last = last_time /\ o = read[t] /\ o = seen
  BY Numbers DEF TypeInv
<1>2. (now - o) - (last - o) \in -2 .. 2
  BY <1>1, SwapSeconds DEF Second, LastSecond
<1>3. now - last \in -2 .. 2
  BY <1>2
<1> QED
  BY <1>1, <1>3, Numbers DEF Detected, Abs

\* What a swap takes for a leap, but for what the offset changed by: the seconds
\* between the two readings, or no more than the trigger if there is none.
LEMMA SwapMisses ==
    ASSUME TypeInv, AgeInv, NEW t \in Tasks, Swap(t),
           NEW delta \in Int, delta = check[t].now - last_time
    PROVE  \E missed \in -Blur .. Blur :
              (IF Detected(delta) THEN delta ELSE 0) - (read[t] - seen)
                = IF read[t] = seen THEN 0 ELSE Second(t) - LastSecond + missed
<1>1. PICK now \in Int, last \in Int, to \in Nat, from \in Nat :
        /\ now = check[t].now /\ last = last_time
        /\ to = read[t] /\ from = seen
        /\ to \in met /\ from \in met
  BY Numbers DEF TypeInv
<1>2. delta = now - last
  BY <1>1
<1>3. PICK s \in -2 .. 2 : s = Second(t) - LastSecond
  BY SwapSeconds
<1>4. delta = to - from + s
  BY <1>1, <1>2, <1>3 DEF Second, LastSecond
<1>5. SUFFICES \E missed \in -Blur .. Blur :
                 (IF Detected(delta) THEN delta ELSE 0) - (to - from)
                   = IF to = from THEN 0 ELSE s + missed
  BY <1>1, <1>3
<1>6. 0 \in -Blur .. Blur
  BY BlurNat
<1>7. CASE to = from
  <2>1. ~Detected(delta)
    BY <1>1, <1>7, SwapSame
  <2> QED
    BY <1>6, <1>7, <2>1
<1>8. CASE to # from /\ Detected(delta)
  BY <1>4, <1>6, <1>8
<1>9. CASE to # from /\ ~Detected(delta)
  <2>1. delta <= TRIGGER /\ -delta <= TRIGGER
    BY <1>9, Numbers DEF Detected, Abs
  <2>2. ~Far
    BY <1>1, <1>4, <1>9, <2>1, FarApart, Numbers
  <2>3. -delta \in -Blur .. Blur
    BY <2>1, <2>2, Numbers DEF Blur
  <2>4. 0 - (to - from) = s + -delta
    BY <1>4
  <2> QED
    BY <1>9, <2>3, <2>4
<1> QED
  BY <1>7, <1>8, <1>9

-----------------------------------------------------------------------------
(* Types. *)

LEMMA TypeStep == TypeInv /\ [Next]_vars => TypeInv'
<1> SUFFICES ASSUME TypeInv, [Next]_vars PROVE TypeInv'
  OBVIOUS
<1> USE Numbers
<1>0. Clock \in Int /\ Clock - offset \in 0 .. MaxTime
  BY DEF TypeInv, Clock
<1>1. CASE Tick
  BY <1>1 DEF Tick, TypeInv, Swapping, LastSecond, Second, history
<1>2. CASE Leap
  <2>1. check' \in [Tasks -> [pc : Places, now : Int, delta : Int]]
    BY <1>2 DEF Leap, TypeInv, At, Tasks, Places
  <2>2. \A t \in Tasks : Swapping(t)' => Second(t)' \in 0 .. MaxTime
    BY <1>2 DEF Leap, TypeInv, Swapping, Second, At, Tasks, history
  <2>3. offset' \in Offsets /\ leaps' \in 0 .. MaxLeaps /\ met' = met \cup {offset'}
    BY <1>2 DEF Leap, TypeInv
  <2>4. UNCHANGED <<elapsed, system_start, last_time, last_connect_time, cumulated_uptime, wifi,
                    synced, checked, read, seen, since>>
    BY <1>2 DEF Leap, history
  <2>5. met' \subseteq Offsets /\ {0, offset', seen'} \subseteq met' /\ read' \in [Tasks -> met']
    BY <2>3, <2>4 DEF TypeInv
  <2> QED
    BY <2>1, <2>2, <2>3, <2>4, <2>5 DEF TypeInv, LastSecond
<1>3. CASE Wake
  BY <1>3 DEF Wake, TypeInv, Swapping, LastSecond, Second, At, Tasks, Places, clocks, history
<1>4. ASSUME NEW t \in Tasks, ReadClock(t) PROVE TypeInv'
  <2>1. /\ check' = [check EXCEPT ![t] = At("swap", Clock, 0)]
        /\ read' = [read EXCEPT ![t] = offset]
        /\ UNCHANGED <<elapsed, offset, leaps, met, system_start, last_time, last_connect_time,
                       cumulated_uptime, wifi, synced, checked, seen, since>>
    BY <1>4 DEF ReadClock, clocks
  <2>2. check' \in [Tasks -> [pc : Places, now : Int, delta : Int]] /\ read' \in [Tasks -> met]
    BY <1>0, <2>1 DEF TypeInv, At, Places
  <2>3. ASSUME NEW u \in Tasks, Swapping(u)' PROVE Second(u)' \in 0 .. MaxTime
    <3>1. CASE u = t
      BY <1>0, <2>1, <3>1 DEF TypeInv, Second, At
    <3>2. CASE u # t
      BY <2>1, <2>3, <3>2 DEF TypeInv, Second, Swapping
    <3> QED
      BY <3>1, <3>2
  <2> QED
    BY <2>1, <2>2, <2>3 DEF TypeInv, LastSecond
<1>5. ASSUME NEW t \in Tasks, Swap(t) PROVE TypeInv'
  <2>1. check[t].now \in Int /\ last_time \in Int /\ Second(t) \in 0 .. MaxTime
    BY <1>5 DEF Swap, TypeInv, Swapping
  <2>2. check' \in [Tasks -> [pc : Places, now : Int, delta : Int]]
    BY <1>5, <2>1 DEF Swap, TypeInv, At, Rest, Places
  <2>3. /\ last_time' = check[t].now /\ seen' = read[t] /\ LastSecond' = Second(t)
        /\ checked' = IF t = "leap" THEN elapsed ELSE checked
        /\ UNCHANGED <<elapsed, offset, leaps, met, system_start, last_connect_time, cumulated_uptime,
                       wifi, synced, read, since>>
    BY <1>5 DEF Swap, clocks, LastSecond, Second
  <2>4. \A u \in Tasks : Swapping(u)' => Swapping(u) /\ Second(u)' = Second(u)
    BY <1>5, <2>3 DEF Swap, TypeInv, Swapping, Second, At, Rest
  <2> QED
    BY <2>1, <2>2, <2>3, <2>4 DEF TypeInv
<1>6. CASE \E t \in Tasks : ShiftStart(t)
  BY <1>6 DEF ShiftStart, TypeInv, Swapping, LastSecond, Second, At, Tasks, Places, clocks, history
<1>7. CASE \E t \in Tasks : ShiftConnect(t)
  BY <1>7 DEF ShiftConnect, TypeInv, Swapping, LastSecond, Second, At, Rest, Tasks, Places, clocks, history
<1>8. CASE Connect \/ Disconnect
  <2>1. wifi' \in [pc : WifiPlaces, now : Int, delta : Int] /\ since' \in -1 .. MaxTime
    BY <1>0, <1>8 DEF Connect, Disconnect, TypeInv, At, WifiPlaces
  <2>2. UNCHANGED <<clocks, system_start, last_time, last_connect_time, cumulated_uptime,
                    check, synced, checked, read, seen>>
    BY <1>8 DEF Connect, Disconnect
  <2> QED
    BY <2>1, <2>2 DEF TypeInv, Swapping, LastSecond, Second, clocks
<1>9. CASE NoteConnect
  <2>1. last_connect_time' \in Int
    BY <1>9 DEF NoteConnect, TypeInv
  <2>2. wifi' \in [pc : WifiPlaces, now : Int, delta : Int]
    BY <1>9 DEF NoteConnect, At, WifiPlaces
  <2> QED
    BY <1>9, <2>1, <2>2 DEF NoteConnect, TypeInv, Swapping, LastSecond, Second, clocks, history
<1>13. CASE ReadDisconnect
  BY <1>0, <1>13 DEF ReadDisconnect, TypeInv, Swapping, LastSecond, Second, At, WifiPlaces, clocks, history
<1>14. CASE StartSync \/ StopSync
  <2>1. wifi' = Rest /\ synced' \in BOOLEAN /\ UNCHANGED <<clocks, system_start, last_time,
            last_connect_time, cumulated_uptime, check, history>>
    BY <1>14 DEF StartSync, StopSync
  <2> QED
    BY <2>1 DEF TypeInv, Swapping, LastSecond, Second, Rest, At, WifiPlaces, clocks, history
<1>11. CASE NoteDisconnect
  BY <1>11 DEF NoteDisconnect, TypeInv, Swapping, LastSecond, Second, At, WifiPlaces, clocks, history
<1>12. CASE Cumulate
  BY <1>12 DEF Cumulate, TypeInv, Swapping, LastSecond, Second, At, WifiPlaces, clocks, history
<1>10. CASE UNCHANGED vars
  BY <1>10 DEF vars, clocks, history, TypeInv, Swapping, LastSecond, Second
<1> QED
  BY <1>1, <1>2, <1>3, <1>4, <1>5, <1>6, <1>7, <1>8, <1>9, <1>10, <1>11, <1>12, <1>13, <1>14 DEF Next

-----------------------------------------------------------------------------
(* Ages. *)

LEMMA AgeStep == TypeInv /\ AgeInv /\ [Next]_vars => AgeInv'
<1> SUFFICES ASSUME TypeInv, AgeInv, [Next]_vars PROVE AgeInv'
  OBVIOUS
<1> USE Numbers
<1>a. Clock - offset = elapsed
  BY DEF TypeInv, Clock
<1>b. LastSecond \in Nat /\ \A t \in Tasks : Swapping(t) => Second(t) \in Nat
  BY AreNumbers
<1>1. CASE Tick
  <2>1. Swapping("sntp") => Second("sntp") = elapsed
    BY <1>1, <1>a DEF Tick, Swapping, Second, AgeInv
  <2>2. /\ LastSecond' = LastSecond /\ UNCHANGED <<offset, checked, read>>
        /\ \A t \in Tasks : Second(t)' = Second(t) /\ Swapping(t)' = Swapping(t)
    BY <1>1 DEF Tick, LastSecond, Second, Swapping, history
  <2>3. elapsed' = elapsed + 1 /\ elapsed = checked /\ elapsed \in Nat
    BY <1>1 DEF Tick, TypeInv
  <2> QED
    BY <1>b, <2>1, <2>2, <2>3 DEF AgeInv, Tasks
<1>2. CASE Leap
  BY <1>2 DEF Leap, AgeInv, TypeInv, Swapping, LastSecond, Second, At, Tasks, history
<1>3. CASE Wake
  BY <1>3 DEF Wake, AgeInv, TypeInv, Swapping, LastSecond, Second, At, Tasks, clocks, history
<1>4. ASSUME NEW t \in Tasks, ReadClock(t) PROVE AgeInv'
  <2>1. \A u \in Tasks : /\ check'[u] = IF u = t THEN At("swap", Clock, 0) ELSE check[u]
                         /\ read'[u] = IF u = t THEN offset ELSE read[u]
    BY <1>4 DEF ReadClock, TypeInv
  <2>2. UNCHANGED <<elapsed, offset, checked>> /\ LastSecond' = LastSecond
    BY <1>4 DEF ReadClock, clocks, LastSecond
  <2>3. ASSUME NEW u \in Tasks PROVE Swapping(u)' <=> Swapping(u) \/ u = t
    BY <2>1, <1>4 DEF Swapping, At, ReadClock
  <2>4. ASSUME NEW u \in Tasks
        PROVE  Second(u)' = IF u = t THEN elapsed ELSE Second(u)
    BY <1>a, <2>1 DEF At, Second
  <2> QED
    BY <2>1, <2>2, <2>3, <2>4 DEF AgeInv, TypeInv, Tasks
<1>5. ASSUME NEW t \in Tasks, Swap(t) PROVE AgeInv'
  <2>1. \A u \in Tasks : u # t => check'[u] = check[u]
    BY <1>5 DEF Swap, TypeInv
  <2>2. ~Swapping(t)'
    BY <1>5 DEF Swap, TypeInv, Swapping, At, Rest
  <2>3. /\ UNCHANGED <<elapsed, offset, read>> /\ LastSecond' = Second(t)
        /\ checked' = IF t = "leap" THEN elapsed ELSE checked
    BY <1>5 DEF Swap, clocks, LastSecond, Second
  <2>4. Swapping(t)
    BY <1>5 DEF Swap, Swapping
  <2>7. CASE t = "leap"
    <3>1. Swapping("sntp")' = Swapping("sntp") /\ Second("sntp")' = Second("sntp")
      BY <2>1, <2>3, <2>7 DEF Tasks, Swapping, Second
    <3> QED
      BY <2>2, <2>3, <2>4, <2>7, <3>1, <1>b DEF AgeInv, TypeInv, Tasks
  <2>8. CASE t = "sntp"
    <3>1. Swapping("leap")' = Swapping("leap") /\ Second("leap")' = Second("leap")
      BY <2>1, <2>3, <2>8 DEF Tasks, Swapping, Second
    <3> QED
      BY <2>2, <2>3, <2>4, <2>8, <3>1, <1>b DEF AgeInv, TypeInv, Tasks
  <2> QED
    BY <2>7, <2>8 DEF Tasks
<1>6. CASE \E t \in Tasks : ShiftStart(t) \/ ShiftConnect(t)
  BY <1>6 DEF ShiftStart, ShiftConnect, AgeInv, TypeInv, Swapping, LastSecond, Second, At, Rest, Tasks,
     clocks, history
<1>7. CASE Connect \/ NoteConnect \/ StartSync \/ Disconnect
  BY <1>7 DEF Connect, NoteConnect, StartSync, Disconnect, AgeInv, Swapping, LastSecond, Second, clocks, history
<1>8. CASE ReadDisconnect \/ NoteDisconnect \/ Cumulate \/ StopSync
  BY <1>8 DEF ReadDisconnect, NoteDisconnect, Cumulate, StopSync, AgeInv, Swapping, LastSecond, Second,
     clocks, history
<1>9. CASE UNCHANGED vars
  BY <1>9 DEF vars, AgeInv, Swapping, LastSecond, Second, clocks, history
<1> QED
  BY <1>1, <1>2, <1>3, <1>4, <1>5, <1>6, <1>7, <1>8, <1>9 DEF Next

-----------------------------------------------------------------------------
(* Errors. *)

\* A step that starts, ends or moves no check between reading and swapping.
LEMMA SameWithin ==
    ASSUME NEW d \in Int, NEW bound \in Int, Within(d, bound),
           UNCHANGED <<offset, met, last_time, seen, checked>>,
           (check["sntp"].pc = "read")' <=> check["sntp"].pc = "read",
           \A t \in Tasks : /\ Swapping(t)' <=> Swapping(t)
                            /\ Swapping(t) => check'[t] = check[t] /\ read'[t] = read[t]
    PROVE  Within(d, bound)'
<1>1. LastSecond' = LastSecond /\ Blur' = Blur
  BY DEF LastSecond, Blur, Far
<1>2. Stale' <=> Stale
  BY DEF Stale, Tasks
<1>3. /\ Swapping("sntp")' <=> Swapping("sntp")
      /\ Swapping("sntp") => Second("sntp")' = Second("sntp")
      /\ Stale => Second("leap")' = Second("leap") /\ read'["leap"] = read["leap"]
  BY DEF Stale, Tasks, Second
<1> QED
  BY <1>1, <1>2, <1>3 DEF Within, Turns

\* Whatever is still to be corrected keeps the error within its bounds.
LEMMA WithinBounds ==
    ASSUME TypeInv, AgeInv, NEW d \in Int, NEW bound \in Nat, Within(d, bound)
    PROVE  d \in -bound .. bound
<1>1. /\ seen = offset /\ ~Stale => d \in -bound .. bound
      /\ seen # offset \/ Stale => \E late \in 1 .. 2, m \in 1 .. 3 : Turns(d, LastSecond, late, bound, m * Blur)
  BY BlurNat DEF Within
<1>2. ASSUME NEW late \in 1 .. 2, NEW m \in 1 .. 3, Turns(d, LastSecond, late, bound, m * Blur)
      PROVE  d \in -bound .. bound
  <2>1. PICK x \in Nat : x = m * Blur
    BY BlurNat
  <2>2. Turns(d, LastSecond, late, bound, x)
    BY <1>2, <2>1
  <2> QED
    BY <2>2, AreNumbers DEF Turns, AgeInv
<1> QED
  BY <1>1, <1>2

\* A leap may cost three seconds and what three checks miss, whatever is still to
\* be corrected.
LEMMA LeapWithin ==
    ASSUME TypeInv, AgeInv, Leap, NEW d \in Int, NEW bound \in Nat, Within(d, bound),
           NEW blur \in Nat, NEW larger \in Nat, larger >= bound + 3 + 3 * blur
    PROVE  blur = Blur' => Within(d, larger)'
<1>0. SUFFICES ASSUME blur = Blur' PROVE Within(d, larger)'
  OBVIOUS
<1>1. d \in -bound .. bound
  BY WithinBounds
<1>3. /\ ~Swapping("sntp")' /\ checked' = checked /\ LastSecond' = LastSecond
      /\ Second("leap")' = Second("leap")
      /\ Swapping("leap")' <=> Swapping("leap")
  BY DEF Leap, TypeInv, Tasks, Swapping, LastSecond, Second, At, history
<1>4. ASSUME NEW s \in Nat, s \in checked - 1 .. elapsed, NEW late \in 1 .. 2,
             NEW m \in Nat, m <= 3 * blur
      PROVE  Turns(d, s, late, larger, m)'
  <2>1. larger >= bound + 3 + 3 * blur /\ -bound <= d /\ d <= bound
    BY <1>1
  <2>2. checked \in Nat /\ elapsed \in Nat /\ checked \in elapsed - 1 .. elapsed
    BY AreNumbers DEF AgeInv
  <2> QED
    BY <1>3, <1>4, <2>1, <2>2 DEF Turns
<1>5. /\ Turns(d, LastSecond, 1, larger, Blur)' /\ Turns(d, LastSecond, 2, larger, 2 * Blur)'
      /\ Turns(d, LastSecond, 2, larger, 3 * Blur)'
  <2>1. LastSecond \in checked - 1 .. elapsed /\ LastSecond \in Nat
    BY AreNumbers DEF AgeInv
  <2>2. /\ Turns(d, LastSecond, 1, larger, blur)' /\ Turns(d, LastSecond, 2, larger, 2 * blur)'
        /\ Turns(d, LastSecond, 2, larger, 3 * blur)'
    <3>1. \A m \in Nat : m <= 3 * blur => /\ Turns(d, LastSecond, 1, larger, m)'
                                          /\ Turns(d, LastSecond, 2, larger, m)'
      BY <1>3, <1>4, <2>1 DEF Turns
    <3>2. blur <= 3 * blur /\ 2 * blur <= 3 * blur /\ 2 * blur \in Nat /\ 3 * blur \in Nat
      OBVIOUS
    <3> QED
      BY <3>1, <3>2 DEF Turns
  <2> QED
    BY <1>0, <2>2 DEF Turns
<1>6. Swapping("leap") => Turns(d, Second("leap"), 2, larger, 3 * Blur)'
  <2>1. SUFFICES ASSUME Swapping("leap") PROVE Turns(d, Second("leap"), 2, larger, 3 * Blur)'
    OBVIOUS
  <2>2. Second("leap") \in checked .. elapsed /\ Second("leap") \in Nat
    BY <2>1, AreNumbers DEF AgeInv, Tasks
  <2>3. PICK s \in Nat : s = Second("leap") /\ s = Second("leap")' /\ s \in checked - 1 .. elapsed
    BY <1>3, <2>2, AreNumbers
  <2>4. Turns(d, s, 2, larger, 3 * blur)'
    BY <1>4, <2>3
  <2> QED
    BY <1>0, <2>3, <2>4 DEF Turns
<1>7. d \in -larger .. larger /\ d - 2 >= 2 * Blur' - larger
  <2>1. larger >= bound + 3 + 3 * blur /\ -bound <= d /\ d <= bound
    BY <1>1
  <2>2. d \in -larger .. larger /\ d - 2 >= 2 * blur - larger
    BY <2>1
  <2> QED
    BY <1>0, <2>2
<1> QED
  BY <1>3, <1>5, <1>6, <1>7 DEF Within, Stale

\* A reading starts a swap that is not stale.
LEMMA ReadWithin ==
    ASSUME TypeInv, AgeInv, NEW t \in Tasks, ReadClock(t),
           NEW d \in Int, NEW bound \in Nat, Within(d, bound)
    PROVE  Within(d, bound)'
<1>1. /\ UNCHANGED <<offset, met, last_time, seen, checked>>
      /\ LastSecond' = LastSecond /\ Blur' = Blur
  BY DEF ReadClock, clocks, LastSecond, Blur, Far
<1>2. check'[t].now = Clock /\ read'[t] = offset /\ Swapping(t)' /\ ~Swapping(t)
  BY DEF ReadClock, TypeInv, At, Swapping
<1>3. Second(t)' = elapsed
  BY <1>2, AreNumbers DEF Second, Clock
<1>4. CASE t = "leap"
  <2>1. ~Stale /\ ~Stale'
    BY <1>1, <1>2, <1>4 DEF Stale
  <2> QED
    BY <1>1, <2>1 DEF Within, Turns
<1>5. CASE t = "sntp"
  <2>1. /\ read'["leap"] = read["leap"] /\ Second("leap")' = Second("leap")
        /\ Swapping("leap")' <=> Swapping("leap")
    BY <1>5 DEF ReadClock, TypeInv, Swapping, Second, Tasks
  <2>2. Stale' <=> Stale
    BY <1>1, <2>1 DEF Stale
  <2>3. Stale /\ seen = offset => Turns(d, elapsed, 2, bound, 2 * Blur)
    <3>1. Stale /\ seen = offset => /\ Turns(d, LastSecond, 2, bound, 2 * Blur)
                                    /\ d - 2 >= 2 * Blur - bound
      BY <1>5 DEF Within, ReadClock
    <3> QED
      BY <3>1, AreNumbers DEF Turns, AgeInv
  <2>4. Second("sntp")' = elapsed
    BY <1>3, <1>5
  <2>5. check'["sntp"].pc # "read"
    BY <1>2, <1>5 DEF Swapping
  <2> QED
    BY <1>1, <2>1, <2>2, <2>3, <2>4, <2>5 DEF Within, Turns
<1> QED
  BY <1>4, <1>5 DEF Tasks

\* A swap corrects the error by the seconds between two readings with different
\* offsets but for what it misses, and leaves one bound less to reach.
LEMMA SwapWithin ==
    ASSUME TypeInv, AgeInv, NEW t \in Tasks, Swap(t),
           NEW d \in Int, NEW bound \in Nat, Within(d, bound), NEW e \in Int,
           NEW blur \in Nat, NEW missed \in -blur .. blur,
           e = d + (IF read[t] = seen THEN 0 ELSE Second(t) - LastSecond + missed)
    PROVE  blur = Blur => Within(e, bound)'
<1>0. SUFFICES ASSUME blur = Blur PROVE Within(e, bound)'
  OBVIOUS
<1>1. UNCHANGED <<elapsed, offset, read>> /\ LastSecond' = Second(t) /\ seen' = read[t]
  BY DEF Swap, clocks, LastSecond, Second
<1>2. Swapping(t) /\ ~Swapping(t)'
  BY DEF Swap, TypeInv, Swapping, At, Rest
<1>3. checked' = IF t = "leap" THEN elapsed ELSE checked
  BY DEF Swap
<1>4. blur = Blur /\ blur = Blur' /\ missed \in -blur .. blur
  BY <1>0 DEF Blur, Far, Swap, clocks
<1>5. PICK from \in Nat, to \in Nat : from = LastSecond /\ to = Second(t)
  BY <1>2, AreNumbers
<1>6. /\ elapsed \in Nat /\ checked \in Nat /\ missed \in Int
      /\ missed <= blur /\ -blur <= missed
      /\ checked \in elapsed - 1 .. elapsed /\ from \in checked - 1 .. elapsed
  <2>1. missed \in Int /\ missed <= blur /\ -blur <= missed
    OBVIOUS
  <2> QED
    BY <1>5, <2>1, AreNumbers DEF AgeInv
<1>7. e = d + (IF read[t] = seen THEN 0 ELSE to - from + missed)
  BY <1>5
<1>8. CASE t = "leap"
  <2>1. ~Stale' /\ to \in checked .. elapsed /\ checked' = elapsed
    BY <1>2, <1>3, <1>5, <1>8 DEF Stale, AgeInv
  <2>2. (Stale <=> read[t] # offset)
    BY <1>2, <1>8 DEF Stale
  <2>3. read[t] = offset => e \in -bound .. bound
    <3>1. CASE read[t] = offset /\ seen = offset
      BY <1>7, <2>2, <3>1 DEF Within
    <3>2. CASE read[t] = offset /\ seen # offset
      <4>1. Turns(d, from, 1, bound, blur)
        BY <1>4, <1>5, <2>2, <3>2 DEF Within
      <4>2. e = d + (to - from + missed)
        BY <1>7, <3>2
      <4> QED
        BY <1>6, <2>1, <4>1, <4>2 DEF Turns
    <3> QED
      BY <3>1, <3>2
  <2>4. read[t] # offset => /\ e + elapsed - 1 - to >= blur - bound
                            /\ e + elapsed + 1 - to <= bound - blur
    <3>1. CASE read[t] # offset /\ read[t] # seen
      <4>1. Turns(d, from, 2, bound, 2 * blur)
        <5>1. Turns(d, from, 2, bound, 2 * blur) \/ Turns(d, from, 2, bound, 3 * blur)
          BY <1>4, <1>5, <2>2, <3>1 DEF Within
        <5> QED
          BY <5>1, <1>6 DEF Turns
      <4>2. e = d + (to - from + missed)
        BY <1>7, <3>1
      <4> QED
        BY <1>6, <2>1, <4>1, <4>2 DEF Turns
    <3>2. CASE read[t] # offset /\ read[t] = seen
      <4>1. Turns(d, to, 2, bound, 3 * blur) /\ e = d
        BY <1>4, <1>5, <1>7, <1>8, <2>2, <3>2 DEF Within
      <4> QED
        BY <1>6, <2>1, <4>1 DEF Turns
    <3> QED
      BY <3>1, <3>2
  <2> QED
    BY <1>1, <1>4, <1>5, <2>1, <2>3, <2>4 DEF Within, Turns
<1>9. CASE t = "sntp"
  <2>1. read[t] = offset /\ to \in elapsed - 1 .. elapsed /\ checked' = checked
    BY <1>2, <1>3, <1>5, <1>9 DEF AgeInv
  <2>2. check'["leap"] = check["leap"] /\ (Swapping("leap")' <=> Swapping("leap"))
    BY <1>9 DEF Swap, TypeInv, Swapping, Tasks
  <2>3. Stale' <=> Stale
    BY <1>1, <2>2 DEF Stale
  <2>4. ~Stale => e \in -bound .. bound
    <3>1. CASE ~Stale /\ seen = offset
      BY <1>7, <2>1, <3>1 DEF Within
    <3>2. CASE ~Stale /\ seen # offset
      <4>1. Turns(d, from, 1, bound, blur)
        BY <1>4, <1>5, <3>2 DEF Within
      <4>2. e = d + (to - from + missed)
        BY <1>7, <2>1, <3>2
      <4> QED
        BY <1>6, <2>1, <4>1, <4>2 DEF Turns
    <3> QED
      BY <3>1, <3>2
  <2>5. Stale => /\ e + checked - 1 - to >= 2 * blur - bound
                 /\ e + checked + 2 - to <= bound - 2 * blur
    <3>1. CASE Stale /\ seen = offset
      <4>1. Turns(d, to, 2, bound, 2 * blur) /\ e = d
        BY <1>2, <1>4, <1>5, <1>7, <1>9, <2>1, <3>1 DEF Within
      <4> QED
        BY <4>1 DEF Turns
    <3>2. CASE Stale /\ seen # offset
      <4>1. Turns(d, from, 2, bound, 3 * blur)
        BY <1>4, <1>5, <3>2 DEF Within
      <4>2. e = d + (to - from + missed)
        BY <1>7, <2>1, <3>2
      <4> QED
        BY <1>6, <2>1, <4>1, <4>2 DEF Turns
    <3> QED
      BY <3>1, <3>2
  <2>6. ~Swapping("sntp")' /\ check'["sntp"].pc # "read"
    BY <1>2, <1>9 DEF Swap, TypeInv, At, Rest
  <2>7. seen' = offset' /\ LastSecond' = to
    BY <1>1, <1>5, <2>1
  <2> QED
    BY <1>1, <1>4, <2>1, <2>3, <2>4, <2>5, <2>6, <2>7 DEF Within, Turns
<1> QED
  BY <1>8, <1>9 DEF Tasks

-----------------------------------------------------------------------------
(* The steps of the checks, and what they leave pending. *)

LEMMA PendingInt ==
    TypeInv => {StartPending, ConnectPending, StartError, ConnectError} \subseteq Int
<1> SUFFICES ASSUME TypeInv PROVE {StartPending, ConnectPending, StartError, ConnectError} \subseteq Int
  OBVIOUS
<1>1. StartPending \in Int /\ ConnectPending \in Int
  BY DEF TypeInv, StartPending, ConnectPending, AllPending, Pending, Tasks
<1>2. seen \in Int /\ system_start \in Int /\ last_connect_time \in Int /\ since \in Int
  BY Numbers DEF TypeInv
<1> QED
  BY <1>1, <1>2 DEF StartError, ConnectError

\* Steps that leave alone the times, and what is seen and not yet added.
LEMMA IdlePending ==
    ASSUME TypeInv, Leap \/ Wake \/ \E t \in Tasks : ReadClock(t)
    PROVE  StartPending' = StartPending /\ ConnectPending' = ConnectPending
<1>1. CASE Leap
  BY <1>1 DEF Leap, TypeInv, At, StartPending, ConnectPending, AllPending, Pending, Tasks
<1>2. CASE Wake
  BY <1>2 DEF Wake, TypeInv, At, StartPending, ConnectPending, AllPending, Pending, Tasks
<1>3. CASE \E t \in Tasks : ReadClock(t)
  BY <1>3 DEF ReadClock, TypeInv, At, StartPending, ConnectPending, AllPending, Pending, Tasks
<1> QED
  BY <1>1, <1>2, <1>3

\* A swap leaves the error pending that it saw.
LEMMA SwapPending ==
    ASSUME TypeInv, NEW t \in Tasks, Swap(t),
           NEW delta \in Int, delta = check[t].now - last_time
    PROVE  /\ StartPending' = StartPending + (IF Detected(delta) THEN delta ELSE 0)
           /\ ConnectPending' = ConnectPending + (IF Detected(delta) THEN delta ELSE 0)
<1>1. check[t].pc = "swap"
  BY DEF Swap
<1>2. check' = [check EXCEPT ![t] = IF Detected(delta) THEN At("start", 0, delta) ELSE Rest]
  BY DEF Swap
<1>3. CASE Detected(delta)
  BY <1>1, <1>2, <1>3 DEF TypeInv, At, StartPending, ConnectPending, AllPending, Pending, Tasks
<1>4. CASE ~Detected(delta)
  BY <1>1, <1>2, <1>4 DEF TypeInv, At, Rest, StartPending, ConnectPending, AllPending, Pending, Tasks
<1> QED
  BY <1>3, <1>4

LEMMA ShiftPending ==
    ASSUME TypeInv, NEW t \in Tasks, ShiftStart(t) \/ ShiftConnect(t)
    PROVE  /\ system_start' + StartPending' = system_start + StartPending
           /\ last_connect_time' + ConnectPending' = last_connect_time + ConnectPending
<1>1. CASE ShiftStart(t)
  BY <1>1 DEF ShiftStart, TypeInv, At, StartPending, ConnectPending, AllPending, Pending, Tasks
<1>2. CASE ShiftConnect(t)
  BY <1>2 DEF ShiftConnect, TypeInv, At, Rest, StartPending, ConnectPending, AllPending, Pending, Tasks
<1> QED
  BY <1>1, <1>2

CheckStep ==
    \/ Tick \/ Leap \/ Wake
    \/ \E t \in Tasks : ReadClock(t) \/ Swap(t) \/ ShiftStart(t) \/ ShiftConnect(t)

\* Checks that cross no leap leave both errors alone; a leap comes with none.
LEMMA ErrorSame ==
    ASSUME TypeInv, TypeInv',
           \/ Tick \/ Leap \/ Wake
           \/ \E t \in Tasks : ReadClock(t) \/ ShiftStart(t) \/ ShiftConnect(t)
    PROVE  StartError' = StartError /\ ConnectError' = ConnectError
<1>1. since' = since /\ seen' = seen /\ since \in Int /\ seen \in Int
  BY Numbers DEF Tick, Leap, Wake, ReadClock, ShiftStart, ShiftConnect, history, TypeInv
<1>2. /\ StartPending \in Int /\ ConnectPending \in Int /\ StartPending' \in Int /\ ConnectPending' \in Int
      /\ system_start \in Int /\ last_connect_time \in Int
      /\ system_start' \in Int /\ last_connect_time' \in Int
  <2>1. ({StartPending, ConnectPending, StartError, ConnectError} \subseteq Int)'
    BY PendingInt, PTL
  <2> QED
    BY <2>1, PendingInt DEF TypeInv
<1>3. /\ system_start' + StartPending' = system_start + StartPending
      /\ last_connect_time' + ConnectPending' = last_connect_time + ConnectPending
  <2>1. CASE Tick
    BY <2>1 DEF Tick, StartPending, ConnectPending, AllPending, Pending
  <2>2. CASE Leap \/ Wake \/ \E t \in Tasks : ReadClock(t)
    <3>1. UNCHANGED <<system_start, last_connect_time>>
      BY <2>2 DEF Leap, Wake, ReadClock
    <3> QED
      BY <2>2, <3>1, IdlePending
  <2>3. CASE \E t \in Tasks : ShiftStart(t) \/ ShiftConnect(t)
    BY <2>3, ShiftPending
  <2> QED
    BY <2>1, <2>2, <2>3
<1>4. PICK u \in Int, v \in Int : u = seen /\ u = seen' /\ v = since /\ v = since'
  BY <1>1
<1>5. StartError' = StartError
  <2>1. PICK x \in Int, y \in Int, p \in Int, q \in Int :
          x = system_start /\ y = system_start' /\ p = StartPending /\ q = StartPending'
    BY <1>2
  <2>2. y + q = x + p
    BY <1>3, <2>1
  <2>3. StartError = x + p - u /\ StartError' = y + q - u
    BY <1>4, <2>1 DEF StartError
  <2> QED
    BY <2>2, <2>3
<1>6. ConnectError' = ConnectError
  <2>1. PICK x \in Int, y \in Int, p \in Int, q \in Int :
          /\ x = last_connect_time /\ y = last_connect_time'
          /\ p = ConnectPending /\ q = ConnectPending'
    BY <1>2
  <2>2. y + q = x + p
    BY <1>3, <2>1
  <2>3. ConnectError = x + p - u - v /\ ConnectError' = y + q - u - v
    BY <1>4, <2>1 DEF ConnectError
  <2> QED
    BY <2>2, <2>3
<1> QED
  BY <1>5, <1>6

\* A swap changes both by the seconds between the readings, and what it misses.
LEMMA ErrorSwap ==
    ASSUME TypeInv, AgeInv, TypeInv', NEW t \in Tasks, Swap(t)
    PROVE  \E missed \in -Blur .. Blur, by \in Int :
             /\ by = IF read[t] = seen THEN 0 ELSE Second(t) - LastSecond + missed
             /\ StartError' = StartError + by
             /\ ConnectError' = ConnectError + by
<1>1. PICK delta \in Int : delta = check[t].now - last_time
  BY DEF TypeInv, Swap
<1>2. PICK gain \in Int : gain = IF Detected(delta) THEN delta ELSE 0
  OBVIOUS
<1>3. StartPending' = StartPending + gain /\ ConnectPending' = ConnectPending + gain
  BY <1>1, <1>2, SwapPending
<1>4. PICK missed \in -Blur .. Blur :
        gain - (read[t] - seen) = IF read[t] = seen THEN 0 ELSE Second(t) - LastSecond + missed
  BY <1>1, <1>2, SwapMisses
<1>5. PICK to \in Int, from \in Int : to = read[t] /\ to = seen' /\ from = seen
  BY Numbers DEF Swap, TypeInv
<1>6. PICK by \in Int : by = gain - (to - from)
  OBVIOUS
<1>7. PICK p \in Int, q \in Int, x \in Int, y \in Int, v \in Int :
        /\ p = StartPending /\ q = ConnectPending
        /\ x = system_start /\ x = system_start'
        /\ y = last_connect_time /\ y = last_connect_time'
        /\ v = since /\ v = since'
  <2>1. UNCHANGED <<system_start, last_connect_time, since>>
    BY DEF Swap
  <2>2. since \in Int
    BY Numbers DEF TypeInv
  <2> QED
    BY <2>1, <2>2, PendingInt DEF TypeInv
<1>8. StartError = x + p - from /\ StartError' = x + (p + gain) - to
  BY <1>3, <1>5, <1>7 DEF StartError
<1>9. ConnectError = y + q - from - v /\ ConnectError' = y + (q + gain) - to - v
  BY <1>3, <1>5, <1>7 DEF ConnectError
<1>10. StartError' = StartError + by /\ ConnectError' = ConnectError + by
  BY <1>6, <1>8, <1>9
<1>11. by = IF read[t] = seen THEN 0 ELSE Second(t) - LastSecond + missed
  BY <1>4, <1>5, <1>6
<1> QED
  BY <1>10, <1>11

\* The bounds are the same before and after, but for a leap.
LEMMA SameBounds ==
    ASSUME leaps' = leaps, met' = met
    PROVE  Error' = Error /\ Blur' = Blur
BY DEF Error, Blur, Far

\* Both errors stay within what they may be, whatever a check does.
LEMMA ErrorStep ==
    ASSUME TypeInv, AgeInv, TypeInv', CheckStep
    PROVE  /\ StartWithin => StartWithin'
           /\ ConnectWithin => ConnectWithin'
<1>1. PICK d \in Int, e \in Int, c \in Int, b \in Int :
        d = StartError /\ e = StartError' /\ c = ConnectError /\ b = ConnectError'
  <2>1. StartError \in Int /\ ConnectError \in Int
    BY PendingInt
  <2>2. ({StartPending, ConnectPending, StartError, ConnectError} \subseteq Int)'
    BY PendingInt, PTL
  <2> QED
    BY <2>1, <2>2
<1>2. PICK error \in Nat, blur \in Nat : error = Error /\ blur = Blur
  BY AreNumbers
<1>3. PICK later \in Nat, more \in Nat :
        /\ later = Error' /\ more = Blur'
        /\ IF Leap THEN later >= error + 3 + 3 * more /\ more >= blur
           ELSE later = error /\ more = blur
  <2>1. CASE Leap
    BY <1>2, <2>1, LeapError, BlurGrows
  <2>2. CASE ~Leap
    <3>1. leaps' = leaps /\ met' = met
      BY <2>2 DEF CheckStep, Tick, Wake, ReadClock, Swap, ShiftStart, ShiftConnect, clocks
    <3> QED
      BY <1>2, <2>2, <3>1, SameBounds
  <2> QED
    BY <2>1, <2>2
<1>4. /\ StartWithin <=> Within(d, error + blur)
      /\ ConnectWithin <=> Within(c, error)
  BY <1>1, <1>2 DEF StartWithin, ConnectWithin
<1>5. /\ StartWithin' <=> Within(e, later + more)'
      /\ ConnectWithin' <=> Within(b, later)'
  BY <1>1, <1>2, <1>3 DEF StartWithin, ConnectWithin, Within, Turns
<1>6. SUFFICES /\ Within(d, error + blur) => Within(e, later + more)'
               /\ Within(c, error) => Within(b, later)'
  BY <1>4, <1>5
<1>7. CASE Leap
  <2>1. e = d /\ b = c
    BY <1>1, <1>7, ErrorSame
  <2>2. later >= error + 3 + 3 * more /\ more >= blur
    BY <1>3, <1>7
  <2>3. later + more >= (error + blur) + 3 + 3 * more
    BY <2>2
  <2>4. error + blur \in Nat /\ later + more \in Nat
    OBVIOUS
  <2>5. Within(d, error + blur) => Within(d, later + more)'
    BY <1>3, <1>7, <2>3, <2>4, LeapWithin
  <2>6. Within(c, error) => Within(c, later)'
    BY <1>3, <1>7, <2>2, LeapWithin
  <2> QED
    BY <2>1, <2>5, <2>6
<1>8. CASE Tick \/ Wake \/ \E t \in Tasks : ShiftStart(t) \/ ShiftConnect(t)
  <2>1. e = d /\ b = c
    BY <1>1, <1>8, ErrorSame
  <2>3. UNCHANGED <<offset, leaps, met, last_time, seen, checked, read>>
    BY <1>8 DEF Tick, Wake, ShiftStart, ShiftConnect, clocks, history
  <2>4. later = error /\ more = blur
    BY <1>2, <1>3, <2>3, SameBounds
  <2>5. /\ \A u \in Tasks : /\ Swapping(u)' <=> Swapping(u)
                            /\ Swapping(u) => check'[u] = check[u] /\ read'[u] = read[u]
        /\ (check["sntp"].pc = "read")' <=> check["sntp"].pc = "read"
    BY <1>8, <2>3 DEF Tick, Wake, ShiftStart, ShiftConnect, TypeInv, Swapping, At, Rest, Tasks
  <2>6. error + blur \in Int
    OBVIOUS
  <2>7. Within(d, error + blur) => Within(d, error + blur)'
    BY <2>3, <2>5, <2>6, SameWithin
  <2>8. Within(c, error) => Within(c, error)'
    BY <2>3, <2>5, SameWithin
  <2> QED
    BY <2>1, <2>4, <2>7, <2>8
<1>9. ASSUME NEW t \in Tasks, ReadClock(t)
      PROVE  /\ Within(d, error + blur) => Within(e, later + more)'
             /\ Within(c, error) => Within(b, later)'
  <2>1. e = d /\ b = c
    BY <1>1, <1>9, ErrorSame
  <2>2. leaps' = leaps /\ met' = met
    BY <1>9 DEF ReadClock, clocks
  <2>3. later = error /\ more = blur /\ error + blur \in Nat
    BY <1>2, <1>3, <2>2, SameBounds
  <2> QED
    BY <1>9, <2>1, <2>3, ReadWithin
<1>10. ASSUME NEW t \in Tasks, Swap(t)
       PROVE  /\ Within(d, error + blur) => Within(e, later + more)'
              /\ Within(c, error) => Within(b, later)'
  <2>1. leaps' = leaps /\ met' = met
    BY <1>10 DEF Swap, clocks
  <2>2. later = error /\ more = blur /\ error + blur \in Nat
    BY <1>2, <1>3, <2>1, SameBounds
  <2>3. PICK missed \in -blur .. blur, by \in Int :
          /\ by = IF read[t] = seen THEN 0 ELSE Second(t) - LastSecond + missed
          /\ e = d + by /\ b = c + by
    BY <1>1, <1>2, <1>10, ErrorSwap
  <2>4. Within(d, error + blur) => Within(e, error + blur)'
    BY <1>2, <1>10, <2>2, <2>3, SwapWithin
  <2>5. Within(c, error) => Within(b, error)'
    BY <1>2, <1>10, <2>3, SwapWithin
  <2> QED
    BY <2>2, <2>4, <2>5
<1> QED
  BY <1>7, <1>8, <1>9, <1>10 DEF CheckStep

-----------------------------------------------------------------------------
(* The steps of the WiFi callbacks. *)

WifiStep ==
    \/ Connect \/ NoteConnect \/ StartSync
    \/ Disconnect \/ ReadDisconnect \/ NoteDisconnect \/ Cumulate \/ StopSync

\* They leave the error of the boot time alone, and the checks.
LEMMA WifiLeaves ==
    ASSUME WifiStep \/ UNCHANGED vars
    PROVE  /\ UNCHANGED <<offset, leaps, met, last_time, checked, check, system_start, read, seen>>
           /\ StartError' = StartError
           /\ ConnectPending' = ConnectPending
           /\ \A t \in Tasks : Swapping(t)' <=> Swapping(t)
<1>1. UNCHANGED <<offset, leaps, met, last_time, checked, check, system_start, read, seen>>
  BY DEF WifiStep, Connect, NoteConnect, StartSync, Disconnect, ReadDisconnect, NoteDisconnect,
     Cumulate, StopSync, vars, clocks, history
<1> QED
  BY <1>1
  DEF StartError, StartPending, ConnectPending, AllPending, Pending, Swapping

\* An error that they leave alone stays within its bound.
LEMMA WifiWithin ==
    ASSUME WifiStep \/ UNCHANGED vars, NEW d \in Int, NEW bound \in Int, Within(d, bound)
    PROVE  Within(d, bound)'
BY WifiLeaves, SameWithin

\* So does the error of a connection that they do not start.
LEMMA ConnectLeft ==
    ASSUME TypeInv, WifiStep \/ UNCHANGED vars, UNCHANGED <<since, last_connect_time>>, ConnectWithin
    PROVE  ConnectWithin'
<1>1. ConnectError' = ConnectError
  BY WifiLeaves DEF ConnectError
<1>2. PICK d \in Int, bound \in Int :
        d = ConnectError /\ d = ConnectError' /\ bound = Error /\ bound = Error'
  BY <1>1, PendingInt, WifiLeaves, SameBounds, AreNumbers
<1>3. Within(d, bound)
  BY <1>2 DEF ConnectWithin
<1>4. Within(d, bound)'
  BY <1>3, WifiWithin
<1> QED
  BY <1>2, <1>4 DEF ConnectWithin, Within, Turns

LEMMA StartStep ==
    ASSUME TypeInv, AgeInv, TypeInv', [Next]_vars, StartWithin
    PROVE  StartWithin'
<1>1. CASE CheckStep
  BY <1>1, ErrorStep
<1>2. CASE WifiStep \/ UNCHANGED vars
  <2>1. PICK d \in Int : d = StartError /\ d = StartError'
    BY <1>2, PendingInt, WifiLeaves
  <2>2. Error' = Error /\ Blur' = Blur
    BY <1>2, WifiLeaves, SameBounds
  <2>3. PICK bound \in Int : bound = Error + Blur /\ bound = (Error + Blur)'
    BY <2>2, AreNumbers
  <2>4. Within(d, bound)
    BY <2>1, <2>3 DEF StartWithin
  <2>5. Within(d, bound)'
    BY <1>2, <2>4, WifiWithin
  <2> QED
    BY <2>1, <2>3, <2>5 DEF StartWithin, Within, Turns
<1> QED
  BY <1>1, <1>2 DEF Next, CheckStep, WifiStep

LEMMA ConnectCheckStep ==
    ASSUME TypeInv, AgeInv, TypeInv', CheckStep, ConnectInv
    PROVE  ConnectInv'
<1>1. wifi' = wifi /\ since' = since
  BY DEF CheckStep, Tick, Leap, Wake, ReadClock, Swap, ShiftStart, ShiftConnect, history
<1>2. synced' = synced /\ (Leap => synced)
  BY DEF CheckStep, Tick, Leap, Wake, ReadClock, Swap, ShiftStart, ShiftConnect
<1>3. ConnectWithin => ConnectWithin'
  BY ErrorStep
<1>4. ASSUME Quiet PROVE Quiet'
  <2>1. ~Leap /\ \A t \in Tasks : ~ShiftStart(t) /\ ~ShiftConnect(t)
    BY <1>2, <1>4 DEF Quiet, ShiftStart, ShiftConnect, Checking
  <2>2. offset' = offset /\ ~synced' /\ since' # -1 /\ wifi'.now = offset' + since'
    BY <1>1, <1>2, <1>4, <2>1 DEF Quiet, CheckStep, Tick, Wake, ReadClock, Swap, clocks
  <2>3. CASE Tick
    BY <2>2, <2>3, <1>4 DEF Tick, Quiet, Checking, Swapping, history
  <2>4. CASE Wake
    BY <2>2, <2>4, <1>4 DEF Wake, Quiet, Checking, Swapping, TypeInv, At, Tasks, history
  <2>5. ASSUME NEW t \in Tasks, ReadClock(t) PROVE Quiet'
    <3>1. seen' = seen
      BY <2>5 DEF ReadClock
    <3>2. \A u \in Tasks : /\ check'[u] = IF u = t THEN At("swap", Clock, 0) ELSE check[u]
                           /\ read'[u] = IF u = t THEN offset ELSE read[u]
      BY <2>5 DEF ReadClock, TypeInv
    <3>3. \A u \in Tasks : ~Checking(u)'
      BY <3>2, <1>4 DEF Quiet, Checking, At
    <3>4. \A u \in Tasks : Swapping(u)' => read'[u] = offset
      BY <3>2, <1>4 DEF Quiet, Swapping, At
    <3> QED
      BY <2>2, <3>1, <3>3, <3>4, <1>4 DEF Quiet
  <2>6. ASSUME NEW t \in Tasks, Swap(t) PROVE Quiet'
    <3>1. seen' = offset /\ read[t] = seen /\ read' = read
      BY <2>6, <1>4 DEF Swap, Quiet, Swapping
    <3>2. ~Detected(check[t].now - last_time)
      BY <2>6, <3>1, SwapSame
    <3>3. \A u \in Tasks : check'[u] = IF u = t THEN Rest ELSE check[u]
      BY <2>6, <3>2 DEF Swap, TypeInv
    <3>4. \A u \in Tasks : ~Checking(u)' /\ (Swapping(u)' => read'[u] = offset)
      BY <3>1, <3>3, <1>4 DEF Quiet, Checking, Swapping, Rest, At
    <3> QED
      BY <2>2, <3>1, <3>4 DEF Quiet
  <2> QED
    BY <2>1, <2>3, <2>4, <2>5, <2>6 DEF CheckStep
<1> QED
  BY <1>1, <1>2, <1>3, <1>4 DEF ConnectInv

LEMMA ConnectWifiStep ==
    ASSUME TypeInv, AgeInv, TypeInv', WifiStep, ConnectInv
    PROVE  ConnectInv'
<1>1. CASE Connect
  <2>1. /\ wifi' = At("connect", Clock, 0) /\ since' = elapsed /\ synced' = synced /\ ~synced
        /\ seen' = seen /\ offset' = offset /\ check' = check /\ seen = offset
    BY <1>1 DEF Connect, ConnectInv, clocks
  <2>3. \A t \in Tasks : ~Checking(t)' /\ ~Swapping(t)'
    BY <1>1, <2>1 DEF Connect, Checking, Swapping
  <2>4. wifi'.now = offset' + since' /\ since' # -1
    BY <2>1, Numbers DEF At, Clock, TypeInv
  <2>5. Quiet'
    BY <2>1, <2>3, <2>4 DEF Quiet
  <2> QED
    BY <2>1, <2>5 DEF ConnectInv, At
<1>2. CASE NoteConnect
  <2>1. Quiet
    BY <1>2 DEF NoteConnect, ConnectInv
  <2>2. /\ wifi' = At("sync", 0, 0) /\ last_connect_time' = offset + since /\ since' = since
        /\ UNCHANGED <<offset, leaps, met, seen, read, check>>
    BY <1>2, <2>1 DEF NoteConnect, Quiet, clocks, history
  <2>3. ConnectPending' = 0
    BY <2>1, <2>2 DEF Quiet, Checking, ConnectPending, AllPending, Pending, Tasks
  <2>4. ~Stale' /\ seen' = offset'
    BY <2>1, <2>2 DEF Quiet, Stale, Swapping, Tasks
  <2>5. ConnectError' = 0
    <3>1. ConnectError' = last_connect_time' + ConnectPending' - seen' - since'
      BY DEF ConnectError
    <3>2. offset \in Int /\ since \in Int
      BY Numbers DEF TypeInv
    <3> QED
      BY <2>1, <2>2, <2>3, <3>1, <3>2 DEF Quiet
  <2>6. 0 \in -Error' .. Error'
    BY <2>2, AreNumbers, SameBounds
  <2>7. ConnectWithin'
    BY <2>4, <2>5, <2>6 DEF ConnectWithin, Within
  <2> QED
    BY <2>1, <2>2, <2>7 DEF ConnectInv, Quiet, At
<1>3. CASE StartSync
  <2>1. /\ since' = since /\ last_connect_time' = last_connect_time /\ since # -1
        /\ wifi.pc = "sync" /\ wifi' = Rest
    BY <1>3 DEF StartSync, history, ConnectInv
  <2>2. ConnectWithin => ConnectWithin'
    BY <2>1, ConnectLeft
  <2> QED
    BY <2>1, <2>2 DEF ConnectInv, Rest, At
<1>4. CASE Disconnect
  BY <1>4 DEF Disconnect, ConnectInv, At
<1>5. CASE ReadDisconnect \/ NoteDisconnect \/ Cumulate
  BY <1>5 DEF ReadDisconnect, NoteDisconnect, Cumulate, ConnectInv, At, history
<1>6. CASE StopSync
  BY <1>6 DEF StopSync, ConnectInv, Rest, At, history
<1> QED
  BY <1>1, <1>2, <1>3, <1>4, <1>5, <1>6 DEF WifiStep

LEMMA ConnectStutter ==
    ASSUME TypeInv, UNCHANGED vars, ConnectInv
    PROVE  ConnectInv'
<1>1. UNCHANGED <<wifi, synced, since, last_connect_time, offset, check, read, seen>>
  BY DEF vars, history, clocks
<1>2. ConnectWithin => ConnectWithin'
  BY <1>1, ConnectLeft
<1>3. Quiet => Quiet'
  BY <1>1 DEF Quiet, Checking, Swapping
<1> QED
  BY <1>1, <1>2, <1>3 DEF ConnectInv

-----------------------------------------------------------------------------
(* Theorems. *)

LEMMA InitIInv == Init => IInv
<1> SUFFICES ASSUME Init PROVE IInv
  OBVIOUS
<1> USE Numbers
<1>1. offset \in Offsets /\ offset \in Nat /\ last_time = offset /\ seen = offset /\ LastSecond = 0
  BY DEF Init, LastSecond
<1>2. system_start - offset \in -Blur .. Blur /\ system_start \in Int
  <2>1. CASE Detected(offset)
    BY <1>1, <2>1, BlurNat DEF Init
  <2>2. CASE ~Detected(offset)
    <3>1. offset <= TRIGGER /\ system_start = 0
      BY <1>1, <2>2 DEF Init, Detected, Abs
    <3>2. CASE Far
      <4>1. offset = 0
        BY <1>1, <3>1, <3>2 DEF Init, Far, Abs
      <4> QED
        BY <3>1, <4>1, BlurNat
    <3>3. CASE ~Far
      BY <1>1, <3>1, <3>3 DEF Blur
    <3> QED
      BY <3>2, <3>3
  <2> QED
    BY <2>1, <2>2
<1>3. \A t \in Tasks : check[t] = Rest /\ ~Swapping(t)
  BY DEF Init, Swapping, Rest, At
<1>4. TypeInv
  <2>1. check \in [Tasks -> [pc : Places, now : Int, delta : Int]]
    BY DEF Init, Rest, At, Tasks, Places
  <2>2. wifi \in [pc : WifiPlaces, now : Int, delta : Int]
    BY DEF Init, Rest, At, WifiPlaces
  <2>3. /\ elapsed \in 0 .. MaxTime /\ leaps \in 0 .. MaxLeaps /\ checked \in 0 .. MaxTime
        /\ since \in -1 .. MaxTime /\ met \subseteq Offsets /\ {0, offset, seen} \subseteq met
    BY DEF Init
  <2>4. last_connect_time \in Int /\ cumulated_uptime \in Int
    BY <1>2 DEF Init
  <2>6. synced \in BOOLEAN
    BY DEF Init
  <2>7. read \in [Tasks -> met]
    BY DEF Init
  <2> QED
    BY <1>1, <1>2, <1>3, <2>1, <2>2, <2>3, <2>4, <2>6, <2>7 DEF TypeInv
<1>5. AgeInv
  BY <1>1, <1>3 DEF Init, AgeInv, Tasks
<1>6. StartError = system_start - offset
  <2>1. StartPending = 0
    BY <1>3 DEF StartPending, AllPending, Pending, Rest, At, Tasks
  <2> QED
    BY <1>1, <1>2, <2>1 DEF StartError
<1>7. Error = 0
  <2>1. \A m \in Nat : 3 * (1 + m) * 0 = 0
    OBVIOUS
  <2> QED
    BY <2>1, BlurNat DEF Init, Error
<1>8. StartWithin
  <2>1. ~Stale
    BY <1>3 DEF Stale, Tasks
  <2>2. StartError \in -(Error + Blur) .. Error + Blur
    BY <1>2, <1>6, <1>7, BlurNat
  <2> QED
    BY <1>1, <2>1, <2>2 DEF StartWithin, Within
<1>9. ConnectInv
  BY DEF Init, ConnectInv, Rest, At
<1> QED
  BY <1>4, <1>5, <1>8, <1>9 DEF IInv

LEMMA Invariant == Spec => []IInv
<1>1. IInv /\ [Next]_vars => IInv'
  <2> SUFFICES ASSUME IInv, [Next]_vars PROVE IInv'
    OBVIOUS
  <2>1. TypeInv' /\ AgeInv'
    BY TypeStep, AgeStep DEF IInv
  <2>2. StartWithin'
    BY <2>1, StartStep DEF IInv
  <2>3. ConnectInv'
    BY <2>1, ConnectCheckStep, ConnectWifiStep, ConnectStutter DEF IInv, Next, CheckStep, WifiStep
  <2> QED
    BY <2>1, <2>2, <2>3 DEF IInv
<1> QED
  BY InitIInv, <1>1, PTL DEF Spec

\* However many leaps there are and however far, whatever the tasks read before and
\* correct after them: once nothing is being corrected, the system uptime is the time
\* since boot but for three seconds per leap, and for what a check misses, no more
\* than the trigger, each time that it takes a leap for none.
THEOREM UptimeExact == Spec => []UptimeBounded
<1>1. IInv => UptimeBounded
  <2> SUFFICES ASSUME IInv, Settled PROVE Abs(elapsed - get_system_uptime) <= Error + Blur
    BY DEF UptimeBounded
  <2>1. seen = offset
    BY DEF Settled
  <2>2. StartPending = 0
    BY DEF Settled, Checking, StartPending, AllPending, Pending, Tasks
  <2>3. PICK d \in Int, bound \in Nat : d = StartError /\ bound = Error + Blur
    BY PendingInt, AreNumbers DEF IInv
  <2>4. d \in -bound .. bound
    <3>1. Within(d, bound)
      BY <2>3 DEF IInv, StartWithin
    <3> QED
      BY <3>1, WithinBounds DEF IInv
  <2>5. elapsed \in Int /\ offset \in Int /\ system_start \in Int
    BY AreNumbers DEF IInv, TypeInv
  <2>6. d = system_start - offset
    BY <2>1, <2>2, <2>3, <2>5 DEF StartError
  <2>7. elapsed - get_system_uptime = d
    BY <2>5, <2>6 DEF get_system_uptime, Clock
  <2> QED
    BY <2>3, <2>4, <2>7 DEF Abs
<1> QED
  BY <1>1, Invariant, PTL

\* Nor does a leap leave more than that in the time of the connection in progress,
\* though its start is corrected in a section of its own, after that of the boot.
THEOREM ConnectionExact == Spec => []ConnectionBounded
<1>1. IInv => ConnectionBounded
  <2> SUFFICES ASSUME IInv, Settled, wifi.pc = "idle", since # -1
               PROVE  Abs((elapsed - since) - (Clock - last_connect_time)) <= Error
    BY DEF ConnectionBounded
  <2>1. seen = offset
    BY DEF Settled
  <2>2. ConnectPending = 0
    BY DEF Settled, Checking, ConnectPending, AllPending, Pending, Tasks
  <2>3. PICK d \in Int, bound \in Nat : d = ConnectError /\ bound = Error
    BY PendingInt, AreNumbers DEF IInv
  <2>4. d \in -bound .. bound
    <3>1. Within(d, bound)
      BY <2>3 DEF IInv, ConnectInv, ConnectWithin
    <3> QED
      BY <3>1, WithinBounds DEF IInv
  <2>5. elapsed \in Int /\ offset \in Int /\ last_connect_time \in Int /\ since \in Int
    BY AreNumbers, Numbers DEF IInv, TypeInv
  <2>6. d = last_connect_time - offset - since
    BY <2>1, <2>2, <2>3, <2>5 DEF ConnectError
  <2>7. (elapsed - since) - (Clock - last_connect_time) = d
    BY <2>5, <2>6 DEF Clock
  <2> QED
    BY <2>3, <2>4, <2>7 DEF Abs
<1> QED
  BY <1>1, Invariant, PTL

-----------------------------------------------------------------------------
(* What the boot time may be. *)

\* A difference of two offsets, but for two seconds.
Gains == {b - a + s : a, b \in Offsets, s \in -2 .. 2}

Starting(t) == check[t].pc = "start"

\* What a check has seen and not yet added is a leap, and one of two of them ended
\* at the offset of last_time.
GainInv ==
    /\ \A t \in Tasks : Starting(t) => check[t].delta \in Gains
    /\ (\A t \in Tasks : Starting(t)) =>
          \E t \in Tasks, a \in Offsets, s \in -2 .. 2 : check[t].delta = seen - a + s

\* What a check finds is a leap to the offset it read.
LEMMA SwapGains ==
    ASSUME TypeInv, AgeInv, NEW t \in Tasks, Swap(t)
    PROVE  /\ \E a \in Offsets, s \in -2 .. 2 : check[t].now - last_time = read[t] - a + s
           /\ read[t] \in Offsets
<1>1. PICK now \in Int, last \in Int, to \in Offsets, from \in Offsets :
        now = check[t].now /\ last = last_time /\ to = read[t] /\ from = seen
  BY DEF TypeInv
<1>2. PICK s \in -2 .. 2 : s = Second(t) - LastSecond
  BY SwapSeconds
<1>3. now - last = to - from + s
  BY <1>1, <1>2, Numbers DEF Second, LastSecond
<1> QED
  BY <1>1, <1>3

\* Every step keeps that.
LEMMA GainStep == TypeInv /\ AgeInv /\ GainInv /\ [Next]_vars => GainInv'
<1> SUFFICES ASSUME TypeInv, AgeInv, GainInv, [Next]_vars PROVE GainInv'
  OBVIOUS
<1>1. CASE UNCHANGED <<check, seen>>
  BY <1>1 DEF GainInv, Starting, Tasks
<1>2. CASE Tick \/ WifiStep \/ UNCHANGED vars
  <2>1. UNCHANGED <<check, seen>>
    BY <1>2, WifiLeaves DEF Tick, history
  <2> QED BY <1>1, <2>1
<1>3. CASE Leap \/ Wake \/ \E t \in Tasks : ReadClock(t)
  <2>1. seen' = seen
    BY <1>3 DEF Leap, Wake, ReadClock, history
  <2>2. \A t \in Tasks : Starting(t)' => Starting(t) /\ check'[t] = check[t]
    BY <1>3 DEF Leap, Wake, ReadClock, TypeInv, Starting, At, Tasks
  <2> QED BY <2>1, <2>2 DEF GainInv, Tasks
<1>4. CASE \E t \in Tasks : ShiftStart(t) \/ ShiftConnect(t)
  <2>1. seen' = seen
    BY <1>4 DEF ShiftStart, ShiftConnect, history
  <2>2. \A t \in Tasks : Starting(t)' => Starting(t) /\ check'[t] = check[t]
    BY <1>4 DEF ShiftStart, ShiftConnect, TypeInv, Starting, At, Rest, Tasks
  <2> QED BY <2>1, <2>2 DEF GainInv, Tasks
<1>5. ASSUME NEW t \in Tasks, Swap(t) PROVE GainInv'
  <2>1. seen' = read[t]
    BY <1>5 DEF Swap
  <2>2. PICK a \in Offsets, s \in -2 .. 2 : check[t].now - last_time = read[t] - a + s
    BY <1>5, SwapGains
  <2>3. read[t] \in Offsets
    BY <1>5, SwapGains
  <2>4. \A u \in Tasks \ {t} : check'[u] = check[u] /\ (Starting(u)' <=> Starting(u))
    BY <1>5 DEF Swap, TypeInv, Starting, Tasks
  <2>5. Starting(t)' => check'[t].delta = check[t].now - last_time
    BY <1>5 DEF Swap, TypeInv, Starting, At, Rest
  <2>6. Starting(t)' => check'[t].delta = seen' - a + s
    BY <2>1, <2>2, <2>5
  <2>7. Starting(t)' => check'[t].delta \in Gains
    BY <2>1, <2>3, <2>6 DEF Gains
  <2>8. \A u \in Tasks : Starting(u)' => check'[u].delta \in Gains
    BY <2>4, <2>7 DEF GainInv
  <2> QED BY <2>6, <2>8 DEF GainInv
<1> QED
  BY <1>2, <1>3, <1>4, <1>5 DEF Next, WifiStep

\* Three offsets and the seconds.
StartTimes ==
    {n \in Int : \E a, b, c \in Offsets : n - (a + b - c) \in -(Error + Blur + 4) .. Error + Blur + 4}

\* Three offsets and seconds within the bounds are a boot time.
LEMMA StartTimeIn ==
    ASSUME NEW a \in Offsets, NEW b \in Offsets, NEW c \in Offsets, TypeInv,
           NEW s \in Int, s <= Error + Blur + 4, -(Error + Blur + 4) <= s
    PROVE  a + b - c + s \in StartTimes
<1>1. Error \in Nat /\ Blur \in Nat
  BY AreNumbers
<1>2. s \in -(Error + Blur + 4) .. Error + Blur + 4
  BY <1>1
<1>3. a + b - c + s \in Int /\ (a + b - c + s) - (a + b - c) = s
  BY Numbers
<1> QED BY <1>2, <1>3 DEF StartTimes

\* Whatever is under way, the boot time is what the clock was set to.
LEMMA StartTime == IInv /\ GainInv => system_start \in StartTimes
<1> SUFFICES ASSUME IInv, GainInv PROVE system_start \in StartTimes
  OBVIOUS
<1>1. PICK d \in Int : d = StartError
  BY PendingInt DEF IInv
<1>2. /\ -(Error + Blur) <= d /\ d <= Error + Blur
      /\ Error \in Nat /\ Blur \in Nat /\ TypeInv
  <2>1. PICK bound \in Nat : bound = Error + Blur
    BY AreNumbers DEF IInv
  <2>2. Within(d, bound)
    BY <1>1, <2>1 DEF IInv, StartWithin
  <2> QED
    BY <2>1, <2>2, WithinBounds, AreNumbers DEF IInv
<1>3. PICK o \in Offsets : o = seen
  BY DEF IInv, TypeInv
<1>4. PICK start \in Int : start = system_start
  BY DEF IInv, TypeInv
<1>5. PICK p \in Int, q \in Int : p = Pending("leap", {"start"}) /\ q = Pending("sntp", {"start"})
  BY DEF IInv, TypeInv, Pending, Tasks
<1>6. d = start + (p + q) - o
  BY <1>1, <1>3, <1>4, <1>5 DEF StartError, StartPending, AllPending
<1>7. /\ \A x \in Offsets : x \in Int
      /\ "leap" \in Tasks /\ "sntp" \in Tasks
  BY Numbers DEF Tasks
<1>8. start = o + d - (p + q)
  BY <1>6, <1>7
<1>9. CASE ~Starting("leap") /\ ~Starting("sntp")
  <2>1. p = 0 /\ q = 0
    BY <1>5, <1>9 DEF Pending, Starting
  <2>2. start = o + o - o + d
    BY <1>7, <1>8, <2>1
  <2> QED BY <1>2, <1>4, <2>2, StartTimeIn
<1>10. ASSUME NEW t \in Tasks, NEW u \in Tasks, t # u, Starting(t), ~Starting(u)
       PROVE  system_start \in StartTimes
  <2>1. PICK a \in Offsets, b \in Offsets, s \in -2 .. 2 : check[t].delta = b - a + s
    BY <1>10 DEF GainInv, Gains
  <2>2. p + q = b - a + s
    BY <1>5, <1>7, <1>10, <2>1 DEF Pending, Starting, Tasks
  <2>3. PICK r \in Int : r = d - s
    OBVIOUS
  <2>4. start = o + a - b + r
    BY <1>7, <1>8, <2>2, <2>3
  <2>5. r <= Error + Blur + 4 /\ -(Error + Blur + 4) <= r
    BY <1>2, <2>3
  <2> QED BY <1>2, <1>4, <2>4, <2>5, StartTimeIn
<1>11. ASSUME NEW t \in Tasks, NEW u \in Tasks, t # u, Starting(t), Starting(u),
              \E a \in Offsets, s \in -2 .. 2 : check[t].delta = o - a + s
       PROVE  system_start \in StartTimes
  <2>1. PICK a \in Offsets, s \in -2 .. 2 : check[t].delta = o - a + s
    BY <1>11
  <2>2. PICK b \in Offsets, c \in Offsets, x \in -2 .. 2 : check[u].delta = c - b + x
    BY <1>11 DEF GainInv, Gains
  <2>3. p + q = (o - a + s) + (c - b + x)
    BY <1>5, <1>7, <1>11, <2>1, <2>2 DEF Pending, Starting, Tasks
  <2>4. PICK r \in Int : r = (d - s) - x
    OBVIOUS
  <2>5. start = a + b - c + r
    BY <1>7, <1>8, <2>3, <2>4
  <2>6. r <= Error + Blur + 4 /\ -(Error + Blur + 4) <= r
    BY <1>2, <2>4
  <2> QED BY <1>2, <1>4, <2>5, <2>6, StartTimeIn
<1>12. CASE Starting("leap") /\ Starting("sntp")
  <2>1. PICK t \in Tasks, a \in Offsets, s \in -2 .. 2 : check[t].delta = o - a + s
    BY <1>3, <1>12 DEF GainInv, Tasks
  <2>2. PICK u \in Tasks : u # t
    BY DEF Tasks
  <2>3. Starting(t) /\ Starting(u)
    BY <1>12 DEF Tasks
  <2> QED BY <1>11, <2>1, <2>2, <2>3
<1> QED
  BY <1>7, <1>9, <1>10, <1>12

\* At first nothing is under way.
LEMMA InitGainInv == Init => GainInv
BY DEF Init, GainInv, Starting, Rest, At, Tasks

\* Every variable keeps its type, however many leaps there are: the boot time, which
\* two tasks correct at once, is never farther off than what they still have to add.
THEOREM TypeCorrect == Spec => []TypeOK
<1>1. IInv /\ GainInv => TypeOK
  <2> SUFFICES ASSUME IInv, GainInv PROVE TypeOK
    OBVIOUS
  <2>1. last_time \in Readings
    <3>1. PICK second \in 0 .. MaxTime, o \in Offsets, last \in Int :
            second = LastSecond /\ o = seen /\ last = last_time
      BY DEF IInv, TypeInv
    <3>2. last = second + o
      BY <3>1, Numbers DEF LastSecond
    <3> QED
      BY <3>1, <3>2 DEF Readings
  <2>2. system_start \in StartTimes /\ TypeInv
    BY StartTime DEF IInv
  <2> QED
    BY <2>1, <2>2 DEF TypeInv, TypeOK, StartTimes, Places, WifiPlaces
<1>2. IInv /\ GainInv /\ [Next]_vars => GainInv'
  BY GainStep DEF IInv
<1> QED
  BY InitGainInv, Invariant, <1>1, <1>2, PTL DEF Spec
=============================================================================

------------------------------- MODULE Uptime -------------------------------
(***************************************************************************)
(* The clock corrections of src/main/uptime.c.  The clock starts anywhere  *)
(* (it survives a software reset) and leaps when SNTP sets it; two tasks   *)
(* detect leaps, the leap task every second and the SNTP callback at once, *)
(* and shift the times kept by what the clock leapt.  The WiFi callbacks   *)
(* measure connections with the same clock, in the WiFi manager's task.    *)
(*                                                                         *)
(* Every critical section is one step, every clock reading another.  The   *)
(* first check of the leap task is part of Init: the task starts before    *)
(* the WiFi manager does (main.c:86, 109).                                 *)
(***************************************************************************)
EXTENDS Integers

CONSTANTS
    TRIGGER,    \* UPTIME_LEAP_TRIGGER_SECONDS
    Offsets,    \* what the clock may differ by from the time since boot
    MaxTime,    \* bound on the seconds since boot
    MaxLeaps    \* bound on the number of leaps

Tasks == {"leap", "sntp"}

VARIABLES
    elapsed, offset,    \* seconds since boot, and what the clock adds to them
    leaps,              \* number of leaps
    met,                \* history: the offsets so far, and that of a clock not set
    system_start,
    last_time,
    last_connect_time,
    cumulated_uptime,
    check,              \* uptime_sync_check, for each task: where it is,
                        \* its now and its delta
    wifi,               \* the callback of the WiFi task: where it is, its now
    synced,             \* SNTP is running
    checked,            \* history: when the leap task last checked
    read, seen,         \* history: the offsets that the now of each task, and
                        \* last_time, were read with
    since               \* history: when the connection started, or -1

clocks == <<elapsed, offset, leaps, met>>
history == <<checked, read, seen, since>>
vars == <<clocks, system_start, last_time, last_connect_time, cumulated_uptime,
          check, wifi, synced, history>>

Abs(n) == IF n < 0 THEN -n ELSE n

ASSUME UptimeAssumption ==
    /\ TRIGGER \in Nat /\ TRIGGER > 1
    /\ MaxTime \in Nat /\ MaxLeaps \in Nat
    /\ Offsets \subseteq Nat /\ 0 \in Offsets

Clock == elapsed + offset

At(pc, now, delta) == [pc |-> pc, now |-> now, delta |-> delta]
Rest == At("idle", 0, 0)

Readings == {e + o : e \in 0 .. MaxTime, o \in Offsets}

\* The offsets met so far are far enough apart for every check to see a leap between
\* two of them, though two seconds passed.
Far == \A a, b \in met : a # b => Abs(a - b) > TRIGGER + 2

\* What a check that takes a leap for none leaves.
Blur == IF Far THEN 0 ELSE TRIGGER

\* What the corrections may leave: a leap is seen with the seconds that passed
\* since the check before, or without those since the clock was read, and back and
\* forth again by a check that read the clock before it: three seconds at most, and
\* what each of the three misses.
Error == 3 * (1 + Blur) * leaps

\* The types.  last_time is something the clock read; the boot time is what the clock
\* was set to when the chip started, or what a check that came late makes of it before
\* another takes that away again, but for the seconds of the corrections made and of
\* the two under way.
TypeOK ==
    /\ elapsed \in 0 .. MaxTime
    /\ offset \in Offsets
    /\ leaps \in 0 .. MaxLeaps
    /\ met \subseteq Offsets
    /\ \E a, b, c \in Offsets : system_start - (a + b - c) \in -(Error + Blur + 4) .. Error + Blur + 4
    /\ last_time \in Readings
    /\ last_connect_time \in Int /\ cumulated_uptime \in Int
    /\ check \in [Tasks -> [pc : {"idle", "read", "swap", "start", "connect"}, now : Int, delta : Int]]
    /\ wifi \in [pc : {"idle", "connect", "look", "read", "swap", "add", "sync", "unsync"}, now : Int, delta : Int]
    /\ synced \in BOOLEAN
    /\ checked \in 0 .. MaxTime
    /\ read \in [Tasks -> Offsets] /\ seen \in Offsets
    /\ since \in -1 .. MaxTime

\* Mutant: a clock set back is not seen.
DetectedForward(delta) == delta > TRIGGER

Detected(delta) == Abs(delta) > TRIGGER

\* The boot, and the first check of the leap task.
Init ==
    /\ elapsed = 0
    /\ offset \in Offsets
    /\ leaps = 0
    /\ met = {0, offset}
    /\ last_time = offset
    /\ system_start = IF Detected(offset) THEN offset ELSE 0
    /\ last_connect_time = system_start
    /\ cumulated_uptime = 0
    /\ check = [t \in Tasks |-> Rest]
    /\ wifi = Rest
    /\ synced = FALSE
    /\ checked = 0
    /\ read = [t \in Tasks |-> 0] /\ seen = offset
    /\ since = -1

Checking(t) == check[t].pc \in {"start", "connect"}

\* No correction is under way and the last one saw the clock as it is now.
Settled == seen = offset /\ ~\E t \in Tasks : Checking(t)

-----------------------------------------------------------------------------
(* The world. *)

\* A second passes; the leap task checks in each, and the SNTP callback takes
\* its turn within one.
Tick ==
    /\ elapsed < MaxTime
    /\ elapsed = checked
    /\ check["sntp"].pc = "swap" => check["sntp"].now = Clock
    /\ elapsed' = elapsed + 1
    /\ UNCHANGED <<offset, leaps, met, system_start, last_time, last_connect_time, cumulated_uptime,
                   check, wifi, synced, history>>

\* SNTP sets the clock, and its callback is about to run.
Leap ==
    /\ synced
    /\ check["sntp"].pc = "idle"
    /\ leaps < MaxLeaps
    /\ offset' \in Offsets \ {offset}
    /\ leaps' = leaps + 1
    /\ met' = met \cup {offset'}
    /\ check' = [check EXCEPT !["sntp"] = At("read", 0, 0)]
    /\ UNCHANGED <<elapsed, system_start, last_time, last_connect_time, cumulated_uptime,
                   wifi, synced, history>>

-----------------------------------------------------------------------------
(* uptime_sync_check, in the leap task and in the SNTP callback. *)

Wake ==
    /\ check["leap"].pc = "idle"
    /\ check' = [check EXCEPT !["leap"] = At("read", 0, 0)]
    /\ UNCHANGED <<clocks, system_start, last_time, last_connect_time, cumulated_uptime,
                   wifi, synced, history>>

ReadClock(t) ==
    /\ check[t].pc = "read"
    /\ check' = [check EXCEPT ![t] = At("swap", Clock, 0)]
    /\ read' = [read EXCEPT ![t] = offset]
    /\ UNCHANGED <<clocks, system_start, last_time, last_connect_time, cumulated_uptime,
                   wifi, synced, checked, seen, since>>

\* Mutant: a leap is seen again by every check.
SwapForgets(t) ==
    /\ check[t].pc = "swap"
    /\ LET delta == check[t].now - last_time
       IN  check' = [check EXCEPT ![t] = IF Detected(delta) THEN At("start", 0, delta) ELSE Rest]
    /\ checked' = IF t = "leap" THEN elapsed ELSE checked
    /\ UNCHANGED <<clocks, system_start, last_time, last_connect_time, cumulated_uptime,
                   wifi, synced, read, seen, since>>

\* The section of last_time: what the clock gained since the last check.
Swap(t) ==
    /\ check[t].pc = "swap"
    /\ LET delta == check[t].now - last_time
       IN  check' = [check EXCEPT ![t] = IF Detected(delta) THEN At("start", 0, delta) ELSE Rest]
    /\ last_time' = check[t].now
    /\ seen' = read[t]
    /\ checked' = IF t = "leap" THEN elapsed ELSE checked
    /\ UNCHANGED <<clocks, system_start, last_connect_time, cumulated_uptime, wifi, synced, read, since>>

\* The section of system_start...
ShiftStart(t) ==
    /\ check[t].pc = "start"
    /\ system_start' = system_start + check[t].delta
    /\ check' = [check EXCEPT ![t] = At("connect", 0, check[t].delta)]
    /\ UNCHANGED <<clocks, last_time, last_connect_time, cumulated_uptime, wifi, synced, history>>

\* Mutant: only the boot time is shifted.
ShiftConnectNever(t) ==
    /\ check[t].pc = "connect"
    /\ check' = [check EXCEPT ![t] = Rest]
    /\ UNCHANGED <<clocks, system_start, last_time, last_connect_time, cumulated_uptime, wifi, synced, history>>

\* ...and that of last_connect_time, connected or not.
ShiftConnect(t) ==
    /\ check[t].pc = "connect"
    /\ last_connect_time' = last_connect_time + check[t].delta
    /\ check' = [check EXCEPT ![t] = Rest]
    /\ UNCHANGED <<clocks, system_start, last_time, cumulated_uptime, wifi, synced, history>>

-----------------------------------------------------------------------------
(* The callbacks of the WiFi manager. *)

\* GOT_IP: uptime_track_wifi_success reads the clock.  Getting an address takes
\* longer than a check: the checks begun before the attempt are over...
Connect ==
    /\ wifi.pc = "idle"
    /\ seen = offset /\ \A t \in Tasks : check[t].pc \in {"idle", "read"}
    /\ since = -1
    /\ wifi' = At("connect", Clock, 0)
    /\ since' = elapsed
    /\ UNCHANGED <<clocks, system_start, last_time, last_connect_time, cumulated_uptime,
                   check, synced, checked, read, seen>>

\* ...notes it...
NoteConnect ==
    /\ wifi.pc = "connect"
    /\ last_connect_time' = wifi.now
    /\ wifi' = At("sync", 0, 0)
    /\ UNCHANGED <<clocks, system_start, last_time, cumulated_uptime, check, synced, history>>

\* ...and SNTP is started.
StartSync ==
    /\ wifi.pc = "sync"
    /\ synced' = TRUE
    /\ wifi' = Rest
    /\ UNCHANGED <<clocks, system_start, last_time, last_connect_time, cumulated_uptime, check, history>>

\* STA_DISCONNECTED, which also follows an attempt that fails:
\* uptime_track_wifi_disconnect looks whether there was a connection...
Disconnect ==
    /\ wifi.pc = "idle"
    /\ wifi' = At(IF last_connect_time = 0 THEN "unsync" ELSE "read", 0, 0)
    /\ since' = -1
    /\ UNCHANGED <<clocks, system_start, last_time, last_connect_time, cumulated_uptime,
                   check, synced, checked, read, seen>>

\* ...reads the clock...
ReadDisconnect ==
    /\ wifi.pc = "read"
    /\ wifi' = At("swap", Clock, 0)
    /\ UNCHANGED <<clocks, system_start, last_time, last_connect_time, cumulated_uptime,
                   check, synced, history>>

\* ...takes the time of the connection...
NoteDisconnect ==
    /\ wifi.pc = "swap"
    /\ wifi' = At("add", 0, wifi.now - last_connect_time)
    /\ last_connect_time' = 0
    /\ UNCHANGED <<clocks, system_start, last_time, cumulated_uptime, check, synced, history>>

\* ...adds it up...
Cumulate ==
    /\ wifi.pc = "add"
    /\ cumulated_uptime' = cumulated_uptime + wifi.delta
    /\ wifi' = At("unsync", 0, 0)
    /\ UNCHANGED <<clocks, system_start, last_time, last_connect_time, check, synced, history>>

\* ...and SNTP is stopped.
StopSync ==
    /\ wifi.pc = "unsync"
    /\ synced' = FALSE
    /\ wifi' = Rest
    /\ UNCHANGED <<clocks, system_start, last_time, last_connect_time, cumulated_uptime, check, history>>

Next ==
    \/ Tick \/ Leap \/ Wake
    \/ \E t \in Tasks : ReadClock(t) \/ Swap(t) \/ ShiftStart(t) \/ ShiftConnect(t)
    \/ Connect \/ NoteConnect \/ StartSync
    \/ Disconnect \/ ReadDisconnect \/ NoteDisconnect \/ Cumulate \/ StopSync

Spec == Init /\ [][Next]_vars

-----------------------------------------------------------------------------
(* Properties. *)

get_system_uptime == Clock - system_start

\* Whatever the order in which the two tasks read the clock and correct the boot
\* time, no part of a leap is left in the system uptime: once settled, it is
\* the time since boot but for three seconds per leap.  A leap that a check may take
\* for none, within the trigger and the two seconds passed, may leave what such a
\* check misses, each time it is crossed, and so may the clock the chip started with
\* (uptime.c:45-75, 110-115).
UptimeBounded == Settled => Abs(elapsed - get_system_uptime) <= Error + Blur

\* Nor is any left in that of the connection in progress, which a callback
\* starts while checks are under way (uptime.c:60-66, 136-150, api_mgmt.c:71-73).
ConnectionBounded ==
    Settled /\ wifi.pc = "idle" /\ since # -1 => Abs((elapsed - since) - (Clock - last_connect_time)) <= Error
=============================================================================

------------------------------ MODULE Keepalive ------------------------------
(***************************************************************************)
(* The timing of the watchdog keepalive                                    *)
(* (src/src/devices/common/watchdog_keepalive.cpp): from the arming at the *)
(* end of start-up (src/src/core/runtime_state.cpp) the keepalive thread   *)
(* queries each armed device every quarter of its timeout, until the       *)
(* runtime first calls it or kKeepaliveCap has passed.                     *)
(*                                                                         *)
(* Time is a counter of ticks.  A bus operation takes up to OpTime ticks,  *)
(* retries included, and blocks the thread with Keepalive::mutex_ held; its *)
(* frame reaches the device at its start, at its end, or never.  The thread *)
(* wakes on time.  The firmware watchdog is external: it trips when no     *)
(* valid frame has come for its timeout.                                   *)
(***************************************************************************)
EXTENDS Integers, FiniteSets

CONSTANTS Devices,        \* with a configured and supported watchdog
          Timeout,        \* command_watchdog_ms of each, in ticks
          OpTime,         \* the longest bus operation
          kKeepaliveCap,  \* how long the thread waits for the runtime
          MaxLost,        \* bound: feeds of a device lost in a row
          MaxTime         \* bound: the clock

ASSUME KeepaliveAssumption ==
    /\ IsFiniteSet(Devices)
    /\ Timeout \in [Devices -> Nat \ {0}]
    /\ {OpTime, kKeepaliveCap, MaxLost, MaxTime} \subseteq Nat

VARIABLES
    now,        \* the clock
    pc,         \* where the thread is (the main thread while it arms)
    rest,       \* devices this loop has still to visit
    cur, since, \* the operation on the bus: its device, its start
    sent,       \* its frame has reached the device
    tickAt,     \* tick_locked's now
    wake,       \* when the thread wakes
    armedAt,    \* armed_at_
    due,        \* Fed::next_due
    done,       \* Fed::done
    capped,     \* capped_
    armed,      \* external: devices with the watchdog running
    seen,       \* external: when each last saw a valid frame
    lost,       \* history: feeds lost since
    tripped     \* external: devices that tripped

thread == <<pc, rest, cur, since, sent, tickAt, wake>>
fed    == <<armedAt, due, done, capped>>
device == <<armed, seen, lost, tripped>>
vars   == <<now, thread, fed, device>>

\* Mutant: every tick extends the cap.
Deadline_Extended == tickAt + kKeepaliveCap

\* deadline_.
Deadline == armedAt + kKeepaliveCap

\* Mutant: half the timeout.
interval_Half(d) == IF Timeout[d] \div 2 > 1 THEN Timeout[d] \div 2 ELSE 1

\* Fed::interval.
interval(d) == IF Timeout[d] \div 4 > 1 THEN Timeout[d] \div 4 ELSE 1

Init ==
    /\ now = 0
    /\ pc = "arm" /\ rest = Devices
    /\ cur \in Devices /\ since = 0 /\ sent = FALSE /\ tickAt = 0 /\ wake = 0
    /\ armedAt = 0 /\ due = [d \in Devices |-> 0] /\ done = {} /\ capped = FALSE
    /\ armed = {} /\ tripped = {}
    /\ seen = [d \in Devices |-> 0] /\ lost = [d \in Devices |-> 0]

-----------------------------------------------------------------------------
(* A bus operation on device d, from the loop at pc. *)

\* external: a valid frame reaches d; SET_WATCHDOG arms it.
Deliver(d, arms) ==
    /\ seen' = [seen EXCEPT ![d] = now]
    /\ lost' = [lost EXCEPT ![d] = 0]
    /\ armed' = IF arms THEN armed \cup {d} ELSE armed
    /\ UNCHANGED tripped

StartOp(d, to) ==
    /\ pc' = to /\ cur' = d /\ since' = now
    /\ \/ sent' = TRUE /\ Deliver(d, to = "arming")
       \/ sent' = FALSE /\ UNCHANGED device
    /\ UNCHANGED <<now, rest, tickAt, wake>>

EndOp(to) ==
    /\ pc' = to /\ rest' = rest \ {cur}
    /\ UNCHANGED <<now, cur, since, sent, tickAt, wake>>

-----------------------------------------------------------------------------
(* Start-up arms the devices one after the other, then makes the keepalive. *)

Arm(d) ==
    /\ pc = "arm" /\ d \in rest
    /\ StartOp(d, "arming")
    /\ UNCHANGED fed

\* A failure to arm is logged; the keepalive feeds the device all the same.
Armed ==
    /\ pc = "arming"
    /\ EndOp("arm")
    /\ UNCHANGED device \/ (~sent /\ Deliver(cur, TRUE))
    /\ UNCHANGED fed

\* The constructor and start().
Construct ==
    /\ pc = "arm" /\ rest = {}
    /\ armedAt' = now
    /\ due' = [d \in Devices |-> now + interval(d)]
    /\ pc' = "wait" /\ wake' = now
    /\ UNCHANGED <<now, rest, cur, since, sent, tickAt, done, capped, device>>

-----------------------------------------------------------------------------
(* The thread: run and tick_locked. *)

\* run wakes: the tick ends the feeding, or visits the devices not yet
\* contacted.
Tick ==
    /\ pc = "wait" /\ now >= wake
    /\ \/ /\ now >= Deadline
          /\ capped' = TRUE /\ pc' = "stopped"
          /\ UNCHANGED <<rest, tickAt>>
       \/ /\ now < Deadline
          /\ pc' = "tick" /\ tickAt' = now /\ rest' = Devices \ done
          /\ UNCHANGED capped
    /\ UNCHANGED <<now, cur, since, sent, wake, armedAt, due, done, device>>

Skip(d) ==
    /\ pc = "tick" /\ d \in rest
    /\ due[d] > tickAt
    /\ rest' = rest \ {d}
    /\ UNCHANGED <<now, pc, cur, since, sent, tickAt, wake, fed, device>>

Feed(d) ==
    /\ pc = "tick" /\ d \in rest
    /\ due[d] <= tickAt
    /\ StartOp(d, "feeding")
    /\ UNCHANGED fed

\* Counted from the start of the tick, not from the end of the query.
NextDue(d) == tickAt + interval(d)

\* The query has returned, with a reply or without.
Fed ==
    /\ pc = "feeding"
    /\ EndOp("tick")
    /\ due' = [due EXCEPT ![cur] = NextDue(cur)]
    /\ \/ sent /\ UNCHANGED device
       \/ ~sent /\ Deliver(cur, FALSE)
       \/ /\ ~sent /\ lost[cur] < MaxLost
          /\ lost' = [lost EXCEPT ![cur] = @ + 1]
          /\ UNCHANGED <<armed, seen, tripped>>
    /\ UNCHANGED <<armedAt, done, capped>>

EarliestDue == CHOOSE t \in {due[d] : d \in Devices \ done} :
                  \A d \in Devices \ done : t <= due[d]

\* Mutant: the thread sleeps past the cap.
NextWake_NoCap == EarliestDue

NextWake == IF EarliestDue < Deadline THEN EarliestDue ELSE Deadline

\* The tick returns when the next device is due, or nothing.
EndTick ==
    /\ pc = "tick" /\ rest = {}
    /\ \/ /\ done = Devices
          /\ pc' = "stopped" /\ UNCHANGED wake
       \/ /\ done # Devices
          /\ pc' = "wait"
          /\ wake' = NextWake
    /\ UNCHANGED <<now, rest, cur, since, sent, tickAt, fed, device>>

-----------------------------------------------------------------------------
(* The handler, the clock and the firmware. *)

\* Mutant: the keepalive's mutex is not taken.
contacted_NoLock(d) ==
    /\ pc \notin {"arm", "arming"} /\ d \notin done
    /\ done' = done \cup {d}
    /\ UNCHANGED <<now, thread, armedAt, due, capped, device>>

\* note_contact, before the first Read or Call of d; it waits for the mutex.
contacted(d) ==
    /\ pc \in {"wait", "stopped"} /\ d \notin done
    /\ done' = done \cup {d}
    /\ UNCHANGED <<now, thread, armedAt, due, capped, device>>

\* external: time passes while the thread waits or an operation runs, and the
\* devices trip by themselves.  A contacted device is the runtime's to feed.
Clock ==
    /\ now < MaxTime
    /\ now' = now + 1
    /\ \/ pc \in {"arming", "feeding"} /\ now < since + OpTime
       \/ pc = "wait" /\ now < wake
       \/ pc = "stopped"
    /\ tripped' = tripped \cup
                  {d \in armed \ done : now' - seen[d] >= Timeout[d]}
    /\ UNCHANGED <<thread, fed, armed, seen, lost>>

Next == \/ \E d \in Devices : Arm(d) \/ Skip(d) \/ Feed(d) \/ contacted(d)
        \/ Armed \/ Construct \/ Tick \/ Fed \/ EndTick
        \/ Clock

Spec == Init /\ [][Next]_vars

-----------------------------------------------------------------------------
(* Properties *)

TypeOK ==
    /\ now \in 0..MaxTime
    /\ pc \in {"arm", "arming", "wait", "tick", "feeding", "stopped"}
    /\ rest \subseteq Devices /\ cur \in Devices /\ sent \in BOOLEAN
    /\ {since, tickAt, wake, armedAt} \subseteq Nat
    /\ pc = "wait" => wake <= Deadline
    /\ due \in [Devices -> Nat] /\ done \subseteq Devices /\ capped \in BOOLEAN
    /\ armed \subseteq Devices /\ tripped \subseteq armed
    /\ seen \in [Devices -> 0..MaxTime]
    /\ lost \in [Devices -> 0..MaxLost]

\* The timeout covers MaxLost lost feeds, each of which costs an interval and a
\* round of operations on the other boards, and three more rounds: the arming,
\* the tick under way when the board is due, and the tick that feeds it.
Margin ==
    \A d \in Devices :
        /\ 4 <= Timeout[d]
        /\ (MaxLost + 1) * (Timeout[d] \div 4)
              + (MaxLost + 3) * (Cardinality(Devices) * OpTime) < Timeout[d]

\* Between arming and the cap no board trips for want of a call from the
\* runtime (#190): not while the other boards are armed, not while another
\* board's query holds the bus, and not when feeds are lost (given Margin).
FedUntilCap == ~capped => tripped = {}

\* Every board fed in the tick before the cap has seen its last frame by then.
LastFrame == armedAt + kKeepaliveCap + Cardinality(Devices) * OpTime

\* A runtime that never starts calling still lets the boards trip: a board it
\* has not called trips within its timeout of the last tick before the cap.
TripsAfterCap ==
    \A d \in armed \ done :
        pc \notin {"arm", "arming"} /\ now > LastFrame + Timeout[d] => d \in tripped

\* Feeding stops at a device's first contact: no later tick queries it.
NoFeedOnceContacted == pc = "feeding" => cur \notin done

-----------------------------------------------------------------------------
(* The inductive invariant behind the safety properties above. *)

\* The time the operations of a loop over the devices of S may still take, and
\* that of a whole loop.
Left(S) == Cardinality(S) * OpTime
Round   == Left(Devices)

\* The loops take a round each: the arming, which starts at 0, and every tick.
RoundInv ==
    /\ pc = "arm" => now + Left(rest) <= Round
    /\ pc = "arming" => since + Left(rest) <= Round
    /\ pc = "tick" => tickAt <= now /\ now + Left(rest) <= tickAt + Round
    /\ pc = "feeding" => tickAt <= since /\ since + Left(rest) <= tickAt + Round
    /\ pc \in {"arming", "feeding"} => cur \in rest /\ since <= now
                                                   /\ now <= since + OpTime

\* Nothing is contacted or capped before there is a keepalive; a tick visits what
\* is not contacted, and starts before the cap.
LoopInv ==
    /\ pc \in {"arm", "arming"} => done = {} /\ ~capped
    /\ pc \in {"tick", "feeding"} => rest \cap done = {} /\ tickAt < Deadline
    /\ pc = "stopped" => capped \/ done = Devices

\* No tick is later than a round after a device's due time; once visited, a
\* device is due after the tick.
DueInv ==
    /\ pc = "wait" => \A d \in Devices \ done : wake <= due[d] /\ now <= due[d] + Round
    /\ pc \in {"tick", "feeding"} =>
           \A d \in Devices \ done : /\ tickAt <= due[d] + Round
                                     /\ d \notin rest => tickAt < due[d]

\* How long after its last frame a device with n feeds lost may be due.
Late(n, d) == (n + 1) * (interval(d) + Round)

LateInv ==
    /\ pc \notin {"arm", "arming"} =>
           \A d \in Devices : due[d] <= seen[d] + Late(lost[d], d)
    /\ pc = "feeding" /\ sent => tickAt <= seen[cur]

\* No device hears anything after the last tick before the cap.
SeenInv ==
    /\ \A d \in Devices : seen[d] <= now
    /\ pc \notin {"arm", "arming"} => \A d \in Devices : seen[d] <= LastFrame

\* A silent device trips.
TripInv == \A d \in armed \ done : now - seen[d] >= Timeout[d] => d \in tripped

Inv == TypeOK /\ RoundInv /\ LoopInv /\ DueInv /\ LateInv /\ SeenInv /\ TripInv
=============================================================================

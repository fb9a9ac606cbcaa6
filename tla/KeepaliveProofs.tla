--------------------------- MODULE KeepaliveProofs ---------------------------
(***************************************************************************)
(* Proofs about Keepalive, for any finite set of devices, any timeouts,    *)
(* any longest bus operation and any number of lost feeds.                 *)
(***************************************************************************)
EXTENDS Keepalive, FiniteSetTheorems, WellFoundedInduction, TLAPS

-----------------------------------------------------------------------------
(* Time: rounds, intervals and due times. *)

LEMMA Constants ==
  /\ OpTime \in Nat /\ kKeepaliveCap \in Nat /\ MaxLost \in Nat /\ MaxTime \in Nat
  /\ \A d \in Devices : Timeout[d] \in Nat /\ Timeout[d] >= 1
BY KeepaliveAssumption DEF KeepaliveAssumption

\* A loop's remaining time is that of the devices it has still to visit.
LEMMA LeftFacts ==
  ASSUME NEW S \in SUBSET Devices
  PROVE  /\ Left(S) \in Nat /\ Round \in Nat /\ Left(S) <= Round
         /\ \A d \in S : Left(S \ {d}) = Left(S) - OpTime
         /\ Left({}) = 0
<1>1. OpTime \in Nat
  BY Constants
<1>2. /\ IsFiniteSet(Devices) /\ IsFiniteSet(S) /\ Cardinality(S) \in Nat
      /\ Cardinality(Devices) \in Nat /\ Cardinality(S) <= Cardinality(Devices)
  BY KeepaliveAssumption, FS_Subset, FS_CardinalityType DEF KeepaliveAssumption
<1>3. \A m, n \in Nat : m * OpTime \in Nat /\ (m <= n => m * OpTime <= n * OpTime)
  BY <1>1
<1>4. /\ Left(S) \in Nat /\ Round \in Nat /\ Left(S) <= Round
  BY <1>2, <1>3 DEF Left, Round
<1>5. ASSUME NEW d \in S PROVE Left(S \ {d}) = Left(S) - OpTime
  <2>1. Cardinality(S \ {d}) = Cardinality(S) - 1
    BY <1>2, FS_RemoveElement
  <2> QED BY <1>1, <1>2, <2>1 DEF Left
<1>6. Left({}) = 0
  BY <1>1, FS_EmptySet DEF Left
<1> QED BY <1>4, <1>5, <1>6

LEMMA IntervalFacts ==
  ASSUME NEW d \in Devices
  PROVE  /\ interval(d) \in Nat /\ interval(d) >= 1
         /\ Timeout[d] >= 4 => interval(d) = Timeout[d] \div 4
BY Constants DEF interval

\* Every lost feed makes a device later by an interval and a round.
LEMMA LateFacts ==
  ASSUME NEW d \in Devices, NEW n \in Nat
  PROVE  /\ Late(n, d) \in Nat /\ interval(d) + Round <= Late(n, d)
         /\ Late(n + 1, d) = Late(n, d) + interval(d) + Round
         /\ \A m \in Nat : n <= m => Late(n, d) <= Late(m, d)
<1> DEFINE c == interval(d) + Round
<1>1. interval(d) \in Nat /\ Round \in Nat /\ c \in Nat
  BY IntervalFacts, LeftFacts
<1>2. \A k, m \in Nat : (k + 1) * c \in Nat /\ (k <= m => (k + 1) * c <= (m + 1) * c)
  <2> HIDE DEF c
  <2> QED BY <1>1
<1>3. c <= (n + 1) * c /\ (n + 1 + 1) * c = (n + 1) * c + c
  <2> HIDE DEF c
  <2> QED BY <1>1
<1> QED BY <1>1, <1>2, <1>3 DEF Late

\* A set of naturals has a least element.
LEMMA LeastNat ==
  ASSUME NEW S \in SUBSET Nat, S # {}
  PROVE  \E x \in S : \A y \in S : x <= y
<1> DEFINE R == OpToRel(<, Nat)
<1>1. PICK x \in S : \A y \in S : ~(<<y, x>> \in R)
  BY NatLessThanWellFounded, WFMin
<1>2. \A y \in S : <<y, x>> \in R <=> y < x
  BY DEF OpToRel
<1>3. \A y \in S : ~(y < x)
  <2> HIDE DEF R
  <2> QED BY <1>1, <1>2
<1> QED BY <1>3

\* The thread sleeps at most until the first device is due, and until the cap.
LEMMA WakeFacts ==
  ASSUME TypeOK, done # Devices
  PROVE  /\ NextWake \in Nat /\ NextWake <= Deadline
         /\ \A d \in Devices \ done : NextWake <= due[d]
<1> DEFINE S == {due[d] : d \in Devices \ done}
<1>1. S \subseteq Nat /\ S # {}
  <2>1. \A d \in Devices \ done : due[d] \in Nat
    BY DEF TypeOK
  <2>2. PICK d : d \in Devices \ done
    BY DEF TypeOK
  <2> QED BY <2>1, <2>2
<1>2. \E t \in S : \A d \in Devices \ done : t <= due[d]
  <2>1. PICK t \in S : \A u \in S : t <= u
    <3> HIDE DEF S
    <3> QED BY <1>1, LeastNat
  <2>2. \A d \in Devices \ done : due[d] \in S
    OBVIOUS
  <2> QED BY <2>1, <2>2
<1>3. EarliestDue \in S /\ \A d \in Devices \ done : EarliestDue <= due[d]
  BY <1>2 DEF EarliestDue
<1>4. Deadline \in Nat
  BY Constants DEF TypeOK, Deadline
<1>5. \A d \in Devices \ done : due[d] \in Nat
  BY DEF TypeOK
<1> QED BY <1>1, <1>3, <1>4, <1>5 DEF NextWake

-----------------------------------------------------------------------------
(* One lemma per action. *)

LEMMA Types ==
  ASSUME TypeOK
  PROVE  /\ now \in Nat /\ now <= MaxTime /\ since \in Nat /\ tickAt \in Nat
         /\ wake \in Nat /\ armedAt \in Nat /\ Deadline \in Nat /\ LastFrame \in Nat
         /\ LastFrame = Deadline + Round /\ Deadline = armedAt + kKeepaliveCap
         /\ \A d \in Devices : due[d] \in Nat /\ seen[d] \in Nat /\ lost[d] \in Nat
<1>1. /\ now \in Nat /\ now <= MaxTime /\ since \in Nat /\ tickAt \in Nat
      /\ wake \in Nat /\ armedAt \in Nat
      /\ \A d \in Devices : due[d] \in Nat /\ seen[d] \in Nat /\ lost[d] \in Nat
  BY Constants DEF TypeOK
<1>2. Cardinality(Devices) * OpTime \in Nat /\ Round = Cardinality(Devices) * OpTime
  BY LeftFacts DEF Round, Left
<1> QED BY <1>1, <1>2, Constants DEF Deadline, LastFrame

\* A valid frame reaches d, or none does.
LEMMA DeviceStep ==
  ASSUME Inv, NEW d \in Devices, NEW arms \in BOOLEAN,
         Deliver(d, arms) \/ UNCHANGED device, UNCHANGED <<now, done>>
  PROVE  /\ armed' \subseteq Devices /\ tripped' \subseteq armed'
         /\ seen' \in [Devices -> 0..MaxTime] /\ lost' \in [Devices -> 0..MaxLost]
         /\ \A e \in Devices : \/ seen'[e] = seen[e] /\ lost'[e] = lost[e]
                               \/ e = d /\ seen'[e] = now /\ lost'[e] = 0
         /\ \A e \in Devices : seen'[e] <= now /\ seen[e] <= seen'[e]
         /\ TripInv' /\ tripped' = tripped
<1> USE DEF Inv
<1>1. /\ armed' \subseteq Devices /\ tripped' \subseteq armed' /\ tripped' = tripped
      /\ armed' \subseteq armed \cup {d}
  BY DEF Deliver, device, TypeOK
<1>2. seen' \in [Devices -> 0..MaxTime]
  BY DEF Deliver, device, TypeOK
<1>3. lost' \in [Devices -> 0..MaxLost]
  BY Constants DEF Deliver, device, TypeOK
<1>4. \A e \in Devices : \/ seen'[e] = seen[e] /\ lost'[e] = lost[e]
                         \/ e = d /\ seen'[e] = now /\ lost'[e] = 0
  <2>1. CASE Deliver(d, arms)
    <3>1. /\ seen' = [seen EXCEPT ![d] = now] /\ lost' = [lost EXCEPT ![d] = 0]
          /\ DOMAIN seen = Devices /\ DOMAIN lost = Devices
      BY <2>1 DEF Deliver, TypeOK
    <3> QED BY <3>1
  <2>2. CASE UNCHANGED device
    BY <2>2 DEF device
  <2> QED BY <2>1, <2>2
<1>5. \A e \in Devices : seen'[e] <= now /\ seen[e] <= seen'[e]
  BY <1>4, Types DEF SeenInv
<1>6. TripInv'
  <2> SUFFICES ASSUME NEW e \in armed' \ done', now' - seen'[e] >= Timeout[e]
               PROVE  e \in tripped'
    BY DEF TripInv
  <2>1. e \in Devices /\ Timeout[e] \in Nat /\ Timeout[e] >= 1
    BY <1>1, Constants
  <2>2. seen'[e] # now
    BY <2>1, Types
  <2>3. UNCHANGED device \/ e \in armed
    BY <1>1, <1>4, <2>1, <2>2 DEF Deliver, TypeOK
  <2>4. e \in armed /\ seen'[e] = seen[e]
    BY <1>4, <2>1, <2>2, <2>3 DEF device
  <2> QED BY <1>1, <2>4 DEF TripInv
<1> QED BY <1>1, <1>2, <1>3, <1>4, <1>5, <1>6

LEMMA InitInv == Init => Inv
<1> SUFFICES ASSUME Init PROVE Inv
  OBVIOUS
<1> USE DEF Init
<1>1. TypeOK
  <2>1. 0 \in 0..MaxTime /\ 0 \in 0..MaxLost /\ 0 \in Nat
    BY Constants
  <2> QED BY <2>1 DEF TypeOK
<1>2. RoundInv
  BY LeftFacts DEF RoundInv, Round
<1>3. LoopInv /\ DueInv /\ LateInv /\ TripInv
  BY DEF LoopInv, DueInv, LateInv, TripInv
<1>4. SeenInv
  BY DEF SeenInv
<1> QED BY <1>1, <1>2, <1>3, <1>4 DEF Inv

LEMMA ArmKeepsInv == ASSUME Inv, NEW d \in Devices, Arm(d) PROVE Inv'
<1> USE DEF Inv
<1>1. /\ pc = "arm" /\ pc' = "arming" /\ d \in rest /\ cur' = d /\ since' = now
      /\ sent' \in BOOLEAN
      /\ UNCHANGED <<now, rest, tickAt, wake, armedAt, due, done, capped>>
      /\ Deliver(d, TRUE) \/ UNCHANGED device
  BY DEF Arm, StartOp, fed
<1>2. /\ armed' \subseteq Devices /\ tripped' \subseteq armed'
      /\ seen' \in [Devices -> 0..MaxTime] /\ lost' \in [Devices -> 0..MaxLost]
      /\ \A e \in Devices : seen'[e] <= now
      /\ TripInv'
  BY <1>1, DeviceStep
<1>3. TypeOK'
  BY <1>1, <1>2, Types DEF TypeOK
<1>4. RoundInv'
  BY <1>1, Types, Constants DEF RoundInv, Round, Left
<1>5. LoopInv' /\ DueInv' /\ LateInv'
  BY <1>1 DEF LoopInv, DueInv, LateInv
<1>6. SeenInv'
  BY <1>1, <1>2 DEF SeenInv
<1> QED BY <1>2, <1>3, <1>4, <1>5, <1>6

LEMMA ArmedKeepsInv == ASSUME Inv, Armed PROVE Inv'
<1> USE DEF Inv
<1>1. /\ pc = "arming" /\ pc' = "arm" /\ rest' = rest \ {cur}
      /\ UNCHANGED <<now, cur, since, sent, tickAt, wake, armedAt, due, done, capped>>
      /\ Deliver(cur, TRUE) \/ UNCHANGED device
  BY DEF Armed, EndOp, fed
<1>2. /\ armed' \subseteq Devices /\ tripped' \subseteq armed'
      /\ seen' \in [Devices -> 0..MaxTime] /\ lost' \in [Devices -> 0..MaxLost]
      /\ \A e \in Devices : seen'[e] <= now
      /\ TripInv'
  BY <1>1, DeviceStep DEF TypeOK
<1>3. TypeOK'
  BY <1>1, <1>2 DEF TypeOK
<1>4. RoundInv'
  <2>1. Left(rest') = Left(rest) - OpTime /\ Left(rest) \in Nat /\ Round \in Nat
    BY <1>1, LeftFacts DEF RoundInv, TypeOK
  <2>2. now + Left(rest') <= Round
    BY <1>1, <2>1, Types, Constants DEF RoundInv
  <2> QED BY <1>1, <2>2 DEF RoundInv, Round, Left
<1>5. LoopInv' /\ DueInv' /\ LateInv'
  BY <1>1 DEF LoopInv, DueInv, LateInv
<1>6. SeenInv'
  BY <1>1, <1>2 DEF SeenInv
<1> QED BY <1>2, <1>3, <1>4, <1>5, <1>6

\* The devices are due an interval after the arming, which has taken a round.
LEMMA ConstructKeepsInv == ASSUME Inv, Construct PROVE Inv'
<1> USE DEF Inv
<1>1. /\ pc = "arm" /\ rest = {} /\ armedAt' = now /\ pc' = "wait" /\ wake' = now
      /\ due' = [d \in Devices |-> now + interval(d)]
      /\ UNCHANGED <<now, rest, cur, since, sent, tickAt, done, capped, armed, seen,
                     lost, tripped>>
  BY DEF Construct, device
<1>2. /\ now \in Nat /\ Round \in Nat /\ kKeepaliveCap \in Nat
      /\ \A d \in Devices : /\ due'[d] = now + interval(d)
                            /\ interval(d) \in Nat /\ interval(d) >= 1
                            /\ seen[d] \in Nat /\ lost[d] \in Nat
  BY <1>1, Types, LeftFacts, IntervalFacts, Constants
<1>3. now <= Round
  BY <1>1, <1>2, LeftFacts DEF RoundInv
<1>4. Deadline' = now + kKeepaliveCap /\ LastFrame' = now + kKeepaliveCap + Round
  BY <1>1 DEF Deadline, LastFrame, Round, Left
<1>5. TypeOK'
  <2>1. due' \in [Devices -> Nat]
    BY <1>1, <1>2
  <2>2. wake' <= Deadline'
    BY <1>1, <1>2, <1>4
  <2> QED BY <1>1, <1>2, <2>1, <2>2 DEF TypeOK
<1>6. RoundInv' /\ LoopInv'
  BY <1>1 DEF RoundInv, LoopInv
<1>7. DueInv'
  <2>1. \A d \in Devices : now <= due'[d] /\ now <= due'[d] + Round
    BY <1>2
  <2> QED BY <1>1, <2>1 DEF DueInv, Round, Left
<1>8. LateInv'
  <2>1. ASSUME NEW d \in Devices PROVE due'[d] <= seen[d] + Late(lost[d], d)
    <3>1. Late(lost[d], d) \in Nat /\ interval(d) + Round <= Late(lost[d], d)
      BY <1>2, LateFacts
    <3> QED BY <1>2, <1>3, <3>1
  <2> QED BY <1>1, <2>1 DEF LateInv, Late, interval, Round, Left
<1>9. SeenInv'
  <2>1. \A d \in Devices : seen[d] <= now
    BY DEF SeenInv
  <2>2. \A d \in Devices : seen[d] <= LastFrame'
    BY <1>2, <1>4, <2>1
  <2> QED BY <1>1, <2>1, <2>2 DEF SeenInv
<1>10. TripInv'
  BY <1>1 DEF TripInv
<1> QED BY <1>5, <1>6, <1>7, <1>8, <1>9, <1>10

LEMMA TickKeepsInv == ASSUME Inv, Tick PROVE Inv'
<1> USE DEF Inv
<1>1. /\ pc = "wait" /\ UNCHANGED <<now, cur, since, sent, wake, armedAt, due, done,
                                    armed, seen, lost, tripped>>
  BY DEF Tick, device
<1>2. Deadline' = Deadline /\ LastFrame' = LastFrame /\ Round' = Round
  BY <1>1 DEF Deadline, LastFrame, Round, Left
<1>3. CASE capped' = TRUE /\ pc' = "stopped" /\ UNCHANGED <<rest, tickAt>>
  <2>1. TypeOK'
    BY <1>1, <1>2, <1>3 DEF TypeOK
  <2>2. RoundInv' /\ LoopInv' /\ DueInv' /\ LateInv' /\ SeenInv' /\ TripInv'
    BY <1>1, <1>2, <1>3 DEF RoundInv, LoopInv, DueInv, LateInv, SeenInv, TripInv, Late,
                            interval
  <2> QED BY <2>1, <2>2
<1>4. CASE /\ now < Deadline /\ pc' = "tick" /\ tickAt' = now
           /\ rest' = Devices \ done /\ UNCHANGED capped
  <2>1. TypeOK'
    BY <1>1, <1>2, <1>4, Types DEF TypeOK
  <2>2. RoundInv'
    <3>1. Left(rest') <= Round /\ Left(rest') \in Nat /\ Round \in Nat
      BY <1>4, LeftFacts
    <3>2. now <= now /\ now + Left(rest') <= now + Round
      BY <3>1, Types
    <3> QED BY <1>1, <1>2, <1>4, <3>2 DEF RoundInv, Left
  <2>3. LoopInv'
    BY <1>1, <1>2, <1>4 DEF LoopInv
  <2>4. DueInv' /\ LateInv' /\ SeenInv' /\ TripInv'
    BY <1>1, <1>2, <1>4 DEF DueInv, LateInv, SeenInv, TripInv, Late, interval
  <2> QED BY <2>1, <2>2, <2>3, <2>4
<1> QED BY <1>3, <1>4 DEF Tick

LEMMA SkipKeepsInv == ASSUME Inv, NEW d \in Devices, Skip(d) PROVE Inv'
<1> USE DEF Inv
<1>1. /\ pc = "tick" /\ d \in rest /\ due[d] > tickAt /\ rest' = rest \ {d}
      /\ UNCHANGED <<now, pc, cur, since, sent, tickAt, wake, armedAt, due, done, capped,
                     armed, seen, lost, tripped>>
  BY DEF Skip, fed, device
<1>2. Deadline' = Deadline /\ LastFrame' = LastFrame /\ Round' = Round
  BY <1>1 DEF Deadline, LastFrame, Round, Left
<1>3. TypeOK'
  BY <1>1, <1>2 DEF TypeOK
<1>4. RoundInv'
  <2>1. Left(rest') = Left(rest) - OpTime /\ Left(rest) \in Nat /\ Round \in Nat
    BY <1>1, LeftFacts DEF TypeOK
  <2>2. now + Left(rest') <= tickAt + Round
    BY <1>1, <2>1, Types, Constants DEF RoundInv
  <2> QED BY <1>1, <1>2, <2>2 DEF RoundInv, Left
<1>5. LoopInv'
  BY <1>1, <1>2 DEF LoopInv
<1>6. DueInv'
  <2>1. tickAt < due[d]
    BY <1>1, Types
  <2> QED BY <1>1, <1>2, <2>1 DEF DueInv
<1>7. LateInv' /\ SeenInv' /\ TripInv'
  BY <1>1, <1>2 DEF LateInv, SeenInv, TripInv, Late, interval
<1> QED BY <1>3, <1>4, <1>5, <1>6, <1>7

\* A frame at the start of a feed comes after the device was due.
LEMMA FeedKeepsInv == ASSUME Inv, NEW d \in Devices, Feed(d) PROVE Inv'
<1> USE DEF Inv
<1>1. /\ pc = "tick" /\ pc' = "feeding" /\ d \in rest /\ cur' = d /\ since' = now
      /\ due[d] <= tickAt /\ sent' \in BOOLEAN
      /\ UNCHANGED <<now, rest, tickAt, wake, armedAt, due, done, capped>>
      /\ \/ sent' = TRUE /\ Deliver(d, FALSE)
         \/ sent' = FALSE /\ UNCHANGED device
  BY DEF Feed, StartOp, fed
<1>2. /\ armed' \subseteq Devices /\ tripped' \subseteq armed'
      /\ seen' \in [Devices -> 0..MaxTime] /\ lost' \in [Devices -> 0..MaxLost]
      /\ \A e \in Devices : seen'[e] <= now
      /\ \A e \in Devices : \/ seen'[e] = seen[e] /\ lost'[e] = lost[e]
                            \/ e = d /\ seen'[e] = now /\ lost'[e] = 0
      /\ TripInv'
  BY <1>1, DeviceStep
<1>3. Deadline' = Deadline /\ LastFrame' = LastFrame /\ Round' = Round
  BY <1>1 DEF Deadline, LastFrame, Round, Left
<1>4. TypeOK'
  BY <1>1, <1>2, <1>3, Types DEF TypeOK
<1>5. tickAt <= now /\ now + Left(rest) <= tickAt + Round
  BY <1>1 DEF RoundInv
<1>6. RoundInv'
  <2>1. now <= now + OpTime /\ now <= now
    BY Types, Constants
  <2> QED BY <1>1, <1>3, <1>5, <2>1 DEF RoundInv, Left
<1>7. LoopInv' /\ DueInv'
  BY <1>1, <1>3 DEF LoopInv, DueInv
<1>8. LateInv'
  <2>1. ASSUME NEW e \in Devices PROVE due[e] <= seen'[e] + Late(lost'[e], e)
    <3>1. CASE seen'[e] = seen[e] /\ lost'[e] = lost[e]
      BY <1>1, <3>1 DEF LateInv
    <3>2. CASE e = d /\ seen'[e] = now /\ lost'[e] = 0
      <4>1. Late(0, d) \in Nat
        BY LateFacts
      <4> QED BY <1>1, <1>5, <3>2, <4>1, Types
    <3> QED BY <1>2, <3>1, <3>2
  <2>2. sent' => seen'[d] = now
    BY <1>1 DEF Deliver, TypeOK
  <2> QED BY <1>1, <1>3, <1>5, <2>1, <2>2 DEF LateInv, Late, interval
<1>9. SeenInv'
  <2>1. Left(rest) \in Nat /\ Round \in Nat
    BY LeftFacts DEF TypeOK
  <2>2. tickAt < Deadline
    BY <1>1 DEF LoopInv
  <2>3. now <= LastFrame
    BY <1>5, <2>1, <2>2, Types
  <2>4. \A e \in Devices : seen'[e] <= LastFrame
    BY <1>1, <1>2, <2>3 DEF SeenInv
  <2> QED BY <1>1, <1>2, <1>3, <2>4 DEF SeenInv
<1> QED BY <1>2, <1>4, <1>6, <1>7, <1>8, <1>9

\* A lost feed makes the device later by an interval and a round: the tick was at
\* most a round after its due time.
LEMMA FedKeepsInv == ASSUME Inv, Fed PROVE Inv'
<1> USE DEF Inv
<1>1. /\ pc = "feeding" /\ pc' = "tick" /\ rest' = rest \ {cur} /\ cur \in rest
      /\ UNCHANGED <<now, cur, since, sent, tickAt, wake, armedAt, done, capped>>
      /\ due' = [due EXCEPT ![cur] = tickAt + interval(cur)]
      /\ cur \in Devices /\ cur \notin done
  BY DEF Fed, EndOp, NextDue, RoundInv, LoopInv, TypeOK
<1>2. /\ Left(rest') = Left(rest) - OpTime /\ Left(rest) \in Nat /\ Left(rest') \in Nat
      /\ Round \in Nat
  BY <1>1, LeftFacts DEF TypeOK
<1>3. /\ tickAt <= now /\ now + Left(rest') <= tickAt + Round
  BY <1>1, <1>2, Types, Constants DEF RoundInv
<1>4. Deadline' = Deadline /\ LastFrame' = LastFrame /\ Round' = Round
  BY <1>1 DEF Deadline, LastFrame, Round, Left
<1>5. /\ interval(cur) \in Nat /\ interval(cur) >= 1
      /\ due'[cur] = tickAt + interval(cur)
      /\ \A d \in Devices : d # cur => due'[d] = due[d]
  BY <1>1, IntervalFacts DEF TypeOK
<1>6. /\ armed' \subseteq Devices /\ tripped' \subseteq armed'
      /\ seen' \in [Devices -> 0..MaxTime] /\ lost' \in [Devices -> 0..MaxLost]
      /\ \A d \in Devices : seen'[d] <= now /\ (seen'[d] = seen[d] \/ seen'[d] = now)
      /\ \A d \in Devices : d # cur => seen'[d] = seen[d] /\ lost'[d] = lost[d]
      /\ \/ tickAt <= seen'[cur]
         \/ seen'[cur] = seen[cur] /\ lost'[cur] = lost[cur] + 1
      /\ TripInv'
  <2>1. CASE sent /\ UNCHANGED device
    <3>1. tickAt <= seen'[cur]
      BY <1>1, <2>1 DEF LateInv, device
    <3> QED BY <1>1, <2>1, <3>1, DeviceStep DEF device
  <2>2. CASE Deliver(cur, FALSE)
    <3>1. seen'[cur] = now
      BY <2>2 DEF Deliver, TypeOK
    <3>2. \A d \in Devices : d # cur => seen'[d] = seen[d] /\ lost'[d] = lost[d]
      BY <1>1, <2>2, DeviceStep
    <3>3. \A d \in Devices : seen'[d] = seen[d] \/ seen'[d] = now
      BY <3>1, <3>2
    <3> QED BY <1>1, <1>3, <2>2, <3>1, <3>2, <3>3, DeviceStep
  <2>3. CASE /\ lost[cur] < MaxLost /\ lost' = [lost EXCEPT ![cur] = @ + 1]
             /\ UNCHANGED <<armed, seen, tripped>>
    <3>1. lost[cur] + 1 \in 0..MaxLost /\ DOMAIN lost = Devices
      BY <2>3, Constants DEF TypeOK
    <3>2. /\ lost' \in [Devices -> 0..MaxLost] /\ lost'[cur] = lost[cur] + 1
          /\ \A d \in Devices : d # cur => lost'[d] = lost[d]
      BY <2>3, <3>1 DEF TypeOK
    <3>3. TripInv'
      BY <1>1, <2>3 DEF TripInv
    <3> QED BY <2>3, <3>2, <3>3 DEF TypeOK, SeenInv
  <2> QED BY <2>1, <2>2, <2>3 DEF Fed
<1>7. TypeOK'
  <2>1. due' \in [Devices -> Nat]
    <3>1. tickAt + interval(cur) \in Nat
      BY <1>5, Types
    <3> QED BY <1>1, <3>1 DEF TypeOK
  <2> QED BY <1>1, <1>4, <1>6, <2>1 DEF TypeOK
<1>8. RoundInv'
  BY <1>1, <1>3, <1>4 DEF RoundInv, Left
<1>9. LoopInv'
  BY <1>1, <1>4 DEF LoopInv
<1>10. DueInv'
  <2>1. tickAt <= due'[cur] + Round /\ tickAt < due'[cur]
    BY <1>2, <1>5, Types
  <2>2. \A d \in Devices \ done : /\ tickAt <= due'[d] + Round
                                  /\ d \notin rest' => tickAt < due'[d]
    BY <1>1, <1>5, <2>1 DEF DueInv
  <2> QED BY <1>1, <1>4, <2>2 DEF DueInv
<1>11. LateInv'
  <2>1. ASSUME NEW d \in Devices PROVE due'[d] <= seen'[d] + Late(lost'[d], d)
    <3>1. CASE d # cur
      BY <1>1, <1>5, <1>6, <3>1 DEF LateInv
    <3>2. CASE d = cur /\ tickAt <= seen'[cur]
      <4>1. /\ lost'[cur] \in Nat /\ seen'[cur] \in Nat
        BY <1>1, <1>6, Constants
      <4>2. Late(lost'[cur], cur) \in Nat /\ interval(cur) + Round <= Late(lost'[cur], cur)
        BY <1>1, <4>1, LateFacts
      <4> QED BY <1>2, <1>5, <3>2, <4>1, <4>2, Types
    <3>3. CASE d = cur /\ seen'[cur] = seen[cur] /\ lost'[cur] = lost[cur] + 1
      <4>1. due[cur] <= seen[cur] + Late(lost[cur], cur)
        BY <1>1 DEF LateInv
      <4>2. tickAt <= due[cur] + Round
        BY <1>1 DEF DueInv
      <4>3. /\ Late(lost[cur], cur) \in Nat
            /\ Late(lost[cur] + 1, cur) = Late(lost[cur], cur) + interval(cur) + Round
        BY <1>1, Types, LateFacts
      <4>4. /\ seen[cur] \in Nat /\ due[cur] \in Nat /\ tickAt \in Nat
        BY <1>1, Types
      <4> QED BY <1>2, <1>5, <3>3, <4>1, <4>2, <4>3, <4>4
    <3> QED BY <1>6, <3>1, <3>2, <3>3
  <2> QED BY <1>1, <1>4, <2>1 DEF LateInv, Late, interval
<1>12. SeenInv'
  <2>1. tickAt < Deadline
    BY <1>1 DEF LoopInv
  <2>2. now <= LastFrame
    BY <1>2, <1>3, <2>1, Types
  <2>3. \A d \in Devices : seen'[d] <= LastFrame
    BY <1>1, <1>6, <2>2 DEF SeenInv
  <2> QED BY <1>1, <1>4, <1>6, <2>3 DEF SeenInv
<1> QED BY <1>6, <1>7, <1>8, <1>9, <1>10, <1>11, <1>12

LEMMA EndTickKeepsInv == ASSUME Inv, EndTick PROVE Inv'
<1> USE DEF Inv
<1>1. /\ pc = "tick" /\ rest = {}
      /\ UNCHANGED <<now, rest, cur, since, sent, tickAt, armedAt, due, done, capped,
                     armed, seen, lost, tripped>>
  BY DEF EndTick, fed, device
<1>2. Deadline' = Deadline /\ LastFrame' = LastFrame /\ Round' = Round
  BY <1>1 DEF Deadline, LastFrame, Round, Left
<1>3. CASE done = Devices /\ pc' = "stopped" /\ UNCHANGED wake
  BY <1>1, <1>2, <1>3 DEF TypeOK, RoundInv, LoopInv, DueInv, LateInv, SeenInv, TripInv,
                          Late, interval
<1>4. CASE done # Devices /\ pc' = "wait" /\ wake' = NextWake
  <2>1. /\ NextWake \in Nat /\ NextWake <= Deadline
        /\ \A d \in Devices \ done : NextWake <= due[d]
    BY <1>4, WakeFacts
  <2>2. TypeOK'
    BY <1>1, <1>2, <1>4, <2>1 DEF TypeOK
  <2>3. RoundInv' /\ LoopInv'
    BY <1>1, <1>2, <1>4 DEF RoundInv, LoopInv
  <2>4. DueInv'
    <3>1. now <= tickAt + Round /\ Round \in Nat
      BY <1>1, Types, LeftFacts DEF RoundInv
    <3>2. \A d \in Devices \ done : tickAt < due[d] /\ due[d] \in Nat
      BY <1>1, Types DEF DueInv
    <3>3. \A d \in Devices \ done : now <= due[d] + Round
      BY <3>1, <3>2, Types
    <3> QED BY <1>1, <1>2, <1>4, <2>1, <3>3 DEF DueInv
  <2>5. LateInv' /\ SeenInv' /\ TripInv'
    BY <1>1, <1>2, <1>4 DEF LateInv, SeenInv, TripInv, Late, interval
  <2> QED BY <2>2, <2>3, <2>4, <2>5
<1> QED BY <1>3, <1>4 DEF EndTick

LEMMA ContactedKeepsInv == ASSUME Inv, NEW d \in Devices, contacted(d) PROVE Inv'
<1> USE DEF Inv
<1>1. /\ pc \in {"wait", "stopped"} /\ done' = done \cup {d}
      /\ UNCHANGED <<now, pc, rest, cur, since, sent, tickAt, wake, armedAt, due, capped,
                     armed, seen, lost, tripped>>
  BY DEF contacted, thread, device
<1>2. Deadline' = Deadline /\ LastFrame' = LastFrame /\ Round' = Round
  BY <1>1 DEF Deadline, LastFrame, Round, Left
<1>3. TypeOK'
  BY <1>1, <1>2 DEF TypeOK
<1>4. RoundInv' /\ LoopInv'
  BY <1>1, <1>2 DEF RoundInv, LoopInv, TypeOK
<1>5. DueInv' /\ LateInv' /\ SeenInv' /\ TripInv'
  BY <1>1, <1>2 DEF DueInv, LateInv, SeenInv, TripInv, Late, interval
<1> QED BY <1>3, <1>4, <1>5

LEMMA ClockKeepsInv == ASSUME Inv, Clock PROVE Inv'
<1> USE DEF Inv
<1>1. /\ now < MaxTime /\ now' = now + 1
      /\ \/ pc \in {"arming", "feeding"} /\ now < since + OpTime
         \/ pc = "wait" /\ now < wake
         \/ pc = "stopped"
      /\ tripped' = tripped \cup {d \in armed \ done : now' - seen[d] >= Timeout[d]}
      /\ UNCHANGED <<pc, rest, cur, since, sent, tickAt, wake, armedAt, due, done, capped,
                     armed, seen, lost>>
  BY DEF Clock, thread, fed
<1>2. Deadline' = Deadline /\ LastFrame' = LastFrame /\ Round' = Round
  BY <1>1 DEF Deadline, LastFrame, Round, Left
<1>3. now' \in 0..MaxTime /\ now <= now'
  BY <1>1, Types, Constants
<1>4. TypeOK'
  BY <1>1, <1>2, <1>3 DEF TypeOK
<1>5. RoundInv'
  <2>1. pc \in {"arming", "feeding"} => since <= now' /\ now' <= since + OpTime
    BY <1>1, Types, Constants DEF RoundInv
  <2> QED BY <1>1, <1>2, <2>1 DEF RoundInv, Left
<1>6. LoopInv'
  BY <1>1, <1>2 DEF LoopInv
<1>7. DueInv'
  <2>1. ASSUME pc = "wait", NEW d \in Devices \ done
        PROVE  wake <= due[d] /\ now' <= due[d] + Round
    <3>1. wake <= due[d]
      BY <2>1 DEF DueInv
    <3> QED BY <1>1, <2>1, <3>1, Types, LeftFacts
  <2> QED BY <1>1, <1>2, <2>1 DEF DueInv
<1>8. LateInv'
  BY <1>1, <1>2 DEF LateInv, Late, interval
<1>9. SeenInv'
  BY <1>1, <1>2, <1>3, Types DEF SeenInv
<1>10. TripInv'
  BY <1>1 DEF TripInv
<1> QED BY <1>4, <1>5, <1>6, <1>7, <1>8, <1>9, <1>10

-----------------------------------------------------------------------------

LEMMA NextInv == Inv /\ [Next]_vars => Inv'
<1> SUFFICES ASSUME Inv, [Next]_vars PROVE Inv'
  OBVIOUS
<1>1. ASSUME NEW d \in Devices, Arm(d) \/ Skip(d) \/ Feed(d) \/ contacted(d) PROVE Inv'
  BY <1>1, ArmKeepsInv, SkipKeepsInv, FeedKeepsInv, ContactedKeepsInv
<1>2. CASE Armed \/ Construct \/ Tick \/ Fed \/ EndTick \/ Clock
  BY <1>2, ArmedKeepsInv, ConstructKeepsInv, TickKeepsInv, FedKeepsInv, EndTickKeepsInv,
     ClockKeepsInv
<1>3. CASE UNCHANGED vars
  BY <1>3 DEF vars, thread, fed, device, Inv, TypeOK, RoundInv, LoopInv, DueInv, LateInv,
              SeenInv, TripInv, Deadline, LastFrame, Late
<1> QED BY <1>1, <1>2, <1>3 DEF Next

\* Whatever the devices, their timeouts and the speed of the bus: a tick ends within
\* a round, and comes at most a round after each device's due time.
THEOREM Invariance == Spec => []Inv
BY InitInv, NextInv, PTL DEF Spec

\* Keepalive's state keeps its types, and the thread never sleeps past the cap.
THEOREM TypeCorrect == Spec => []TypeOK
<1>1. Inv => TypeOK
  BY DEF Inv
<1> QED BY Invariance, <1>1, PTL

\* watchdog_keepalive.cpp, contacted: the mutex keeps a tick and a first contact
\* apart, so that no device is fed once the runtime has called it.
THEOREM ContactCorrect == Spec => []NoFeedOnceContacted
<1>1. Inv => NoFeedOnceContacted
  BY DEF Inv, LoopInv, RoundInv, NoFeedOnceContacted
<1> QED BY Invariance, <1>1, PTL

\* watchdog_keepalive.cpp, tick_locked: after kKeepaliveCap the boards that the
\* runtime has not called trip by themselves.
THEOREM CapCorrect == Spec => []TripsAfterCap
<1>1. ASSUME Inv PROVE TripsAfterCap
  <2> SUFFICES ASSUME NEW d \in armed \ done, pc \notin {"arm", "arming"},
                      now > LastFrame + Timeout[d]
               PROVE  d \in tripped
    BY DEF TripsAfterCap
  <2>1. d \in Devices
    BY <1>1 DEF Inv, TypeOK
  <2>2. seen[d] <= LastFrame
    BY <1>1, <2>1 DEF Inv, SeenInv
  <2>3. now - seen[d] >= Timeout[d]
    BY <1>1, <2>1, <2>2, Types, Constants DEF Inv
  <2> QED BY <1>1, <2>3 DEF Inv, TripInv
<1> QED BY Invariance, <1>1, PTL

\* Until the cap no device is silent for longer than its lateness and two rounds:
\* the one that delays the tick, and the tick's own.
LEMMA SilenceBound ==
  ASSUME Inv, ~capped, NEW d \in Devices \ done
  PROVE  now <= seen[d] + Late(MaxLost, d) + Round + Round
<1> USE DEF Inv
<1>1. /\ Round \in Nat /\ Left(rest) \in Nat /\ OpTime \in Nat
      /\ pc \in {"arming", "feeding"} => OpTime <= Left(rest)
  <2>1. cur \in rest => Left(rest) - OpTime \in Nat
    BY LeftFacts DEF TypeOK
  <2> QED BY <2>1, LeftFacts, Constants DEF RoundInv, TypeOK
<1>2. /\ lost[d] \in Nat /\ lost[d] <= MaxLost /\ MaxLost \in Nat
      /\ seen[d] \in Nat /\ due[d] \in Nat
  BY Types, Constants DEF TypeOK
<1>3. Late(lost[d], d) \in Nat /\ Late(MaxLost, d) \in Nat
      /\ Late(lost[d], d) <= Late(MaxLost, d)
  BY <1>2, LateFacts
<1>4. CASE pc \in {"arm", "arming"}
  BY <1>1, <1>2, <1>3, <1>4, Types DEF RoundInv
<1>5. CASE pc \notin {"arm", "arming"}
  <2>1. due[d] <= seen[d] + Late(MaxLost, d)
    BY <1>2, <1>3, <1>5 DEF LateInv
  <2>2. now <= due[d] + Round + Round
    <3>1. CASE pc = "wait"
      BY <1>1, <1>2, <3>1, Types DEF DueInv
    <3>2. CASE pc \in {"tick", "feeding"}
      <4>1. now <= tickAt + Round
        BY <1>1, <3>2, Types DEF RoundInv
      <4>2. tickAt <= due[d] + Round
        BY <3>2 DEF DueInv
      <4> QED BY <1>1, <1>2, <4>1, <4>2, Types
    <3>3. pc # "stopped"
      BY DEF LoopInv
    <3> QED BY <1>5, <3>1, <3>2, <3>3 DEF TypeOK
  <2> QED BY <1>1, <1>2, <1>3, <2>1, <2>2, Types
<1> QED BY <1>4, <1>5

\* No device that the keepalive is to feed is silent for its timeout.
Silence == ~capped => \A d \in armed \ done : ~(now - seen[d] >= Timeout[d])

\* watchdog_keepalive.cpp, the whole of it (#190): with timeouts that cover the lost
\* feeds and the time the bus takes (Margin), no board trips before the cap.
THEOREM FedCorrect == ASSUME Margin PROVE Spec => []FedUntilCap
<1>1. ASSUME NEW d \in Devices
      PROVE  Late(MaxLost, d) + Round + Round < Timeout[d]
  <2>1. /\ MaxLost \in Nat /\ Round \in Nat /\ Timeout[d] \in Nat
        /\ Timeout[d] \div 4 \in Nat
    BY Constants, LeftFacts
  <2>2. interval(d) = Timeout[d] \div 4
    BY IntervalFacts DEF Margin
  <2>3. (MaxLost + 1) * (Timeout[d] \div 4) + (MaxLost + 3) * Round < Timeout[d]
    BY DEF Margin, Round, Left
  <2>4. \A m, i, r \in Nat :
           (m + 1) * (i + r) + r + r = (m + 1) * i + (m + 3) * r
    OBVIOUS
  <2> QED BY <2>1, <2>2, <2>3, <2>4 DEF Late
<1>2. ASSUME Inv PROVE Silence
  <2> SUFFICES ASSUME ~capped, NEW d \in armed \ done
               PROVE  ~(now - seen[d] >= Timeout[d])
    BY DEF Silence
  <2>1. d \in Devices /\ MaxLost \in Nat
    BY <1>2, Constants DEF Inv, TypeOK
  <2>2. now <= seen[d] + Late(MaxLost, d) + Round + Round
    BY <1>2, <2>1, SilenceBound
  <2>3. /\ Late(MaxLost, d) \in Nat /\ Round \in Nat /\ Timeout[d] \in Nat
    BY <2>1, LateFacts, LeftFacts, Constants
  <2>4. now \in Nat /\ seen[d] \in Nat
    BY <1>2, <2>1, Types DEF Inv
  <2> QED BY <1>1, <2>1, <2>2, <2>3, <2>4
<1>3. Init => FedUntilCap
  BY DEF Init, FedUntilCap
<1>4. ASSUME Silence', FedUntilCap, [Next]_vars PROVE FedUntilCap'
  <2>1. CASE Clock
    <3>1. /\ UNCHANGED <<seen, done, armed, capped>>
          /\ tripped' = tripped \cup {d \in armed \ done : now' - seen[d] >= Timeout[d]}
      BY <2>1 DEF Clock, fed
    <3> QED BY <1>4, <3>1 DEF FedUntilCap, Silence
  <2>2. CASE UNCHANGED tripped /\ (capped' = capped \/ capped' = TRUE)
    BY <1>4, <2>2 DEF FedUntilCap
  <2>3. Next => Clock \/ (UNCHANGED tripped /\ (capped' = capped \/ capped' = TRUE))
    BY DEF Next, Arm, Skip, Feed, contacted, Armed, Construct, Tick, Fed, EndTick, StartOp,
           EndOp, Deliver, fed, device
  <2> QED BY <1>4, <2>1, <2>2, <2>3 DEF vars, fed, device
<1> QED BY <1>2, <1>3, <1>4, Invariance, PTL DEF Spec
=============================================================================

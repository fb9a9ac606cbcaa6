------------------------- MODULE RuntimeStateProofs -------------------------
(***************************************************************************)
(* Proofs about RuntimeState, for every set of handlers and devices and    *)
(* any number of initialisations, ticks and requests.                      *)
(***************************************************************************)
EXTENDS RuntimeState, SequenceTheorems, TLAPS

-----------------------------------------------------------------------------
(* Objects and the sequences in which they are destroyed. *)

\* Objects of different kinds or generations are different.
LEMMA ObjectsDiffer ==
  /\ \A g, h : Transport(g) # Session(h) /\ Transport(g) # Keepalive(h)
                  /\ Session(g) # Keepalive(h)
  /\ \A g, h : /\ Transport(g) = Transport(h) => g = h
               /\ Session(g) = Session(h) => g = h
               /\ Keepalive(g) = Keepalive(h) => g = h
  /\ \A g \in Gens : {Transport(g), Session(g), Keepalive(g)} \subseteq Objects
BY DEF Transport, Session, Keepalive, Objects

\* What is left of a destruction after its first object.
LEMMA TailFacts ==
  ASSUME NEW s \in Seq(Objects), s # <<>>, Distinct(s), KeepFirst(s)
  PROVE  /\ Tail(s) \in Seq(Objects)
         /\ Objs(Tail(s)) = Objs(s) \ {Head(s)}
         /\ Head(s) \in Objs(s)
         /\ Distinct(Tail(s)) /\ KeepFirst(Tail(s))
<1>1. /\ Tail(s) \in Seq(Objects) /\ Len(s) \in Nat \ {0}
      /\ Len(Tail(s)) = Len(s) - 1 /\ Head(s) = s[1]
      /\ \A i \in 1..(Len(s) - 1) : Tail(s)[i] = s[i + 1]
  OBVIOUS
<1>2. Head(s) \in Objs(s)
  BY <1>1 DEF Objs
<1>3. Distinct(Tail(s))
  BY <1>1 DEF Distinct
<1>4. Objs(Tail(s)) \subseteq Objs(s) \ {Head(s)}
  BY <1>1 DEF Objs, Distinct
<1>5. ASSUME NEW x \in Objs(s), x # Head(s) PROVE x \in Objs(Tail(s))
  <2>1. PICK i \in 1..Len(s) : x = s[i]
    BY DEF Objs
  <2>2. i - 1 \in 1..Len(Tail(s)) /\ Tail(s)[i - 1] = x
    BY <1>1, <1>5, <2>1
  <2> QED BY <2>2 DEF Objs
<1>6. KeepFirst(Tail(s))
  BY <1>1 DEF KeepFirst
<1> QED BY <1>1, <1>2, <1>3, <1>4, <1>5, <1>6

LEMMA JoinOne == ASSUME NEW a, NEW b, NEW c PROVE <<a>> \o <<b, c>> = <<a, b, c>>
<1> DEFINE s == <<a>> \o <<b, c>>
           t == <<a, b, c>>
<1>1. <<a>> \in Seq({a, b, c}) /\ <<b, c>> \in Seq({a, b, c}) /\ t \in Seq({a, b, c})
  OBVIOUS
<1>2. /\ s \in Seq({a, b, c}) /\ Len(s) = 3 /\ Len(t) = 3
      /\ s[1] = t[1] /\ s[2] = t[2] /\ s[3] = t[3]
  BY <1>1
<1>3. \A i \in 1..Len(s) : s[i] = t[i]
  <2>1. \A i \in 1..3 : i = 1 \/ i = 2 \/ i = 3
    OBVIOUS
  <2> QED BY <1>2, <2>1
<1> QED BY <1>1, <1>2, <1>3, SeqEqual

LEMMA EmptyFacts ==
  /\ <<>> \in Seq(Objects) /\ Objs(<<>>) = {} /\ Distinct(<<>>) /\ KeepFirst(<<>>)
BY DEF Objs, Distinct, KeepFirst

\* The three orders of destruction of one generation.
LEMMA ThreeFacts ==
  ASSUME NEW g \in Gens, NEW s,
         \/ s = <<Keepalive(g), Transport(g), Session(g)>>
         \/ s = <<Keepalive(g), Session(g), Transport(g)>>
  PROVE  /\ s \in Seq(Objects) /\ s # <<>>
         /\ Objs(s) = Owned(g) /\ Distinct(s) /\ KeepFirst(s)
<1>1. g # 0
  BY RuntimeAssumption DEF RuntimeAssumption, Gens
<1>2. s \in Seq(Objects) /\ Len(s) = 3 /\ s # <<>>
  <2>1. Transport(g) \in Objects /\ Session(g) \in Objects /\ Keepalive(g) \in Objects
    BY ObjectsDiffer
  <2>2. CASE s = <<Keepalive(g), Transport(g), Session(g)>>
    BY <2>1, <2>2
  <2>3. CASE s = <<Keepalive(g), Session(g), Transport(g)>>
    BY <2>1, <2>3
  <2> QED BY <2>2, <2>3
<1>3. s[1] = Keepalive(g) /\ {s[2], s[3]} = {Session(g), Transport(g)}
  OBVIOUS
<1>4. Objs(s) = {s[1], s[2], s[3]}
  BY <1>2 DEF Objs
<1>5. Objs(s) = Owned(g)
  BY <1>1, <1>3, <1>4 DEF Owned
<1>6. s[1] # s[2] /\ s[1] # s[3] /\ s[2] # s[3]
  BY ObjectsDiffer
<1>7. Distinct(s)
  BY <1>2, <1>6 DEF Distinct
<1>8. KeepFirst(s)
  BY <1>1, <1>2, <1>3, <1>5, ObjectsDiffer DEF KeepFirst, Owned
<1> QED BY <1>2, <1>5, <1>7, <1>8

LEMMA TwoFacts ==
  ASSUME NEW g \in Gens, NEW s, s = <<Session(g), Transport(g)>>
  PROVE  /\ s \in Seq(Objects) /\ s # <<>>
         /\ Objs(s) = {Transport(g), Session(g)} /\ Distinct(s) /\ KeepFirst(s)
<1>2. s \in Seq(Objects) /\ Len(s) = 2 /\ s # <<>>
  BY ObjectsDiffer
<1>3. Objs(s) = {s[1], s[2]}
  BY <1>2 DEF Objs
<1>4. s[1] # s[2]
  BY ObjectsDiffer
<1>5. Distinct(s)
  BY <1>2, <1>4 DEF Distinct
<1>6. KeepFirst(s)
  BY <1>2, ObjectsDiffer DEF KeepFirst
<1> QED BY <1>2, <1>3, <1>5, <1>6

\* One destruction after another, of objects the first does not have and without
\* a keepalive.
LEMMA ConcatFacts ==
  ASSUME NEW s \in Seq(Objects), Distinct(s), KeepFirst(s),
         NEW t \in Seq(Objects), Distinct(t),
         Objs(s) \cap Objs(t) = {}, \A g \in Gens : Keepalive(g) \notin Objs(t)
  PROVE  /\ s \o t \in Seq(Objects) /\ Objs(s \o t) = Objs(s) \cup Objs(t)
         /\ Distinct(s \o t) /\ KeepFirst(s \o t)
<1>1. /\ s \o t \in Seq(Objects) /\ Len(s) \in Nat /\ Len(t) \in Nat
      /\ Len(s \o t) = Len(s) + Len(t)
      /\ \A i \in 1..Len(s) : (s \o t)[i] = s[i]
      /\ \A i \in (Len(s) + 1)..(Len(s) + Len(t)) : (s \o t)[i] = t[i - Len(s)]
  OBVIOUS
<1>2. ASSUME NEW i \in 1..Len(s \o t)
      PROVE  \/ i \in 1..Len(s) /\ (s \o t)[i] = s[i] /\ s[i] \in Objs(s)
             \/ /\ i - Len(s) \in 1..Len(t) /\ (s \o t)[i] = t[i - Len(s)]
                /\ t[i - Len(s)] \in Objs(t)
  BY <1>1 DEF Objs
<1>3. Objs(s \o t) \subseteq Objs(s) \cup Objs(t)
  BY <1>2 DEF Objs
<1>4. Objs(s) \subseteq Objs(s \o t)
  BY <1>1 DEF Objs
<1>5. ASSUME NEW x \in Objs(t) PROVE x \in Objs(s \o t)
  <2>1. PICK i \in 1..Len(t) : x = t[i]
    BY DEF Objs
  <2>2. Len(s) + i \in 1..Len(s \o t) /\ (s \o t)[Len(s) + i] = x
    BY <1>1, <2>1
  <2> QED BY <2>2 DEF Objs
<1>6. Distinct(s \o t)
  <2> SUFFICES ASSUME NEW i \in 1..Len(s \o t), NEW j \in 1..Len(s \o t),
                      (s \o t)[i] = (s \o t)[j]
               PROVE  i = j
    BY DEF Distinct
  <2>1. CASE i \in 1..Len(s) /\ j \in 1..Len(s)
    BY <1>1, <2>1 DEF Distinct
  <2>2. CASE i - Len(s) \in 1..Len(t) /\ j - Len(s) \in 1..Len(t)
    <3>1. /\ t[i - Len(s)] = (s \o t)[i] /\ t[j - Len(s)] = (s \o t)[j]
          /\ i \in Int /\ j \in Int /\ Len(s) \in Int
      BY <1>1, <2>2
    <3>2. i - Len(s) = j - Len(s)
      BY <2>2, <3>1 DEF Distinct
    <3> QED BY <3>1, <3>2
  <2> QED BY <1>2, <2>1, <2>2
<1>7. KeepFirst(s \o t)
  <2> SUFFICES ASSUME NEW i \in 1..Len(s \o t), NEW g \in Gens,
                      (s \o t)[i] = Keepalive(g)
               PROVE  i = 1 /\ Session(g) \in Objs(s) /\ Transport(g) \in Objs(s)
    BY <1>4 DEF KeepFirst
  <2>1. i \in 1..Len(s) /\ s[i] = Keepalive(g)
    BY <1>2
  <2> QED BY <2>1 DEF KeepFirst
<1> QED BY <1>1, <1>3, <1>4, <1>5, <1>6, <1>7

-----------------------------------------------------------------------------
(* What the lifecycle hands over to destruction. *)

LEMMA Numbers ==
  ASSUME TypeOK
  PROVE  /\ MaxGens \in Nat /\ gens \in Nat /\ published \in Nat
         /\ published # 0 => published \in Gens
         /\ published < gens => gens \in Gens
BY RuntimeAssumption DEF RuntimeAssumption, TypeOK, Gens

LEMMA OldFacts ==
  ASSUME TypeOK, NEW s, s = OldLocals(published) \/ s = Globals(published)
  PROVE  /\ s \in Seq(Objects) /\ Objs(s) = Owned(published)
         /\ Distinct(s) /\ KeepFirst(s)
<1>1. CASE published = 0
  BY <1>1, EmptyFacts DEF OldLocals, Globals, Owned
<1>2. CASE published # 0
  BY <1>2, Numbers, ThreeFacts DEF OldLocals, Globals
<1> QED BY <1>1, <1>2

LEMMA NewFacts ==
  ASSUME Inv, doomed = <<>>, life \in {"open", "discover", "start", "publish"}
  PROVE  /\ NewLocals(gens) \in Seq(Objects) /\ Objs(NewLocals(gens)) = New
         /\ Distinct(NewLocals(gens)) /\ KeepFirst(NewLocals(gens))
         /\ Objs(NewLocals(gens)) \cap Owned(published) = {}
         /\ life = "open" => \A g \in Gens : Keepalive(g) \notin New
<1>1. published < gens /\ gens \in Gens /\ gens # 0 /\ gens # published
  BY Numbers DEF Inv, LifeInv
<1>2. alive = Owned(published) \cup New
  BY EmptyFacts DEF Inv, OwnerInv
<1>3. Keepalive(gens) \notin Owned(published)
  BY <1>1, ObjectsDiffer DEF Owned
<1>4. New \cap Owned(published) = {}
  BY <1>1, ObjectsDiffer DEF Owned, New
<1>5. CASE life \in {"open", "discover"}
  <2>1. New = {Transport(gens), Session(gens)}
    BY <1>5 DEF New
  <2>2. Keepalive(gens) \notin alive
    BY <1>2, <1>3, <2>1, ObjectsDiffer
  <2>3. NewLocals(gens) = <<Session(gens), Transport(gens)>>
    BY <2>2 DEF NewLocals
  <2> QED BY <1>1, <1>4, <2>1, <2>3, TwoFacts, ObjectsDiffer
<1>6. CASE life \in {"start", "publish"}
  <2>1. New = Owned(gens)
    BY <1>6 DEF New
  <2>2. Keepalive(gens) \in alive
    BY <1>1, <1>2, <2>1 DEF Owned
  <2>3. NewLocals(gens) = <<Keepalive(gens), Session(gens), Transport(gens)>>
    <3>1. NewLocals(gens) = <<Keepalive(gens)>> \o <<Session(gens), Transport(gens)>>
      BY <2>2 DEF NewLocals
    <3> QED BY <3>1, JoinOne
  <2> QED BY <1>1, <1>4, <1>6, <2>1, <2>3, ThreeFacts
<1> QED BY <1>5, <1>6

-----------------------------------------------------------------------------
(* One lemma per group of actions. *)

LEMMA InitInv == Init => Inv
<1> SUFFICES ASSUME Init PROVE Inv
  OBVIOUS
<1> USE RuntimeAssumption DEF RuntimeAssumption, Init
<1>1. NoRequest \in [pc : {"idle", "snapshot", "contact", "contacting", "session",
                           "use", "bus", "record"},
                     kind : Kinds, dev : Devices, gen : 0..MaxGens, stage : 0..2]
  BY DEF NoRequest, Request, Kinds
<1>2. TypeOK
  <2>1. gens \in 0..MaxGens /\ published \in 0..gens /\ requests \in 0..MaxRequests
        /\ ticks \in [Gens -> 0..MaxTicks]
    OBVIOUS
  <2>2. doomed \in Seq(Objects)
    BY EmptyFacts
  <2>3. /\ alive \subseteq Objects /\ ready \in BOOLEAN
        /\ life \in {"idle", "open", "discover", "start", "publish", "not_ready",
                     "exited"}
        /\ gLock \in Handlers \cup {Free} /\ kLock \subseteq Gens
        /\ sLock \in [Gens -> Handlers \cup {Free, "thread"}]
        /\ thread \in [Gens -> {"none", "run", "tick", "query", "ended"}]
        /\ fed \in [Gens -> SUBSET Devices] /\ due \in [Gens -> SUBSET Devices]
        /\ stopping \subseteq Gens
    OBVIOUS
  <2> QED BY <1>1, <2>1, <2>2, <2>3 DEF TypeOK
<1>3. OwnerInv /\ LifeInv
  BY EmptyFacts DEF OwnerInv, LifeInv, Owned, New
<1>4. ThreadInv /\ RequestInv
  BY DEF ThreadInv, RequestInv, NoRequest, Request
<1> QED BY <1>2, <1>3, <1>4 DEF Inv

\* A step that leaves the objects and the lifecycle alone.
LEMMA OwnersKept ==
  ASSUME OwnerInv, LifeInv, UNCHANGED <<owned, life, doomed>>
  PROVE  OwnerInv' /\ LifeInv'
BY DEF OwnerInv, LifeInv, Owned, New, owned

\* A keepalive's thread: it starts nothing, and stops only itself.
LEMMA ThreadKeepsInv == ASSUME Inv, NEW g \in Gens, ThreadStep(g) PROVE Inv'
<1> USE RuntimeAssumption DEF RuntimeAssumption, Inv
<1>1. UNCHANGED <<owned, life, doomed, gLock, fed, stopping, req, requests>>
  BY DEF ThreadStep, Tick, Feed, FedOne, Wait
<1>2. OwnerInv' /\ LifeInv' /\ RequestInv'
  BY <1>1, OwnersKept DEF RequestInv, owned
<1>3. \E t \in {"run", "tick", "query", "ended"} :
         thread' = [thread EXCEPT ![g] = t] /\ thread[g] \in {"run", "tick", "query"}
  BY DEF ThreadStep, Tick, Feed, FedOne, Wait
<1>4. ThreadInv'
  BY <1>1, <1>3 DEF ThreadInv, TypeOK, owned
<1>5. TypeOK'
  <2>1. thread' \in [Gens -> {"none", "run", "tick", "query", "ended"}]
    BY <1>3 DEF TypeOK
  <2>2. due' \in [Gens -> SUBSET Devices]
    BY DEF ThreadStep, Tick, Feed, FedOne, Wait, TypeOK
  <2>3. ticks' \in [Gens -> 0..MaxTicks]
    <3>1. \/ ticks' = ticks
          \/ ticks' = [ticks EXCEPT ![g] = IF @ < MaxTicks THEN @ + 1 ELSE @]
      BY DEF ThreadStep, Tick, Feed, FedOne, Wait
    <3>2. ticks \in [Gens -> 0..MaxTicks] /\ MaxTicks \in Nat
      BY DEF TypeOK
    <3>3. (IF ticks[g] < MaxTicks THEN ticks[g] + 1 ELSE ticks[g]) \in 0..MaxTicks
      BY <3>2
    <3> QED BY <3>1, <3>2, <3>3
  <2>4. kLock' \subseteq Gens
    BY DEF ThreadStep, Tick, Feed, FedOne, Wait, TypeOK
  <2>5. sLock' \in [Gens -> Handlers \cup {Free, "thread"}]
    BY DEF ThreadStep, Tick, Feed, FedOne, Wait, TypeOK
  <2> QED BY <1>1, <2>1, <2>2, <2>3, <2>4, <2>5 DEF TypeOK, owned
<1> QED BY <1>2, <1>4, <1>5

\* A request uses the generation that the globals own, which stays the same until
\* it is answered.
LEMMA RequestKeepsInv == ASSUME Inv, NEW h \in Handlers, Serve(h) PROVE Inv'
<1> USE RuntimeAssumption DEF RuntimeAssumption, Inv
<1> DEFINE Q == [pc : {"idle", "snapshot", "contact", "contacting", "session", "use",
                       "bus", "record"},
                 kind : Kinds, dev : Devices, gen : 0..MaxGens, stage : 0..2]
<1>1. UNCHANGED <<owned, life, doomed, requests, thread, due, stopping, ticks, kLock>>
  BY DEF Serve, Snapshot, note_contact, contacted, GetSession, Use, Used,
         record_safe_outputs, Serving, keepvars
<1>2. OwnerInv' /\ LifeInv' /\ ThreadInv'
  BY <1>1, OwnersKept DEF ThreadInv, owned
<1>3. req[h] \in Q /\ req[h].pc # "idle" /\ life = "idle" /\ doomed = <<>>
  BY DEF Serve, Snapshot, note_contact, contacted, GetSession, Use, Used,
         record_safe_outputs, Serving, RequestInv, TypeOK
<1>4. NoRequest \in Q /\ NoRequest.pc = "idle"
  BY DEF NoRequest, Request, Kinds
<1>5. published \in 0..MaxGens
  BY DEF TypeOK
<1> DEFINE Good(r) == /\ r.pc \notin {"idle", "snapshot"} => ready
                      /\ r.pc \in {"use", "bus", "record"} => r.gen = published
           Goal == \E r \in Q : req' = [req EXCEPT ![h] = r] /\ Good(r)
           To(pc, g, n) == [req[h] EXCEPT !.pc = pc, !.gen = g, !.stage = n]
<1>6. Goal
  <2>1. req[h].pc \notin {"idle", "snapshot"} => ready
    BY DEF RequestInv
  <2>2. req[h].pc \in {"use", "bus", "record"} => req[h].gen = published
    BY DEF RequestInv
  <2>3. ASSUME Answer(h) PROVE Goal
    BY <1>4, <2>3 DEF Answer
  <2>4. ASSUME NEW pc \in {"contact", "contacting", "session", "use", "bus", "record"},
               NEW g \in 0..MaxGens, NEW n \in 0..2, ready,
               pc \in {"use", "bus", "record"} => g = published,
               req' = [req EXCEPT ![h] = To(pc, g, n)]
        PROVE  Goal
    <3>1. /\ To(pc, g, n) \in Q /\ To(pc, g, n).pc = pc /\ To(pc, g, n).gen = g
      BY <1>3
    <3> HIDE DEF To, Q
    <3> QED BY <2>4, <3>1
  <2>5. req[h].stage \in 0..2 /\ req[h].gen \in 0..MaxGens
    BY <1>3
  <2>6. ASSUME NEW pc, Goto(h, pc)
        PROVE  req' = [req EXCEPT ![h] = To(pc, req[h].gen, req[h].stage)]
    BY <1>3, <2>6 DEF Goto, TypeOK
  <2>7. ASSUME NEW pc, NEW n, req' = [req EXCEPT ![h].pc = pc, ![h].stage = n]
        PROVE  req' = [req EXCEPT ![h] = To(pc, req[h].gen, n)]
    BY <1>3, <2>7 DEF TypeOK
  <2>8. CASE Snapshot(h)
    <3>1. CASE Answer(h)
      BY <2>3, <3>1
    <3>2. CASE ready /\ Goto(h, "session")
      <4>1. req' = [req EXCEPT ![h] = To("session", req[h].gen, req[h].stage)]
        BY <2>6, <3>2
      <4> HIDE DEF To, Goal, Q
      <4> QED BY <2>4, <2>5, <3>2, <4>1
    <3>3. CASE ready /\ Goto(h, "contact")
      <4>1. req' = [req EXCEPT ![h] = To("contact", req[h].gen, req[h].stage)]
        BY <2>6, <3>3
      <4> HIDE DEF To, Goal, Q
      <4> QED BY <2>4, <2>5, <3>3, <4>1
    <3> QED BY <2>8, <3>1, <3>2, <3>3 DEF Snapshot
  <2>9. CASE note_contact(h)
    <3>1. req' = [req EXCEPT ![h] = To("contacting", req[h].gen, req[h].stage)]
      BY <2>6, <2>9 DEF note_contact
    <3>2. ready
      BY <2>1, <2>9 DEF note_contact, Serving
    <3> HIDE DEF To, Goal, Q
    <3> QED BY <2>4, <2>5, <3>1, <3>2
  <2>10. CASE contacted(h)
    <3>1. req' = [req EXCEPT ![h] = To("session", req[h].gen, req[h].stage)]
      BY <2>6, <2>10 DEF contacted
    <3>2. ready
      BY <2>1, <2>10 DEF contacted, Serving
    <3> HIDE DEF To, Goal, Q
    <3> QED BY <2>4, <2>5, <3>1, <3>2
  <2>11. CASE GetSession(h)
    <3>1. CASE published = 0
      BY <2>3, <2>11, <3>1 DEF GetSession
    <3>2. CASE published # 0
      <4>1. req' = [req EXCEPT ![h] = To("use", published, req[h].stage)]
        BY <1>3, <2>11, <3>2 DEF GetSession, TypeOK
      <4>2. ready
        BY <2>1, <2>11 DEF GetSession, Serving
      <4> HIDE DEF To, Goal, Q
      <4> QED BY <1>5, <2>4, <2>5, <4>1, <4>2
    <3> QED BY <3>1, <3>2
  <2>12. CASE Use(h)
    <3>1. req' = [req EXCEPT ![h] = To("bus", req[h].gen, req[h].stage)]
      BY <2>6, <2>12 DEF Use
    <3>2. ready /\ req[h].gen = published
      BY <2>1, <2>2, <2>12 DEF Use, Serving
    <3> HIDE DEF To, Goal, Q
    <3> QED BY <2>4, <2>5, <3>1, <3>2
  <2>13. CASE Used(h)
    <3>1. ready /\ req[h].gen = published
      BY <2>1, <2>2, <2>13 DEF Used, Serving
    <3>2. CASE Answer(h)
      BY <2>3, <3>2
    <3>3. CASE \E pc \in {"use", "session"}, n \in {1, 2} :
                  req' = [req EXCEPT ![h].pc = pc, ![h].stage = n]
      <4>1. PICK pc \in {"use", "session"}, n \in {1, 2} :
                req' = [req EXCEPT ![h].pc = pc, ![h].stage = n]
        BY <3>3
      <4>2. req' = [req EXCEPT ![h] = To(pc, req[h].gen, n)]
        BY <2>7, <4>1
      <4>3. n \in 0..2
        OBVIOUS
      <4> HIDE DEF To, Goal, Q
      <4> QED BY <2>4, <2>5, <3>1, <4>2, <4>3
    <3>4. CASE Goto(h, "record")
      <4>1. req' = [req EXCEPT ![h] = To("record", req[h].gen, req[h].stage)]
        BY <2>6, <3>4
      <4> HIDE DEF To, Goal, Q
      <4> QED BY <2>4, <2>5, <3>1, <4>1
    <3> QED BY <2>13, <3>2, <3>3, <3>4 DEF Used
  <2>14. CASE record_safe_outputs(h)
    <3>1. CASE Answer(h)
      BY <2>3, <3>1
    <3>2. CASE req' = [req EXCEPT ![h].pc = "use", ![h].stage = 2]
      <4>1. req' = [req EXCEPT ![h] = To("use", req[h].gen, 2)]
        BY <2>7, <3>2
      <4>2. ready /\ req[h].gen = published
        BY <2>1, <2>2, <2>14 DEF record_safe_outputs, Serving
      <4>3. 2 \in 0..2
        OBVIOUS
      <4> HIDE DEF To, Goal, Q
      <4> QED BY <2>4, <2>5, <4>1, <4>2, <4>3
    <3> QED BY <2>14, <3>1, <3>2 DEF record_safe_outputs
  <2> QED BY <2>8, <2>9, <2>10, <2>11, <2>12, <2>13, <2>14 DEF Serve
<1>7. PICK r \in Q : req' = [req EXCEPT ![h] = r] /\ Good(r)
  BY <1>6
<1>8. req' \in [Handlers -> Q] /\ req'[h] = r /\ \A k \in Handlers : k # h => req'[k] = req[k]
  BY <1>7 DEF TypeOK
<1>9. RequestInv'
  BY <1>1, <1>3, <1>7, <1>8 DEF RequestInv, owned
<1>10. TypeOK'
  <2>1. gLock' \in Handlers \cup {Free}
    BY DEF Serve, Snapshot, note_contact, contacted, GetSession, Use, Used,
           record_safe_outputs, TypeOK
  <2>2. sLock' \in [Gens -> Handlers \cup {Free, "thread"}]
    BY DEF Serve, Snapshot, note_contact, contacted, GetSession, Use, Used,
           record_safe_outputs, TypeOK
  <2>3. fed' \in [Gens -> SUBSET Devices]
    <3>1. fed' = fed \/ fed' = [fed EXCEPT ![published] = @ \ {req[h].dev}]
      BY DEF Serve, Snapshot, note_contact, contacted, GetSession, Use, Used,
             record_safe_outputs, keepvars
    <3>2. fed \in [Gens -> SUBSET Devices]
      BY DEF TypeOK
    <3> QED BY <3>1, <3>2
  <2> QED BY <1>1, <1>8, <2>1, <2>2, <2>3 DEF TypeOK, owned
<1> QED BY <1>2, <1>9, <1>10

\* A request is dispatched only while no lifecycle step is under way.
LEMMA DispatchKeepsInv ==
  ASSUME Inv, NEW h \in Handlers, NEW k \in Kinds, NEW d \in Devices, Dispatch(h, k, d)
  PROVE  Inv'
<1> USE RuntimeAssumption DEF RuntimeAssumption, Inv
<1>1. /\ UNCHANGED <<owned, life, doomed, gLock, sLock, keepvars>>
      /\ life = "idle" /\ doomed = <<>>
      /\ req' = [req EXCEPT ![h] = Request("snapshot", k, d, 0, 0)]
      /\ requests' \in 0..MaxRequests
  BY DEF Dispatch, Serving, TypeOK
<1>2. OwnerInv' /\ LifeInv' /\ ThreadInv'
  BY <1>1, OwnersKept DEF ThreadInv, owned, keepvars
<1>3. Request("snapshot", k, d, 0, 0) \in
          [pc : {"idle", "snapshot", "contact", "contacting", "session", "use",
                 "bus", "record"},
           kind : Kinds, dev : Devices, gen : 0..MaxGens, stage : 0..2]
  BY DEF Request
<1>4. TypeOK'
  BY <1>1, <1>3 DEF TypeOK, owned, keepvars
<1>5. RequestInv'
  BY <1>1 DEF RequestInv, Request, owned, TypeOK
<1> QED BY <1>2, <1>4, <1>5

-----------------------------------------------------------------------------
(* Destruction and the lifecycle. *)

LEMMA StopKeepsInv == ASSUME Inv, NEW g \in Gens, Stop(g) PROVE Inv'
<1>1. /\ UNCHANGED <<owned, life, doomed, gLock, sLock, kLock, thread, fed, due, ticks,
                     req, requests>>
      /\ stopping' \subseteq Gens
  BY DEF Stop, Inv, TypeOK
<1> QED BY <1>1, OwnersKept DEF Inv, TypeOK, ThreadInv, RequestInv, owned

\* The keepalive is first of its generation, and its thread is joined.
LEMMA DestroyKeepsInv == ASSUME Inv, Destroy PROVE Inv'
<1> USE DEF Inv
<1>1. /\ doomed # <<>> /\ doomed \in Seq(Objects)
      /\ alive' = alive \ {Head(doomed)} /\ doomed' = Tail(doomed)
      /\ UNCHANGED <<gens, ready, published, life, gLock, sLock, keepvars, req, requests>>
  BY DEF Destroy, TypeOK
<1>2. /\ doomed' \in Seq(Objects) /\ Objs(doomed') = Objs(doomed) \ {Head(doomed)}
      /\ Head(doomed) \in Objs(doomed) /\ Distinct(doomed') /\ KeepFirst(doomed')
  BY <1>1, TailFacts DEF OwnerInv
<1>3. TypeOK'
  BY <1>1, <1>2 DEF TypeOK, keepvars
<1>4. New = {} /\ New' = {}
  BY <1>1 DEF LifeInv, New
<1>5. OwnerInv'
  BY <1>1, <1>2, <1>4 DEF OwnerInv, Owned
<1>6. LifeInv'
  BY <1>1 DEF LifeInv
<1>7. ThreadInv'
  BY <1>1 DEF ThreadInv, Destroy, keepvars
<1>8. RequestInv'
  BY <1>1 DEF RequestInv
<1> QED BY <1>3, <1>5, <1>6, <1>7, <1>8

\* A lifecycle step is taken with nothing left to destroy and no request served.
LEMMA LifecycleFrame ==
  ASSUME Inv, initialize \/ reset \/ Exit \/ Lifecycle
  PROVE  /\ doomed = <<>> /\ alive = Owned(published) \cup New
         /\ UNCHANGED <<gLock, sLock, req, requests, kLock, due, stopping, ticks>>
         /\ RequestInv'
<1>1. /\ doomed = <<>>
      /\ UNCHANGED <<gLock, sLock, req, requests, kLock, due, stopping, ticks>>
      /\ life # "idle" \/ \A h \in Handlers : req[h].pc = "idle"
  BY DEF initialize, reset, Exit, Lifecycle, Open, Discover, Start, PublishNew,
         NotReady, Between, LifecycleAt, keepvars
<1>2. \A h \in Handlers : req[h].pc = "idle"
  BY <1>1 DEF Inv, RequestInv
<1>3. RequestInv'
  BY <1>1, <1>2 DEF RequestInv
<1>4. alive = Owned(published) \cup New
  BY <1>1, EmptyFacts DEF Inv, OwnerInv
<1> QED BY <1>1, <1>3, <1>4

\* What the other parts of the invariant need, a lifecycle step at a time.
LEMMA LifecycleTypes ==
  ASSUME Inv, initialize \/ reset \/ Exit \/ Lifecycle,
         gens' \in 0..MaxGens, published' \in 0..gens', alive' \subseteq Objects,
         ready' \in BOOLEAN, doomed' \in Seq(Objects),
         life' \in {"idle", "open", "discover", "start", "publish", "not_ready",
                    "exited"},
         thread' \in [Gens -> {"none", "run", "tick", "query", "ended"}],
         fed' \in [Gens -> SUBSET Devices]
  PROVE  TypeOK'
BY LifecycleFrame, Zenon DEF Inv, TypeOK

\* The new transport and session belong to initialize_until.
LEMMA InitializeKeepsInv == ASSUME Inv, initialize PROVE Inv'
<1> USE RuntimeAssumption DEF RuntimeAssumption
<1>1. /\ UNCHANGED <<ready, published, doomed, thread, fed>> /\ life = "idle"
      /\ doomed = <<>> /\ alive = Owned(published) /\ RequestInv'
  BY LifecycleFrame DEF initialize, Between, LifecycleAt, keepvars, New
<1>2. /\ gens \in 0..MaxGens /\ published \in 0..gens /\ alive \subseteq Objects
      /\ thread \in [Gens -> {"none", "run", "tick", "query", "ended"}]
      /\ fed \in [Gens -> SUBSET Devices] /\ ready \in BOOLEAN
      /\ doomed \in Seq(Objects)
  BY DEF Inv, TypeOK
<1>3. CASE life' = "not_ready" /\ UNCHANGED <<gens, alive>>
  <2>1. TypeOK'
    BY <1>1, <1>2, <1>3, LifecycleTypes
  <2>2. OwnerInv' /\ LifeInv' /\ ThreadInv'
    BY <1>1, <1>3, EmptyFacts DEF Inv, OwnerInv, LifeInv, ThreadInv, New, Owned
  <2> QED BY <1>1, <2>1, <2>2 DEF Inv
<1>4. CASE /\ gens < MaxGens /\ gens' = gens + 1 /\ life' = "open"
           /\ alive' = alive \cup {Transport(gens'), Session(gens')}
  <2>1. gens' \in 0..MaxGens /\ gens' \in Gens /\ published' \in 0..gens'
        /\ published' < gens'
    BY <1>1, <1>2, <1>4 DEF Gens
  <2>2. alive' \subseteq Objects
    BY <1>2, <1>4, <2>1, ObjectsDiffer
  <2>3. TypeOK'
    BY <1>1, <1>2, <1>4, <2>1, <2>2, LifecycleTypes
  <2>4. OwnerInv'
    BY <1>1, <1>4, EmptyFacts DEF Inv, OwnerInv, New, Owned
  <2>5. LifeInv' /\ ThreadInv'
    BY <1>1, <1>4, <2>1 DEF Inv, LifeInv, ThreadInv
  <2> QED BY <1>1, <2>3, <2>4, <2>5 DEF Inv
<1> QED BY <1>3, <1>4 DEF initialize

\* A step that hands objects over to destruction and publishes nothing, or the
\* new generation: who owned an object before it owns or destroys it afterwards.
LEMMA HandOver ==
  ASSUME Inv, initialize \/ reset \/ Exit \/ Lifecycle,
         UNCHANGED <<gens, alive, thread, fed>>,
         doomed' \in Seq(Objects), Distinct(doomed'), KeepFirst(doomed'),
         alive = Owned(published') \cup Objs(doomed'),
         Owned(published') \cap Objs(doomed') = {},
         published' \in 0..gens, ready' \in BOOLEAN, ready' <=> published' # 0,
         life' \in {"idle", "not_ready", "exited"}
  PROVE  Inv'
<1>1. RequestInv'
  BY LifecycleFrame
<1>2. TypeOK'
  <2>1. /\ gens' \in 0..MaxGens /\ published' \in 0..gens' /\ alive' \subseteq Objects
        /\ thread' \in [Gens -> {"none", "run", "tick", "query", "ended"}]
        /\ fed' \in [Gens -> SUBSET Devices]
    BY DEF Inv, TypeOK
  <2> QED BY <2>1, LifecycleTypes
<1>3. New' = {}
  BY DEF New
<1>4. OwnerInv'
  BY <1>3 DEF OwnerInv, Owned
<1>5. LifeInv' /\ ThreadInv'
  BY DEF Inv, LifeInv, ThreadInv
<1> QED BY <1>1, <1>2, <1>4, <1>5 DEF Inv

\* An exception: what initialize_until has made so far is destroyed.
LEMMA ThrowKeepsInv ==
  ASSUME Inv, Lifecycle, Throw, UNCHANGED <<gens, alive, thread, fed>>,
         life \in {"open", "discover", "start", "publish"}
  PROVE  Inv'
<1>1. doomed = <<>> /\ alive = Owned(published) \cup New
  BY LifecycleFrame
<1>2. /\ doomed' = NewLocals(gens) /\ life' = "not_ready"
      /\ published' = published /\ ready' = ready
  BY DEF Throw
<1>3. published \in 0..gens /\ ready \in BOOLEAN /\ (ready <=> published # 0)
  BY DEF Inv, TypeOK, LifeInv
<1> QED BY <1>1, <1>2, <1>3, NewFacts, HandOver

\* publish_not_ready: the old generation is destroyed, and with it the new one
\* when initialize_until is left without an exception.
LEMMA NotReadyKeepsInv ==
  ASSUME Inv, Lifecycle, publish_not_ready, UNCHANGED <<gens, alive, thread, fed>>,
         life \in {"open", "not_ready"}
  PROVE  Inv'
<1>1. doomed = <<>> /\ alive = Owned(published) \cup New
  BY LifecycleFrame
<1>2. published' = 0 /\ ready' = FALSE /\ life' = "idle" /\ 0 \in 0..gens
  BY Numbers DEF publish_not_ready, Publish, Inv
<1>3. Owned(published') = {}
  BY <1>2 DEF Owned
<1>4. /\ OldLocals(published) \in Seq(Objects)
      /\ Objs(OldLocals(published)) = Owned(published)
      /\ Distinct(OldLocals(published)) /\ KeepFirst(OldLocals(published))
  BY OldFacts DEF Inv
<1>5. /\ doomed' \in Seq(Objects) /\ Distinct(doomed') /\ KeepFirst(doomed')
      /\ Objs(doomed') = Owned(published) \cup New
  <2>1. CASE life = "open"
    <3>1. doomed' = OldLocals(published) \o NewLocals(gens)
      BY <2>1 DEF publish_not_ready
    <3> QED BY <1>1, <1>4, <2>1, <3>1, NewFacts, ConcatFacts
  <2>2. CASE life = "not_ready"
    <3>1. doomed' = OldLocals(published) /\ New = {}
      BY <1>4, <2>2 DEF publish_not_ready, New
    <3> QED BY <1>4, <3>1
  <2> QED BY <2>1, <2>2
<1> QED BY <1>1, <1>2, <1>3, <1>5, HandOver

\* reset and the end of the process: the globals own nothing any more.
LEMMA ResetKeepsInv == ASSUME Inv, reset \/ Exit PROVE Inv'
<1>1. /\ doomed' = OldLocals(published) \/ doomed' = Globals(published)
      /\ published' = 0 /\ ready' = FALSE /\ life = "idle"
      /\ life' \in {"idle", "exited"} /\ UNCHANGED <<gens, alive, thread, fed>>
  BY DEF reset, Exit, Between, LifecycleAt, Publish, keepvars
<1>2. /\ doomed' \in Seq(Objects) /\ Objs(doomed') = Owned(published)
      /\ Distinct(doomed') /\ KeepFirst(doomed')
  BY <1>1, OldFacts DEF Inv
<1>3. alive = Objs(doomed') /\ Owned(published') = {} /\ published' \in 0..gens
  BY <1>1, <1>2, LifecycleFrame, Numbers DEF New, Owned, Inv
<1> QED BY <1>1, <1>2, <1>3, HandOver

LEMMA PublishKeepsInv == ASSUME Inv, PublishNew PROVE Inv'
<1>1. /\ doomed' = OldLocals(published) /\ published' = gens /\ ready' = TRUE
      /\ life = "publish" /\ life' = "idle" /\ UNCHANGED <<gens, alive, thread, fed>>
  BY DEF PublishNew, LifecycleAt, Publish, keepvars
<1>2. /\ doomed' \in Seq(Objects) /\ Objs(doomed') = Owned(published)
      /\ Distinct(doomed') /\ KeepFirst(doomed')
  BY <1>1, OldFacts DEF Inv
<1>3. New = Owned(gens) /\ alive = Owned(published) \cup New /\ doomed = <<>>
  BY <1>1, LifecycleFrame DEF New, Lifecycle
<1>4. New \cap Owned(published) = {}
  BY <1>1, <1>3, NewFacts
<1>5. gens \in 0..gens /\ gens # 0
  BY <1>1, Numbers DEF Inv, LifeInv
<1> QED BY <1>1, <1>2, <1>3, <1>4, <1>5, HandOver DEF Lifecycle

LEMMA OpenKeepsInv == ASSUME Inv, Open PROVE Inv'
<1>1. /\ Lifecycle /\ life = "open" /\ UNCHANGED <<gens, alive, thread, fed>>
  BY DEF Open, Lifecycle, LifecycleAt, keepvars
<1>2. CASE life' = "discover" /\ UNCHANGED <<ready, published, doomed>>
  <2>1. TypeOK'
    <3>1. /\ gens' \in 0..MaxGens /\ published' \in 0..gens' /\ alive' \subseteq Objects
          /\ thread' \in [Gens -> {"none", "run", "tick", "query", "ended"}]
          /\ fed' \in [Gens -> SUBSET Devices] /\ doomed' \in Seq(Objects)
      BY <1>1, <1>2 DEF Inv, TypeOK
    <3>2. ready' \in BOOLEAN
      BY <1>2 DEF Inv, TypeOK
    <3> QED BY <1>1, <1>2, <3>1, <3>2, LifecycleTypes
  <2>2. OwnerInv'
    BY <1>1, <1>2 DEF Inv, OwnerInv, New, Owned
  <2>3. LifeInv' /\ ThreadInv'
    BY <1>1, <1>2, LifecycleFrame DEF Inv, LifeInv, ThreadInv
  <2> QED BY <1>1, <2>1, <2>2, <2>3, LifecycleFrame DEF Inv
<1> QED BY <1>1, <1>2, NotReadyKeepsInv, ThrowKeepsInv DEF Open

LEMMA DiscoverKeepsInv == ASSUME Inv, Discover PROVE Inv'
<1>1. Lifecycle /\ life = "discover" /\ UNCHANGED <<gens, thread>>
  BY DEF Discover, Lifecycle, LifecycleAt
<1>2. doomed = <<>> /\ alive = Owned(published) \cup New /\ RequestInv'
  BY <1>1, LifecycleFrame
<1>3. gens \in Gens /\ gens # 0 /\ published < gens
  BY <1>1, Numbers DEF Inv, LifeInv
<1>4. CASE /\ life' = "start" /\ alive' = alive \cup {Keepalive(gens)}
           /\ \E ds \in SUBSET Devices : fed' = [fed EXCEPT ![gens] = ds]
           /\ UNCHANGED <<ready, published, doomed>>
  <2>1. TypeOK'
    <3>1. /\ gens' \in 0..MaxGens /\ published' \in 0..gens'
          /\ thread' \in [Gens -> {"none", "run", "tick", "query", "ended"}]
          /\ doomed' \in Seq(Objects)
      BY <1>1, <1>4 DEF Inv, TypeOK
    <3>2. ready' \in BOOLEAN
      BY <1>4 DEF Inv, TypeOK
    <3>3. alive' \subseteq Objects
      BY <1>3, <1>4, ObjectsDiffer DEF Inv, TypeOK
    <3>4. fed' \in [Gens -> SUBSET Devices]
      BY <1>4 DEF Inv, TypeOK
    <3> QED BY <1>1, <1>4, <3>1, <3>2, <3>3, <3>4, LifecycleTypes
  <2>2. New = {Transport(gens), Session(gens)} /\ New' = New \cup {Keepalive(gens)}
    BY <1>1, <1>3, <1>4 DEF New, Owned
  <2>3. OwnerInv'
    BY <1>2, <1>4, <2>2, EmptyFacts DEF Inv, OwnerInv, Owned
  <2>4. LifeInv' /\ ThreadInv'
    BY <1>1, <1>2, <1>3, <1>4 DEF Inv, LifeInv, ThreadInv
  <2> QED BY <1>2, <2>1, <2>3, <2>4 DEF Inv
<1> QED BY <1>1, <1>4, ThrowKeepsInv DEF Discover

\* The thread is started on a keepalive that initialize_until owns.
LEMMA StartKeepsInv == ASSUME Inv, Start PROVE Inv'
<1>1. Lifecycle /\ life = "start" /\ UNCHANGED <<gens, alive, fed>>
  BY DEF Start, Lifecycle, LifecycleAt
<1>2. doomed = <<>> /\ alive = Owned(published) \cup New /\ RequestInv'
  BY <1>1, LifecycleFrame
<1>3. gens \in Gens /\ gens # 0 /\ published < gens
  BY <1>1, Numbers DEF Inv, LifeInv
<1>4. CASE /\ life' = "publish" /\ UNCHANGED <<ready, published, doomed>>
           /\ thread' = [thread EXCEPT ![gens] =
                            IF fed[gens] = {} THEN "none" ELSE "run"]
  <2>1. TypeOK'
    <3>1. /\ gens' \in 0..MaxGens /\ published' \in 0..gens' /\ alive' \subseteq Objects
          /\ fed' \in [Gens -> SUBSET Devices] /\ doomed' \in Seq(Objects)
      BY <1>1, <1>4 DEF Inv, TypeOK
    <3>2. ready' \in BOOLEAN
      BY <1>4 DEF Inv, TypeOK
    <3>3. thread' \in [Gens -> {"none", "run", "tick", "query", "ended"}]
      BY <1>4 DEF Inv, TypeOK
    <3> QED BY <1>1, <1>4, <3>1, <3>2, <3>3, LifecycleTypes
  <2>2. New' = New
    BY <1>1, <1>4 DEF New, Owned
  <2>3. OwnerInv'
    BY <1>1, <1>4, <2>2 DEF Inv, OwnerInv, Owned
  <2>4. Keepalive(gens) \in alive
    BY <1>1, <1>2, <1>3 DEF New, Owned
  <2>5. LifeInv' /\ ThreadInv'
    BY <1>1, <1>2, <1>3, <1>4, <2>4 DEF Inv, LifeInv, ThreadInv, TypeOK
  <2> QED BY <1>2, <2>1, <2>3, <2>5 DEF Inv
<1> QED BY <1>1, <1>4, ThrowKeepsInv DEF Start

-----------------------------------------------------------------------------

LEMMA NextInv == Inv /\ [Next]_vars => Inv'
<1> SUFFICES ASSUME Inv, [Next]_vars PROVE Inv'
  OBVIOUS
<1>1. CASE initialize
  BY <1>1, InitializeKeepsInv
<1>2. CASE reset \/ Exit
  BY <1>2, ResetKeepsInv
<1>3. CASE Lifecycle
  <2>1. CASE NotReady
    BY <1>3, <2>1, NotReadyKeepsInv DEF NotReady, LifecycleAt, keepvars
  <2> QED BY <1>3, <2>1, OpenKeepsInv, DiscoverKeepsInv, StartKeepsInv, PublishKeepsInv
          DEF Lifecycle
<1>4. CASE Teardown
  BY <1>4, DestroyKeepsInv, StopKeepsInv DEF Teardown
<1>5. ASSUME NEW g \in Gens, ThreadStep(g) PROVE Inv'
  BY <1>5, ThreadKeepsInv
<1>6. ASSUME NEW h \in Handlers, Serve(h) PROVE Inv'
  BY <1>6, RequestKeepsInv
<1>7. ASSUME NEW h \in Handlers, NEW k \in Kinds, NEW d \in Devices, Dispatch(h, k, d)
      PROVE  Inv'
  BY <1>7, DispatchKeepsInv
<1>8. CASE UNCHANGED vars
  BY <1>8 DEF vars, owned, keepvars, Inv, TypeOK, OwnerInv, LifeInv, ThreadInv,
              RequestInv, Owned, New
<1> QED BY <1>1, <1>2, <1>3, <1>4, <1>5, <1>6, <1>7, <1>8 DEF Next

\* Through any sequence of initialisations, failed ones, resets and the end of
\* the process, with requests and the keepalive's thread in between, every object
\* has one owner, and is destroyed after whatever uses it.
THEOREM Invariance == Spec => []Inv
BY InitInv, NextInv, PTL DEF Spec

\* RuntimeState's state keeps its types.
THEOREM TypeCorrect == Spec => []TypeOK
<1>1. Inv => TypeOK
  BY DEF Inv
<1> QED BY Invariance, <1>1, PTL

\* A keepalive that exists has its session and its transport: its owner has all
\* three, or destroys it first.
LEMMA KeepaliveOwner ==
  ASSUME Inv, NEW g \in Gens, Keepalive(g) \in alive
  PROVE  Session(g) \in alive /\ Transport(g) \in alive
<1>1. CASE Keepalive(g) \in Owned(published)
  BY <1>1, ObjectsDiffer DEF Inv, OwnerInv, Owned
<1>2. CASE Keepalive(g) \in New
  BY <1>2, ObjectsDiffer DEF Inv, OwnerInv, Owned, New
<1>3. CASE Keepalive(g) \in Objs(doomed)
  BY <1>3 DEF Inv, OwnerInv, KeepFirst, Objs
<1> QED BY <1>1, <1>2, <1>3 DEF Inv, OwnerInv

\* Neither the keepalive's thread nor a request uses an object after its
\* destruction (runtime_state.cpp: the keepalive is reset first, outside the
\* lock; bread_provider_runtime.cpp: session() is used after g_mutex is released).
THEOREM DanglesCorrect == Spec => []NothingDangles
<1>1. ASSUME Inv PROVE NothingDangles
  <2>1. ASSUME NEW g \in Gens, thread[g] \in {"run", "tick", "query"}
        PROVE  {Keepalive(g), Session(g), Transport(g)} \subseteq alive
    <3>1. Keepalive(g) \in alive
      BY <1>1, <2>1 DEF Inv, ThreadInv
    <3> QED BY <1>1, <3>1, KeepaliveOwner
  <2>2. ASSUME NEW h \in Handlers, req[h].pc \in {"use", "bus"}
        PROVE  {Session(req[h].gen), Transport(req[h].gen)} \subseteq alive
    <3>1. ready /\ req[h].gen = published
      BY <1>1, <2>2 DEF Inv, RequestInv
    <3>2. published # 0
      BY <1>1, <3>1 DEF Inv, LifeInv
    <3> QED BY <1>1, <3>1, <3>2 DEF Inv, OwnerInv, Owned
  <2> QED BY <2>1, <2>2 DEF NothingDangles
<1> QED BY Invariance, <1>1, PTL

\* Between lifecycle steps exactly the published generation exists
\* (runtime_state.cpp: initialize replaces the globals, reset empties them).
THEOREM OneGenerationCorrect == Spec => []OneGeneration
<1>1. ASSUME Inv PROVE OneGeneration
  <2> SUFFICES ASSUME life = "idle", doomed = <<>>
               PROVE  /\ ready <=> published # 0
                      /\ alive = Owned(published)
    BY DEF OneGeneration, Owned
  <2>1. New = {} /\ Objs(doomed) = {}
    BY EmptyFacts DEF New
  <2>2. alive = Owned(published)
    BY <1>1, <2>1 DEF Inv, OwnerInv
  <2>3. ready <=> published # 0
    BY <1>1 DEF Inv, LifeInv
  <2> QED BY <2>2, <2>3
<1> QED BY Invariance, <1>1, PTL
=============================================================================

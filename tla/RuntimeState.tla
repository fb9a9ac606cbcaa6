----------------------------- MODULE RuntimeState -----------------------------
(***************************************************************************)
(* The process-wide runtime state (src/src/core/runtime_state.cpp): one    *)
(* generation of transport, session and keepalive is owned by the globals, *)
(* initialize replaces it, reset and process exit tear it down.  Requests  *)
(* (src/src/core/bread_provider_runtime.cpp) and the keepalive's thread    *)
(* (src/src/devices/common/watchdog_keepalive.cpp) use it meanwhile, under *)
(* three mutexes: g_mutex, Keepalive::mutex_ and Session::mutex_.          *)
(*                                                                         *)
(* The run loop is external (the provider SDK): it serves requests, on one *)
(* or more threads, and runs the lifecycle (initialize, reset, exit) while *)
(* none is in progress.  A critical section in which no other lock is      *)
(* taken and no transfer made is one step.                                 *)
(***************************************************************************)
EXTENDS Integers, Sequences

CONSTANTS Handlers,     \* threads that serve requests
          Devices,      \* devices the runtime asks for
          MaxGens,      \* bound: initialisations that get as far as a session
          MaxTicks,     \* kKeepaliveCap: ticks until the thread gives up
          MaxRequests,  \* bound: requests served
          Free          \* nobody holds a mutex

ASSUME RuntimeAssumption ==
    /\ {MaxGens, MaxTicks, MaxRequests} \subseteq Nat
    /\ Devices # {}
    /\ {Free, "thread"} \cap Handlers = {} /\ Free # "thread"

VARIABLES
    gens,       \* generations made so far
    alive,      \* the objects not yet destroyed
    ready,      \* g_state.ready
    published,  \* the generation the globals own, 0 for none
    life,       \* where the run loop is in the lifecycle
    doomed,     \* objects it has to destroy, in this order
    gLock,      \* g_mutex
    kLock,      \* generations whose Keepalive::mutex_ is held
    sLock,      \* per generation, who holds Session::mutex_
    thread,     \* per generation, where Keepalive::run is
    fed,        \* per generation, the devices still to be fed
    due,        \* per generation, those the current tick has still to feed
    stopping,   \* generations whose keepalive is told to stop
    ticks,      \* per generation, ticks so far
    req,        \* per handler, the request it serves
    requests    \* requests so far

owned    == <<gens, alive, ready, published>>
keepvars == <<kLock, thread, fed, due, stopping, ticks>>
vars     == <<owned, life, doomed, gLock, sLock, keepvars, req, requests>>

Gens == 1..MaxGens

Transport(g) == <<"transport", g>>
Session(g)   == <<"session", g>>
Keepalive(g) == <<"keepalive", g>>
Objects      == {"transport", "session", "keepalive"} \X Gens

Request(pc, kind, dev, gen, stage) ==
    [pc |-> pc, kind |-> kind, dev |-> dev, gen |-> gen, stage |-> stage]
NoRequest == Request("idle", "info", CHOOSE d \in Devices : TRUE, 0, 0)

Init ==
    /\ gens = 0 /\ alive = {} /\ ready = FALSE /\ published = 0
    /\ life = "idle" /\ doomed = <<>>
    /\ gLock = Free /\ kLock = {} /\ sLock = [g \in Gens |-> Free]
    /\ thread = [g \in Gens |-> "none"]
    /\ fed = [g \in Gens |-> {}] /\ due = [g \in Gens |-> {}]
    /\ stopping = {} /\ ticks = [g \in Gens |-> 0]
    /\ req = [h \in Handlers |-> NoRequest] /\ requests = 0

-----------------------------------------------------------------------------
(* Destruction. *)

\* Mutant: the keepalive goes last, as a swap of the declarations would have it.
OldLocals_KeepaliveLast(g) ==
    IF g = 0 THEN <<>> ELSE <<Transport(g), Session(g), Keepalive(g)>>

\* Mutant: globals that own nothing are taken for objects.
OldLocals_NoNullCheck(g) == <<Keepalive(g), Transport(g), Session(g)>>

\* old_session, old_transport and old_keepalive, taken from the globals: the
\* keepalive is reset first, the others go in reverse order of declaration.
OldLocals(g) ==
    IF g = 0 THEN <<>> ELSE <<Keepalive(g), Transport(g), Session(g)>>

\* The locals of initialize_until when it is left before it publishes.
NewLocals(g) ==
    (IF Keepalive(g) \in alive THEN <<Keepalive(g)>> ELSE <<>>)
       \o <<Session(g), Transport(g)>>

\* The globals, at process exit: in reverse order of declaration.
Globals(g) ==
    IF g = 0 THEN <<>> ELSE <<Keepalive(g), Session(g), Transport(g)>>

\* Mutant: ~Keepalive joins the thread with the mutex held.
Stop_HoldsMutex(g) ==
    /\ doomed # <<>> /\ Head(doomed) = Keepalive(g)
    /\ g \notin stopping /\ g \notin kLock
    /\ stopping' = stopping \cup {g}
    /\ kLock' = kLock \cup {g}
    /\ UNCHANGED <<owned, life, doomed, gLock, sLock, thread, fed, due, ticks,
                   req, requests>>

\* ~Keepalive: stopping_ is set under the mutex, and the thread woken.
Stop(g) ==
    /\ doomed # <<>> /\ Head(doomed) = Keepalive(g)
    /\ g \notin stopping /\ g \notin kLock
    /\ stopping' = stopping \cup {g}
    /\ UNCHANGED <<owned, life, doomed, gLock, sLock, kLock, thread, fed, due,
                   ticks, req, requests>>

\* ~Keepalive joins the thread, if there is one; a session or a transport has
\* nothing to wait for.
Destroy ==
    /\ doomed # <<>>
    /\ \A g \in Gens : Head(doomed) = Keepalive(g) =>
           g \in stopping /\ thread[g] \in {"none", "ended"}
    /\ alive' = alive \ {Head(doomed)}
    /\ doomed' = Tail(doomed)
    /\ UNCHANGED <<gens, ready, published, life, gLock, sLock, keepvars, req,
                   requests>>

-----------------------------------------------------------------------------
(* The lifecycle: initialize, reset and the end of the process. *)

LifecycleAt(pc) ==
    /\ life = pc /\ doomed = <<>>
    /\ UNCHANGED <<gLock, sLock, req, requests>>

\* external: the run loop starts a lifecycle step only between requests.
Between == LifecycleAt("idle") /\ \A h \in Handlers : req[h].pc = "idle"

\* The critical section that replaces the globals: the new generation, or none.
Publish(g, isReady) ==
    /\ gLock = Free
    /\ ready' = isReady /\ published' = g

\* initialize_until: an unmet host requirement publishes "not ready" at once;
\* else the transport and the session are made.
initialize ==
    /\ Between
    /\ \/ life' = "not_ready" /\ UNCHANGED <<gens, alive>>
       \/ /\ gens < MaxGens
          /\ gens' = gens + 1
          /\ alive' = alive \cup {Transport(gens'), Session(gens')}
          /\ life' = "open"
    /\ UNCHANGED <<ready, published, doomed, keepvars>>

\* An exception leaves initialize_until, and initialize catches it.
Throw ==
    /\ doomed' = NewLocals(gens) /\ life' = "not_ready"
    /\ UNCHANGED <<ready, published>>

\* Mutant: the globals keep the old session.
publish_not_ready_KeepsSession ==
    /\ Publish(published, FALSE)
    /\ doomed' = <<>>
    /\ life' = "idle"

\* publish_not_ready, and what its caller's locals leave to destroy.
publish_not_ready ==
    /\ Publish(0, FALSE)
    /\ doomed' = OldLocals(published)
                    \o (IF life = "open" THEN NewLocals(gens) ELSE <<>>)
    /\ life' = "idle"

\* open: a hardware bus that will not open is published as not ready, a mock
\* one throws.
Open ==
    /\ LifecycleAt("open")
    /\ \/ life' = "discover" /\ UNCHANGED <<ready, published, doomed>>
       \/ publish_not_ready
       \/ Throw
    /\ UNCHANGED <<gens, alive, keepvars>>

\* run_discovery, apply_outputs_policy and the arming, on the new session, and
\* then the keepalive's constructor.
Discover ==
    /\ LifecycleAt("discover")
    /\ \/ /\ life' = "start"
          /\ alive' = alive \cup {Keepalive(gens)}
          /\ \E ds \in SUBSET Devices : fed' = [fed EXCEPT ![gens] = ds]
          /\ UNCHANGED <<ready, published, doomed>>
       \/ Throw /\ UNCHANGED <<alive, fed>>
    /\ UNCHANGED <<gens, kLock, thread, due, stopping, ticks>>

\* Keepalive::start: a thread, if a device is to be fed and it can be had.
Start ==
    /\ LifecycleAt("start")
    /\ \/ /\ life' = "publish"
          /\ thread' = [thread EXCEPT ![gens] =
                           IF fed[gens] = {} THEN "none" ELSE "run"]
          /\ UNCHANGED <<ready, published, doomed>>
       \/ fed[gens] # {} /\ Throw /\ UNCHANGED thread
    /\ UNCHANGED <<gens, alive, kLock, fed, due, stopping, ticks>>

\* The new generation is published and the old one, if any, destroyed.
PublishNew ==
    /\ LifecycleAt("publish")
    /\ Publish(gens, TRUE)
    /\ doomed' = OldLocals(published)
    /\ life' = "idle"
    /\ UNCHANGED <<gens, alive, keepvars>>

\* After an exception, or with host requirements unmet.
NotReady ==
    /\ LifecycleAt("not_ready")
    /\ publish_not_ready
    /\ UNCHANGED <<gens, alive, keepvars>>

reset ==
    /\ Between
    /\ Publish(0, FALSE)
    /\ doomed' = OldLocals(published)
    /\ UNCHANGED <<gens, alive, life, keepvars>>

\* main returns: the globals are destroyed.
Exit ==
    /\ Between
    /\ doomed' = Globals(published)
    /\ life' = "exited" /\ published' = 0 /\ ready' = FALSE
    /\ UNCHANGED <<gens, alive, keepvars>>

-----------------------------------------------------------------------------
(* Keepalive::run of generation g. *)

\* Mutant: the cap is not looked at.
Capped_Never(g) == FALSE

\* now >= deadline_, at the latest after MaxTicks ticks.
Capped(g) == ticks[g] = MaxTicks

\* The thread has the mutex, at its start or out of wait_until: it ends, or
\* runs a tick, which feeds the devices that are due.
Tick(g) ==
    /\ thread[g] = "run" /\ g \notin kLock
    /\ \/ /\ g \in stopping \/ fed[g] = {} \/ Capped(g)
          /\ thread' = [thread EXCEPT ![g] = "ended"]
          /\ UNCHANGED <<kLock, due, ticks>>
       \/ /\ g \notin stopping /\ fed[g] # {} /\ ~Capped(g)
          /\ thread' = [thread EXCEPT ![g] = "tick"]
          /\ kLock' = kLock \cup {g}
          /\ due' \in {[due EXCEPT ![g] = ds] : ds \in SUBSET fed[g]}
          /\ ticks' = [ticks EXCEPT ![g] = IF @ < MaxTicks THEN @ + 1 ELSE @]
    /\ UNCHANGED <<owned, life, doomed, gLock, sLock, fed, stopping, req, requests>>

\* query_status takes the session's mutex, and makes its transfers.
Feed(g) ==
    /\ thread[g] = "tick" /\ due[g] # {} /\ sLock[g] = Free
    /\ sLock' = [sLock EXCEPT ![g] = "thread"]
    /\ thread' = [thread EXCEPT ![g] = "query"]
    /\ UNCHANGED <<owned, life, doomed, gLock, kLock, fed, due, stopping, ticks,
                   req, requests>>

FedOne(g) ==
    /\ thread[g] = "query"
    /\ sLock' = [sLock EXCEPT ![g] = Free]
    /\ \E d \in due[g] : due' = [due EXCEPT ![g] = @ \ {d}]
    /\ thread' = [thread EXCEPT ![g] = "tick"]
    /\ UNCHANGED <<owned, life, doomed, gLock, kLock, fed, stopping, ticks, req,
                   requests>>

\* wait_until releases the mutex; it returns at its time or when stopping.
Wait(g) ==
    /\ thread[g] = "tick" /\ due[g] = {}
    /\ thread' = [thread EXCEPT ![g] = "run"]
    /\ kLock' = kLock \ {g}
    /\ UNCHANGED <<owned, life, doomed, gLock, sLock, fed, due, stopping, ticks,
                   req, requests>>

-----------------------------------------------------------------------------
(* A request, served by handler h.                                         *)

Serving(h, pc) == req[h].pc = pc /\ UNCHANGED <<owned, life, doomed>>

Goto(h, pc) == req' = [req EXCEPT ![h].pc = pc]
Answer(h)   == req' = [req EXCEPT ![h] = NoRequest]

\* external: the run loop dispatches a request: one that only reads the
\* snapshot, a device's health, or a Read or Call.
Dispatch(h, kind, d) ==
    /\ life = "idle" /\ doomed = <<>> /\ Serving(h, "idle")
    /\ requests < MaxRequests /\ requests' = requests + 1
    /\ req' = [req EXCEPT ![h] = Request("snapshot", kind, d, 0, 0)]
    /\ UNCHANGED <<gLock, sLock, keepvars>>

\* snapshot, and find_device in it: without devices nothing is found.
Snapshot(h) ==
    /\ Serving(h, "snapshot") /\ gLock = Free
    /\ \/ (req[h].kind = "info" \/ ~ready) /\ Answer(h)
       \/ req[h].kind = "health" /\ ready /\ Goto(h, "session")
       \/ req[h].kind = "operate" /\ ready /\ Goto(h, "contact")
    /\ UNCHANGED <<gLock, sLock, keepvars, requests>>

\* note_contact waits for the keepalive's mutex with g_mutex held.
note_contact(h) ==
    /\ Serving(h, "contact") /\ gLock = Free
    /\ gLock' = h
    /\ Goto(h, "contacting")
    /\ UNCHANGED <<sLock, keepvars, requests>>

contacted(h) ==
    /\ Serving(h, "contacting") /\ published \notin kLock
    /\ fed' = [fed EXCEPT ![published] = @ \ {req[h].dev}]
    /\ gLock' = Free
    /\ Goto(h, "session")
    /\ UNCHANGED <<sLock, kLock, thread, due, stopping, ticks, requests>>

\* session: the pointer is used after the lock is released.
GetSession(h) ==
    /\ Serving(h, "session") /\ gLock = Free
    /\ IF published = 0 THEN Answer(h)
       ELSE req' = [req EXCEPT ![h].pc = "use", ![h].gen = published]
    /\ UNCHANGED <<gLock, sLock, keepvars, requests>>

Use(h) ==
    /\ Serving(h, "use") /\ sLock[req[h].gen] = Free
    /\ sLock' = [sLock EXCEPT ![req[h].gen] = h]
    /\ Goto(h, "bus")
    /\ UNCHANGED <<gLock, keepvars, requests>>

\* The session's operation ends.  A Read or Call that ends an outage goes on in
\* handle_recovery, on the pointer it has (read) or on the one session() now
\* gives (call): it drives the outputs safe (stage 1) and records that, unless
\* the policy leaves them, and arms the watchdog (stage 2) if there is one.
Used(h) ==
    /\ Serving(h, "bus")
    /\ sLock' = [sLock EXCEPT ![req[h].gen] = Free]
    /\ \/ req[h].stage # 1 /\ Answer(h)
       \/ /\ req[h].stage = 0 /\ req[h].kind = "operate"
          /\ \E pc \in {"use", "session"}, stage \in {1, 2} :
                req' = [req EXCEPT ![h].pc = pc, ![h].stage = stage]
       \/ req[h].stage = 1 /\ Goto(h, "record")
    /\ UNCHANGED <<gLock, keepvars, requests>>

record_safe_outputs(h) ==
    /\ Serving(h, "record") /\ gLock = Free
    /\ Answer(h) \/ req' = [req EXCEPT ![h].pc = "use", ![h].stage = 2]
    /\ UNCHANGED <<gLock, sLock, keepvars, requests>>

-----------------------------------------------------------------------------

Teardown == Destroy \/ \E g \in Gens : Stop(g)

Lifecycle == Open \/ Discover \/ Start \/ PublishNew \/ NotReady

ThreadStep(g) == Tick(g) \/ Feed(g) \/ FedOne(g) \/ Wait(g)

Serve(h) == \/ Snapshot(h) \/ note_contact(h) \/ contacted(h) \/ GetSession(h)
            \/ Use(h) \/ Used(h) \/ record_safe_outputs(h)

Kinds == {"info", "health", "operate"}

Next == \/ initialize \/ reset \/ Exit \/ Lifecycle \/ Teardown
        \/ \E g \in Gens : ThreadStep(g)
        \/ \E h \in Handlers : Serve(h)
        \/ \E h \in Handlers, k \in Kinds, d \in Devices : Dispatch(h, k, d)

Spec == Init /\ [][Next]_vars

\* Every thread goes on with what it is doing.  No lock is fair: a thread that
\* waits for one is only promised it once it stays free.
FairSpec == /\ Spec
            /\ WF_vars(Lifecycle \/ Teardown)
            /\ \A g \in Gens : WF_vars(ThreadStep(g))
            /\ \A h \in Handlers : WF_vars(Serve(h))

-----------------------------------------------------------------------------
(* Properties *)

TypeOK ==
    /\ gens \in 0..MaxGens /\ alive \subseteq Objects
    /\ ready \in BOOLEAN /\ published \in 0..gens
    /\ life \in {"idle", "open", "discover", "start", "publish", "not_ready",
                 "exited"}
    /\ doomed \in Seq(Objects)
    /\ gLock \in Handlers \cup {Free} /\ kLock \subseteq Gens
    /\ sLock \in [Gens -> Handlers \cup {Free, "thread"}]
    /\ thread \in [Gens -> {"none", "run", "tick", "query", "ended"}]
    /\ fed \in [Gens -> SUBSET Devices] /\ due \in [Gens -> SUBSET Devices]
    /\ stopping \subseteq Gens /\ ticks \in [Gens -> 0..MaxTicks]
    /\ requests \in 0..MaxRequests
    /\ req \in [Handlers ->
          [pc : {"idle", "snapshot", "contact", "contacting", "session", "use",
                 "bus", "record"},
           kind : Kinds, dev : Devices, gen : 0..MaxGens, stage : 0..2]]

\* Nothing is used once it is destroyed: the keepalive's thread runs only while
\* its keepalive, the session it feeds through and that one's transport exist,
\* and so does a request with the pointer session() gave it ("Stopped before
\* the session it uses is destroyed", runtime_state.cpp), through any sequence
\* of initialisations, failed ones, resets and the end of the process.
NothingDangles ==
    /\ \A g \in Gens : thread[g] \in {"run", "tick", "query"} =>
           {Keepalive(g), Session(g), Transport(g)} \subseteq alive
    /\ \A h \in Handlers : req[h].pc \in {"use", "bus"} =>
           {Session(req[h].gen), Transport(req[h].gen)} \subseteq alive

\* Between lifecycle steps exactly the published generation exists: a provider
\* that is ready has a session, one that is not has none, and no thread of an
\* earlier generation goes on feeding watchdogs behind its back.
OneGeneration ==
    life = "idle" /\ doomed = <<>> =>
        /\ ready <=> published # 0
        /\ alive = IF published = 0 THEN {} ELSE
               {Transport(published), Session(published), Keepalive(published)}

\* Every request is answered, although note_contact waits for a mutex that is
\* held across bus transfers, with g_mutex held itself: no lock is unfair for
\* ever, because the keepalive stops at its cap.
RequestIsAnswered == \A h \in Handlers : req[h].pc # "idle" ~> req[h].pc = "idle"

AtRest == doomed = <<>> /\ life \in {"idle", "exited"}

\* initialize, reset and the end of the process come to an end: the keepalive
\* they stop is never waiting for them.
LifecycleEnds == ~AtRest ~> AtRest

-----------------------------------------------------------------------------
(* The inductive invariant behind the safety properties above. *)

\* The objects of a sequence, and two things about the order in which they are
\* destroyed: none comes twice, and a keepalive goes before everything else,
\* with the session and the transport that its thread uses still to come.
Objs(s)      == {s[i] : i \in 1..Len(s)}
Distinct(s)  == \A i, j \in 1..Len(s) : s[i] = s[j] => i = j
KeepFirst(s) == \A i \in 1..Len(s), g \in Gens :
                    s[i] = Keepalive(g) =>
                        i = 1 /\ Session(g) \in Objs(s) /\ Transport(g) \in Objs(s)

\* What the globals own, and what initialize_until has made so far.
Owned(g) == IF g = 0 THEN {} ELSE {Transport(g), Session(g), Keepalive(g)}
New == IF life \in {"open", "discover"} THEN {Transport(gens), Session(gens)}
       ELSE IF life \in {"start", "publish"} THEN Owned(gens) ELSE {}

\* Every object has exactly one owner: the globals, initialize_until, or the
\* destruction under way.
OwnerInv ==
    /\ alive = Owned(published) \cup New \cup Objs(doomed)
    /\ Owned(published) \cap Objs(doomed) = {}
    /\ Distinct(doomed) /\ KeepFirst(doomed)

LifeInv ==
    /\ ready <=> published # 0
    /\ doomed # <<>> => life \in {"idle", "not_ready", "exited"}
    /\ life \in {"open", "discover", "start", "publish"} => published < gens

\* A thread that runs has not been joined.
ThreadInv ==
    \A g \in Gens : thread[g] \in {"run", "tick", "query"} => Keepalive(g) \in alive

\* While a request is served the globals stay as its snapshot found them.
RequestInv ==
    \A h \in Handlers :
        /\ req[h].pc # "idle" => life = "idle" /\ doomed = <<>>
        /\ req[h].pc \notin {"idle", "snapshot"} => ready
        /\ req[h].pc \in {"use", "bus", "record"} => req[h].gen = published

Inv == TypeOK /\ OwnerInv /\ LifeInv /\ ThreadInv /\ RequestInv
=============================================================================

---------------------------- MODULE LlamaSwapProofs ----------------------------
(***************************************************************************)
(* Theorems about module LlamaSwap, for any models, any number of changes, *)
(* broken streams and restarts of the server.                              *)
(*                                                                         *)
(* Everything that can reach a snapshot (the frames in the pipe, the       *)
(* cache, what an inspection has read) is kept to what the server was at   *)
(* one time; and while a stream is open the last snapshot in its pipe, or  *)
(* the cache when none is left, is the server's present state.             *)
(***************************************************************************)
EXTENDS LlamaSwap, FiniteSetTheorems, NaturalsInduction, TLAPS

\* What is known of a server's models.
Listing(wires) == UNION {[D -> wires] : D \in SUBSET Alias}

Frame == [kind : {"modelStatus", "other"}, entries : Listing(Wire)]

Status(frame) == frame.kind = "modelStatus"

Typed ==
  /\ server \in {"up", "down"}
  /\ proc \in Listing(Wire)
  /\ link \in {"closed", "open", "broken", "dead"}
  /\ pipe \in Seq(Frame)
  /\ cache \in Listing(KnownWire)
  /\ inspect.at \in {"idle", "models", "memory"}
  /\ seen.available \in BOOLEAN
  /\ changes \in 0 .. MaxChanges
  /\ breaks \in 0 .. MaxBreaks

\* Nothing that can reach a snapshot is anything the server never was.
Past ==
  /\ Truth(proc) \in past
  /\ \A i \in 1 .. Len(pipe) : Status(pipe[i]) => Truth(pipe[i].entries) \in past
  /\ ResidentsFromStates(cache) \in past \cup {{}}
  /\ inspect.residents \in past \cup {{}}
  /\ seen.residents \in past \cup {{}}

\* The n-th frame is the server's present state and no snapshot comes after it.
Latest(n) ==
  /\ Status(pipe[n]) /\ pipe[n].entries = proc
  /\ \A i \in 1 .. Len(pipe) : Status(pipe[i]) => i <= n

Drained ==
  /\ \A i \in 1 .. Len(pipe) : ~Status(pipe[i])
  /\ ResidentsFromStates(cache) = Truth(proc)

Current ==
  link = "open" =>
    /\ server = "up"
    /\ (\E n \in 1 .. Len(pipe) : Latest(n)) \/ Drained

Inv == Typed /\ Past /\ Current

-----------------------------------------------------------------------------
(* What the adapter makes of a listing.                                    *)

LEMMA EmptyListing == ASSUME NEW W PROVE <<>> \in Listing(W)
<1>1. <<>> \in [{} -> W]
  OBVIOUS
<1> QED
  BY <1>1 DEF Listing

LEMMA ListingFields ==
  ASSUME NEW W, NEW e \in Listing(W)
  PROVE  /\ DOMAIN e \subseteq Alias
         /\ \A a \in DOMAIN e : e[a] \in W
         /\ e = [a \in DOMAIN e |-> e[a]]
<1>1. PICK D \in SUBSET Alias : e \in [D -> W]
  BY DEF Listing
<1> QED
  BY <1>1

LEMMA ListingOf ==
  ASSUME NEW W, NEW D \in SUBSET Alias, NEW e \in [D -> W]
  PROVE  e \in Listing(W)
BY DEF Listing

\* Only the wire states it knows reach the residents, and of them those of a model that
\* is there.
LEMMA KnownResidency ==
  ASSUME NEW w \in KnownWire
  PROVE  Residency(w) # None <=> w \in {"starting", "ready", "stopping"}
<1>1. w \in {"stopped", "starting", "ready", "stopping", "shutdown"}
  BY DEF KnownWire, Wire
<1>2. CASE w \in {"stopped", "shutdown"}
  BY <1>2 DEF Residency
<1>3. CASE w = "starting"
  BY <1>3, LlamaSwapAssumption DEF Residency
<1>4. CASE w = "ready"
  BY <1>4, LlamaSwapAssumption DEF Residency
<1>5. CASE w = "stopping"
  BY <1>5, LlamaSwapAssumption DEF Residency
<1> QED
  BY <1>1, <1>2, <1>3, <1>4, <1>5

LEMMA ParseTyped ==
  ASSUME NEW e \in Listing(Wire)
  PROVE  ParseModelStatus(e) \in Listing(KnownWire)
<1> DEFINE K == {a \in DOMAIN e : e[a] \in KnownWire}
<1>1. K \in SUBSET Alias
  BY ListingFields
<1>2. [a \in K |-> e[a]] \in [K -> KnownWire]
  OBVIOUS
<1> QED
  BY <1>1, <1>2, ListingOf DEF ParseModelStatus

\* parse_model_status_payload and residents_from_states together lose no resident: the
\* entries they drop stand for models that are not there.
LEMMA ParsedResidents ==
  ASSUME NEW e \in Listing(Wire)
  PROVE  ResidentsFromStates(ParseModelStatus(e)) = Truth(e)
<1> DEFINE p == ParseModelStatus(e)
           here(a) == e[a] \in {"starting", "ready", "stopping"} /\ ModelOf[a] # None
           listed(a) == Residency(p[a]) # None /\ ModelOf[a] # None
<1>1. DOMAIN p = {a \in DOMAIN e : e[a] \in KnownWire}
  BY DEF ParseModelStatus
<1>2. \A a \in DOMAIN p : p[a] = e[a] /\ p[a] \in KnownWire
  BY DEF ParseModelStatus
<1>3. \A a \in DOMAIN p : listed(a) <=> here(a)
  BY <1>2, KnownResidency
<1>4. \A a \in DOMAIN e : here(a) => a \in DOMAIN p
  BY <1>1 DEF KnownWire, Wire
<1>5. {a \in DOMAIN p : listed(a)} = {a \in DOMAIN e : here(a)}
  <2> HIDE DEF p, listed, here
  <2> QED
    BY <1>1, <1>3, <1>4
<1>6. \A a \in {a \in DOMAIN e : here(a)} : p[a] = e[a]
  BY <1>2, <1>5
<1>7. ResidentsFromStates(p) = {[model |-> ModelOf[a], state |-> Residency(p[a])] : a \in {a \in DOMAIN p : listed(a)}}
  BY DEF ResidentsFromStates
<1>8. Truth(e) = {[model |-> ModelOf[a], state |-> Residency(e[a])] : a \in {a \in DOMAIN e : here(a)}}
  BY DEF Truth
<1> HIDE DEF p, listed, here
<1>9. {[model |-> ModelOf[a], state |-> Residency(p[a])] : a \in {a \in DOMAIN e : here(a)}}
        = {[model |-> ModelOf[a], state |-> Residency(e[a])] : a \in {a \in DOMAIN e : here(a)}}
  BY <1>6
<1> QED
  BY <1>5, <1>7, <1>8, <1>9 DEF p

LEMMA NothingResident == ResidentsFromStates(<<>>) = {}
<1>1. DOMAIN <<>> = {}
  OBVIOUS
<1> QED
  BY <1>1 DEF ResidentsFromStates

LEMMA StatusTyped ==
  ASSUME NEW e \in Listing(Wire)
  PROVE  ModelStatus(e) \in Frame /\ Status(ModelStatus(e)) /\ ModelStatus(e).entries = e
BY DEF ModelStatus, Frame, Status

-----------------------------------------------------------------------------
(* The server and the network keep the invariant.                          *)

LEMMA InitEstablishes == Init => Inv
<1> SUFFICES ASSUME Init PROVE Inv
  OBVIOUS
<1> USE DEF Init
<1>1. proc \in Listing(Wire)
  <2>1. proc \in [Alias -> Wire]
    BY DEF Wire
  <2> QED
    BY <2>1, ListingOf
<1>2. Typed
  BY <1>1, EmptyListing, LlamaSwapAssumption DEF Typed, NotInspecting, Unavailable
<1>3. Past
  BY NothingResident DEF Past, NotInspecting, Unavailable
<1>4. Current
  BY DEF Current
<1> QED
  BY <1>2, <1>3, <1>4 DEF Inv

\* A new state of the server is pushed down an open stream, behind what is already in it.
LEMMA PushKeeps ==
  ASSUME Inv, proc' \in Listing(Wire), Truth(proc') \in past', past \subseteq past',
         server = "up", pipe' = Pushed(proc'),
         UNCHANGED <<server, link, cache, inspect, seen>>,
         changes' \in 0 .. MaxChanges, breaks' \in 0 .. MaxBreaks
  PROVE  Inv'
<1> DEFINE m == ModelStatus(proc')
<1>1. m \in Frame /\ Status(m) /\ m.entries = proc'
  BY StatusTyped
<1> HIDE DEF m
<1>2. pipe' = IF link = "open" THEN Append(pipe, m) ELSE pipe
  BY DEF Pushed, m
<1>3. pipe \in Seq(Frame)
  BY DEF Inv, Typed
<1>4. pipe' \in Seq(Frame)
  BY <1>1, <1>2, <1>3
<1>5. Typed'
  BY <1>4 DEF Inv, Typed
<1>6. \A i \in 1 .. Len(pipe') : Status(pipe'[i]) => Truth(pipe'[i].entries) \in past'
  <2> SUFFICES ASSUME NEW i \in 1 .. Len(pipe'), Status(pipe'[i])
               PROVE  Truth(pipe'[i].entries) \in past'
    OBVIOUS
  <2>1. CASE i \in 1 .. Len(pipe)
    <3>1. pipe'[i] = pipe[i]
      BY <2>1, <1>2, <1>3
    <3> QED
      BY <2>1, <3>1 DEF Inv, Past
  <2>2. CASE i \notin 1 .. Len(pipe)
    <3>1. pipe'[i] = m
      BY <2>2, <1>2, <1>3
    <3> QED
      BY <3>1, <1>1
  <2> QED
    BY <2>1, <2>2
<1>7. Past'
  BY <1>6 DEF Inv, Past, ResidentsFromStates
<1>8. Current'
  <2> SUFFICES ASSUME link = "open" PROVE \E n \in 1 .. Len(pipe') : Latest(n)'
    BY DEF Inv, Current
  <2>1. Len(pipe') = Len(pipe) + 1 /\ Len(pipe) \in Nat /\ pipe'[Len(pipe) + 1] = m
    BY <1>2, <1>3
  <2>2. PICK k \in Nat : k = Len(pipe) + 1
    BY <2>1
  <2>3. k \in 1 .. Len(pipe') /\ Latest(k)'
    BY <2>1, <2>2, <1>1 DEF Latest
  <2> QED
    BY <2>3
<1> QED
  BY <1>5, <1>7, <1>8 DEF Inv

LEMMA LifecycleTyped ==
  ASSUME NEW wire \in Wire, NEW next \in Lifecycle(wire)
  PROVE  next \in Wire
BY DEF Lifecycle, Wire

LEMMA ChangeKeeps == ASSUME Inv, NEW a \in DOMAIN proc, Change(a) PROVE Inv'
<1>1. PICK wire \in Lifecycle(proc[a]) : Becomes([proc EXCEPT ![a] = wire])
  BY DEF Change
<1>2. proc \in Listing(Wire)
  BY DEF Inv, Typed
<1>3. PICK D \in SUBSET Alias : proc \in [D -> Wire]
  BY <1>2 DEF Listing
<1>4. wire \in Wire
  BY <1>1, <1>3, LifecycleTyped
<1>5. proc' \in [D -> Wire]
  BY <1>1, <1>3, <1>4 DEF Becomes
<1>6. proc' \in Listing(Wire)
  BY <1>5, ListingOf
<1>7. past \subseteq past' /\ Truth(proc') \in past'
  BY <1>1 DEF Becomes
<1>8. changes' \in 0 .. MaxChanges
  BY <1>1, LlamaSwapAssumption DEF Becomes, Inv, Typed
<1>9. breaks' \in 0 .. MaxBreaks
  BY DEF Change, Inv, Typed
<1> QED
  BY <1>6, <1>7, <1>8, <1>9, PushKeeps DEF Change

LEMMA PushOtherKeeps == ASSUME Inv, PushOther PROVE Inv'
<1> DEFINE f == [kind |-> "other", entries |-> <<>>]
<1>1. f \in Frame /\ ~Status(f)
  BY EmptyListing DEF Frame, Status
<1>2. pipe' = <<f>> /\ pipe = <<>>
  BY DEF PushOther
<1> HIDE DEF f
<1>3. Len(pipe') = 1 /\ pipe'[1] = f /\ pipe' \in Seq(Frame)
  BY <1>1, <1>2
<1>4. Typed'
  BY <1>3 DEF PushOther, Inv, Typed
<1>5. Past'
  BY <1>1, <1>3 DEF PushOther, Inv, Past, ResidentsFromStates, Truth
<1>6. Drained
  BY <1>2 DEF PushOther, Inv, Current
<1>7. Drained'
  BY <1>1, <1>3, <1>6 DEF Drained, PushOther, ResidentsFromStates, Truth
<1> QED
  BY <1>4, <1>5, <1>7 DEF Inv, Current, PushOther

\* A stream that is no longer open promises nothing about what is in its pipe.
LEMMA BreakKeeps == ASSUME Inv, Break PROVE Inv'
<1>1. breaks' \in 0 .. MaxBreaks
  BY LlamaSwapAssumption DEF Break, Inv, Typed
<1>2. Typed'
  BY <1>1 DEF Break, Inv, Typed
<1>3. Past'
  BY DEF Break, Inv, Past, ResidentsFromStates, Truth
<1>4. Current'
  BY DEF Break, Current
<1> QED
  BY <1>2, <1>3, <1>4 DEF Inv

LEMMA StopKeeps == ASSUME Inv, Stop PROVE Inv'
<1>1. Typed'
  BY DEF Stop, Inv, Typed
<1>2. Past'
  BY DEF Stop, Inv, Past, ResidentsFromStates, Truth
<1>3. Current'
  BY DEF Stop, Current
<1> QED
  BY <1>1, <1>2, <1>3 DEF Inv

LEMMA StartKeeps == ASSUME Inv, Start PROVE Inv'
<1>1. PICK listed \in (SUBSET Alias) \ {{}} : Becomes([a \in listed |-> "stopped"])
  BY DEF Start
<1>2. proc' \in [listed -> Wire]
  BY <1>1 DEF Becomes, Wire
<1>3. proc' \in Listing(Wire)
  BY <1>2, ListingOf
<1>4. past \subseteq past' /\ Truth(proc') \in past'
  BY <1>1 DEF Becomes
<1>5. changes' \in 0 .. MaxChanges
  BY <1>1, LlamaSwapAssumption DEF Becomes, Inv, Typed
<1>6. Typed'
  BY <1>3, <1>5 DEF Start, Inv, Typed
<1>7. Past'
  BY <1>4 DEF Start, Inv, Past, ResidentsFromStates
<1>8. link # "open"
  BY DEF Start, Inv, Current
<1>9. Current'
  BY <1>8 DEF Start, Current
<1> QED
  BY <1>6, <1>7, <1>9 DEF Inv

-----------------------------------------------------------------------------
(* The client keeps the invariant.                                         *)

LEMMA ConnectKeeps == ASSUME Inv, Connect PROVE Inv'
<1> DEFINE m == ModelStatus(proc)
<1>1. m \in Frame /\ Status(m) /\ m.entries = proc
  BY StatusTyped DEF Inv, Typed
<1>2. pipe' = <<m>>
  BY DEF Connect
<1> HIDE DEF m
<1>3. Len(pipe') = 1 /\ pipe'[1] = m /\ pipe' \in Seq(Frame)
  BY <1>1, <1>2
<1>4. Typed'
  BY <1>3 DEF Connect, Inv, Typed
<1>5. Past'
  <2>1. proc' = proc /\ past' = past /\ cache' = cache /\ inspect' = inspect /\ seen' = seen
    BY DEF Connect
  <2>2. \A i \in 1 .. Len(pipe') : Truth(pipe'[i].entries) \in past'
    BY <1>1, <1>3, <2>1 DEF Inv, Past
  <2>3. ResidentsFromStates(cache') = ResidentsFromStates(cache) /\ Truth(proc') = Truth(proc)
    BY <2>1
  <2> QED
    BY <2>1, <2>2, <2>3 DEF Inv, Past
<1>6. Latest(1)'
  BY <1>1, <1>3 DEF Latest, Connect
<1>7. Current'
  BY <1>3, <1>6 DEF Current, Connect
<1> QED
  BY <1>4, <1>5, <1>7 DEF Inv

\* Reading a snapshot takes the residents it stands for into the cache; reading anything
\* else leaves the cache alone.
LEMMA AppliedResidents ==
  ASSUME Typed, NEW frame \in Frame
  PROVE  /\ Applied(frame) \in Listing(KnownWire)
         /\ Status(frame) => ResidentsFromStates(Applied(frame)) = Truth(frame.entries)
         /\ ~Status(frame) => Applied(frame) = cache
BY ParseTyped, ParsedResidents DEF Applied, Status, Frame, Typed

LEMMA DeliverKeeps == ASSUME Inv, Deliver PROVE Inv'
<1> DEFINE f == Head(pipe)
<1>1. pipe \in Seq(Frame) /\ pipe # <<>> /\ Len(pipe) \in Nat /\ Len(pipe) >= 1
  BY DEF Deliver, Inv, Typed
<1>2. f \in Frame /\ f = pipe[1]
  BY <1>1
<1>3. cache' = Applied(f) /\ pipe' = Tail(pipe)
  BY DEF Deliver
<1> HIDE DEF f
<1>4. /\ cache' \in Listing(KnownWire)
      /\ Status(f) => ResidentsFromStates(cache') = Truth(f.entries)
      /\ ~Status(f) => cache' = cache
  BY <1>2, <1>3, AppliedResidents DEF Inv
<1>5. /\ pipe' \in Seq(Frame) /\ Len(pipe') = Len(pipe) - 1
      /\ \A i \in 1 .. Len(pipe') : pipe'[i] = pipe[i + 1] /\ i + 1 \in 1 .. Len(pipe)
  BY <1>1, <1>3
<1>6. /\ past' = past /\ proc' = proc /\ link' = link /\ server' = server
      /\ inspect' = inspect /\ seen' = seen /\ changes' = changes /\ breaks' = breaks
  BY DEF Deliver
<1>7. Typed'
  BY <1>4, <1>5, <1>6 DEF Inv, Typed
<1>8. Past'
  <2>1. Status(f) => Truth(f.entries) \in past
    BY <1>1, <1>2 DEF Inv, Past
  <2>2. ResidentsFromStates(cache') \in past' \cup {{}}
    BY <2>1, <1>4, <1>6 DEF Inv, Past
  <2>3. \A i \in 1 .. Len(pipe') : Status(pipe'[i]) => Truth(pipe'[i].entries) \in past'
    BY <1>5, <1>6 DEF Inv, Past
  <2>4. Truth(proc') \in past'
    BY <1>6 DEF Inv, Past
  <2> QED
    BY <2>2, <2>3, <2>4, <1>6 DEF Inv, Past
<1>9. Current'
  <2> SUFFICES ASSUME link = "open"
               PROVE  (\E n \in 1 .. Len(pipe') : Latest(n)') \/ Drained'
    BY <1>6 DEF Inv, Current
  <2>1. CASE Drained
    <3>1. ~Status(f)
      BY <2>1, <1>1, <1>2 DEF Drained
    <3>2. \A i \in 1 .. Len(pipe') : ~Status(pipe'[i])
      BY <2>1, <1>5 DEF Drained
    <3>3. ResidentsFromStates(cache') = Truth(proc')
      BY <2>1, <3>1, <1>4, <1>6 DEF Drained
    <3> QED
      BY <3>2, <3>3 DEF Drained
  <2>2. CASE \E n \in 1 .. Len(pipe) : Latest(n)
    <3>1. PICK n \in 1 .. Len(pipe) : Latest(n)
      BY <2>2
    <3>2. CASE n = 1
      <4>1. ResidentsFromStates(cache') = Truth(proc')
        BY <3>1, <3>2, <1>2, <1>4, <1>6 DEF Latest
      <4>2. \A i \in 1 .. Len(pipe') : ~Status(pipe'[i])
        BY <3>1, <3>2, <1>1, <1>5 DEF Latest
      <4> QED
        BY <4>1, <4>2 DEF Drained
    <3>3. CASE n # 1
      <4>1. PICK k \in Nat : k = n - 1
        BY <3>1, <1>1
      <4>2. k \in 1 .. Len(pipe') /\ pipe'[k] = pipe[n]
        BY <4>1, <3>1, <3>3, <1>1, <1>5
      <4>3. \A i \in 1 .. Len(pipe') : Status(pipe'[i]) => i <= k
        BY <4>1, <3>1, <1>1, <1>5 DEF Latest
      <4>4. Latest(k)'
        BY <4>2, <4>3, <3>1, <1>6 DEF Latest
      <4> QED
        BY <4>2, <4>4
    <3> QED
      BY <3>2, <3>3
  <2> QED
    BY <2>1, <2>2 DEF Inv, Current
<1> QED
  BY <1>7, <1>8, <1>9 DEF Inv

LEMMA DisconnectKeeps == ASSUME Inv, Disconnect PROVE Inv'
<1>1. pipe' = <<>> /\ Len(pipe') = 0
  BY DEF Disconnect
<1>2. Typed'
  BY <1>1 DEF Disconnect, Inv, Typed
<1>3. Past'
  BY <1>1 DEF Disconnect, Inv, Past, ResidentsFromStates, Truth
<1>4. Current'
  BY DEF Disconnect, Current
<1> QED
  BY <1>2, <1>3, <1>4 DEF Inv

\* An inspection writes nothing the stream's task reads.
LEMMA InspectionKeeps ==
  ASSUME Inv, UNCHANGED <<server, proc, link, pipe, cache, past, changes, breaks>>,
         inspect'.at \in {"idle", "models", "memory"},
         inspect'.residents \in past \cup {{}},
         seen'.available \in BOOLEAN,
         seen'.residents \in past \cup {{}}
  PROVE  Inv'
<1>1. Typed'
  BY DEF Inv, Typed
<1>2. Past'
  BY DEF Inv, Past, ResidentsFromStates, Truth
<1>3. Drained => Drained'
  BY DEF Drained, ResidentsFromStates, Truth
<1>4. ASSUME NEW n \in 1 .. Len(pipe), Latest(n)
      PROVE  \E k \in 1 .. Len(pipe') : Latest(k)'
  <2>1. Latest(n)'
    BY <1>4 DEF Latest
  <2> QED
    BY <2>1
<1>5. Current'
  BY <1>3, <1>4 DEF Inv, Current
<1> QED
  BY <1>1, <1>2, <1>5 DEF Inv

LEMMA StutterKeeps == ASSUME Inv, UNCHANGED vars PROVE Inv'
BY InspectionKeeps DEF vars, Inv, Typed, Past

LEMMA ProbeHealthKeeps == ASSUME Inv, ProbeHealth PROVE Inv'
<1>1. inspect'.at \in {"idle", "models", "memory"} /\ inspect'.residents \in past \cup {{}}
  <2>1. CASE inspect' = inspect
    BY <2>1 DEF Inv, Typed, Past
  <2>2. CASE inspect' = [inspect EXCEPT !.at = "models"]
    <3>1. inspect.at = "idle"
      BY DEF ProbeHealth
    <3> QED
      BY <2>2, <3>1 DEF Inv, Past
  <2> QED
    BY <2>1, <2>2 DEF ProbeHealth
<1>2. seen'.available \in BOOLEAN /\ seen'.residents \in past \cup {{}}
  <2>1. CASE seen' = seen
    BY <2>1 DEF Inv, Typed, Past
  <2>2. CASE seen' = Unavailable
    BY <2>2 DEF Unavailable
  <2> QED
    BY <2>1, <2>2 DEF ProbeHealth
<1> QED
  BY <1>1, <1>2, InspectionKeeps DEF ProbeHealth

LEMMA ListModelsKeeps == ASSUME Inv, ListModels PROVE Inv'
<1>1. inspect'.at = "memory" /\ inspect'.residents = ResidentsFromStates(cache)
  BY DEF ListModels
<1>2. seen'.available \in BOOLEAN /\ seen'.residents \in past \cup {{}}
  BY DEF ListModels, Inv, Typed, Past
<1> QED
  BY <1>1, <1>2, InspectionKeeps DEF ListModels, Inv, Past

LEMMA ProbeMemoryKeeps == ASSUME Inv, ProbeMemory PROVE Inv'
<1>1. inspect'.at = "idle" /\ inspect'.residents = {}
  BY DEF ProbeMemory, NotInspecting
<1>2. seen'.available = TRUE /\ seen'.residents = inspect.residents
  BY DEF ProbeMemory
<1> QED
  BY <1>1, <1>2, InspectionKeeps DEF ProbeMemory, Inv, Past

LEMMA StepKeeps == Inv /\ [Next]_vars => Inv'
<1> SUFFICES ASSUME Inv, [Next]_vars PROVE Inv'
  OBVIOUS
<1>1. CASE UNCHANGED vars
  BY <1>1, StutterKeeps
<1>2. CASE Next
  BY <1>2, ChangeKeeps, PushOtherKeeps, BreakKeeps, StopKeeps, StartKeeps, ConnectKeeps,
     DeliverKeeps, DisconnectKeeps, ProbeHealthKeeps, ListModelsKeeps, ProbeMemoryKeeps
     DEF Next
<1> QED
  BY <1>1, <1>2

LEMMA SpecInv == Spec => []Inv
BY InitEstablishes, StepKeeps, PTL DEF Spec

-----------------------------------------------------------------------------
(* The theorems.                                                           *)

\* Every variable has its type, whatever the server pushes.
THEOREM LlamaSwapTyped == Spec => []TypeOK
<1>1. Inv => TypeOK
  <2> SUFFICES ASSUME Inv PROVE TypeOK
    OBVIOUS
  <2>1. DOMAIN proc \subseteq Alias /\ \A a \in DOMAIN proc : proc[a] \in Wire
    BY ListingFields DEF Inv, Typed
  <2>2. DOMAIN cache \subseteq Alias /\ \A a \in DOMAIN cache : cache[a] \in KnownWire
    BY ListingFields DEF Inv, Typed
  <2>3. \A i \in 1 .. Len(pipe) : pipe[i].kind \in {"modelStatus", "other"}
    <3>1. pipe \in Seq(Frame)
      BY DEF Inv, Typed
    <3>2. \A i \in 1 .. Len(pipe) : pipe[i] \in Frame
      BY <3>1
    <3> QED
      BY <3>2 DEF Frame
  <2> QED
    BY <2>1, <2>2, <2>3 DEF Inv, Typed, TypeOK
<1> QED
  BY <1>1, SpecInv, PTL

\* An inspection never reports a mixture of two snapshots: its residents were the server's
\* all at one time, through any streams lost and restarts (apply_model_status replaces).
THEOREM InspectionsCoherent == Spec => []SnapshotCoherent
<1>1. Inv => SnapshotCoherent
  BY DEF Inv, Past, SnapshotCoherent
<1> QED
  BY <1>1, SpecInv, PTL

\* When everything an open stream brought has been read, the cache is the server's present
\* residents: no push is lost while the stream lives (run_event_stream).
THEOREM DrainedCacheCurrent == Spec => []DrainedMeansCurrent
<1>1. Inv => DrainedMeansCurrent
  BY DEF Inv, Current, Drained, DrainedMeansCurrent
<1> QED
  BY <1>1, SpecInv, PTL

-----------------------------------------------------------------------------
(* The memory a snapshot reports.                                          *)

\* A set of subsets of a finite set has a member none of whose members can be taken out of it
\* without leaving the set: an induction over finite sets.
LEMMA LeastSubset ==
  ASSUME NEW S, IsFiniteSet(S), NEW Bad \in SUBSET SUBSET S, Bad # {}
  PROVE  \E T \in Bad : \A x \in T : T \ {x} \notin Bad
<1>1. IsWellFoundedOn(StrictSubsetOrdering(S), FiniteSubsetsOf(S))
  BY FS_StrictSubsetOrderingWellFounded
<1>2. Bad \subseteq FiniteSubsetsOf(S)
  BY FS_FiniteSubsetsOfFinite
<1>3. PICK T \in Bad : \A U \in Bad : <<U, T>> \notin StrictSubsetOrdering(S)
  BY <1>1, <1>2, WFMin
<1>4. \A x \in T : <<T \ {x}, T>> \in StrictSubsetOrdering(S)
  BY DEF StrictSubsetOrdering
<1> QED
  BY <1>3, <1>4

\* g gives the total of f over every subset of S.
Totals(g, f, S) ==
  /\ g \in [SUBSET S -> Nat]
  /\ g[{}] = 0
  /\ \A T \in SUBSET S : \A x \in T : g[T] = f[x] + g[T \ {x}]

\* One step of the library's summation.
Adding(f, S, h) == [s \in SUBSET S |-> IF s = {} THEN 0
                                       ELSE LET x == CHOOSE x \in s : TRUE IN f[x] + h[s \ {x}]]

LEMMA TotalsExist ==
  ASSUME NEW S, IsFiniteSet(S), NEW f \in [S -> Nat]
  PROVE  \E g : Totals(g, f, S)
<1> DEFINE Bad == {T \in SUBSET S : ~ \E g : Totals(g, f, T)}
<1>1. SUFFICES ASSUME Bad # {} PROVE FALSE
  OBVIOUS
<1>2. PICK T \in Bad : \A x \in T : T \ {x} \notin Bad
  <2> HIDE DEF Bad
  <2>1. Bad \in SUBSET SUBSET S
    BY DEF Bad
  <2> QED
    BY <1>1, <2>1, LeastSubset
<1>3. CASE T = {}
  <2> DEFINE g == [U \in SUBSET {} |-> 0]
  <2>1. Totals(g, f, {})
    BY DEF Totals
  <2> QED
    BY <1>2, <1>3, <2>1
<1>4. ASSUME NEW t \in T PROVE FALSE
  <2>1. PICK g : Totals(g, f, T \ {t})
    BY <1>2
  <2> DEFINE h == [U \in SUBSET T |-> IF t \in U THEN f[t] + g[U \ {t}] ELSE g[U]]
  <2>2. \A U \in SUBSET T : t \notin U => U \in SUBSET (T \ {t})
    OBVIOUS
  <2>3. \A U \in SUBSET T : U \ {t} \in SUBSET (T \ {t})
    OBVIOUS
  <2>4. f[t] \in Nat /\ \A x \in T : f[x] \in Nat
    OBVIOUS
  <2>5. g \in [SUBSET (T \ {t}) -> Nat]
    BY <2>1 DEF Totals
  <2>6. h \in [SUBSET T -> Nat]
    <3>1. ASSUME NEW U \in SUBSET T PROVE (IF t \in U THEN f[t] + g[U \ {t}] ELSE g[U]) \in Nat
      <4>1. g[U \ {t}] \in Nat
        BY <2>3, <2>5
      <4>2. t \notin U => g[U] \in Nat
        BY <2>2, <2>5
      <4> QED
        BY <2>4, <4>1, <4>2
    <3> QED
      BY <3>1
  <2>7. h[{}] = 0
    BY <2>1 DEF Totals
  <2>8. ASSUME NEW U \in SUBSET T, NEW x \in U
        PROVE  h[U] = f[x] + h[U \ {x}]
    <3>1. CASE x = t
      BY <3>1
    <3>2. CASE x # t /\ t \notin U
      <4>1. g[U] = f[x] + g[U \ {x}]
        BY <2>1, <2>2, <3>2 DEF Totals
      <4> QED
        BY <3>2, <4>1
    <3>3. CASE x # t /\ t \in U
      <4> DEFINE V == U \ {t}
      <4>1. V \in SUBSET (T \ {t}) /\ x \in V
        BY <3>3
      <4>2. g[V] = f[x] + g[V \ {x}]
        BY <2>1, <4>1 DEF Totals
      <4>3. V \ {x} = (U \ {x}) \ {t}
        OBVIOUS
      <4>4. h[U] = f[t] + g[V]
        BY <3>3
      <4>5. h[U \ {x}] = f[t] + g[V \ {x}]
        BY <3>3, <4>3
      <4>6. g[V \ {x}] \in Nat /\ f[x] \in Nat
        BY <2>4, <2>5, <4>1
      <4> QED
        BY <2>4, <4>2, <4>4, <4>5, <4>6
    <3> QED
      BY <3>1, <3>2, <3>3
  <2>9. Totals(h, f, T)
    <3> HIDE DEF h
    <3> QED
      BY <2>6, <2>7, <2>8 DEF Totals
  <2> QED
    BY <1>2, <2>9
<1> QED
  BY <1>2, <1>3, <1>4

\* Any h that sums as the library does agrees with the totals.
LEMMA AddingTotals ==
  ASSUME NEW S, IsFiniteSet(S), NEW f, NEW g, Totals(g, f, S), NEW h, h = Adding(f, S, h)
  PROVE  \A T \in SUBSET S : h[T] = g[T]
<1> DEFINE Bad == {T \in SUBSET S : h[T] # g[T]}
<1>1. SUFFICES ASSUME Bad # {} PROVE FALSE
  OBVIOUS
<1>2. PICK T \in Bad : \A x \in T : T \ {x} \notin Bad
  <2> HIDE DEF Bad
  <2>1. Bad \in SUBSET SUBSET S
    BY DEF Bad
  <2> QED
    BY <1>1, <2>1, LeastSubset
<1>3. T # {}
  BY <1>2 DEF Totals, Adding
<1> DEFINE x == CHOOSE x \in T : TRUE
<1>4. x \in T
  BY <1>3
<1>5. h[T] = f[x] + h[T \ {x}]
  BY <1>2, <1>3 DEF Adding
<1>6. g[T] = f[x] + g[T \ {x}]
  BY <1>4 DEF Totals
<1>7. h[T \ {x}] = g[T \ {x}]
  BY <1>2, <1>4
<1> QED
  BY <1>2, <1>5, <1>6, <1>7

\* So does any other giving of totals.
LEMMA TotalsUnique ==
  ASSUME NEW S, IsFiniteSet(S), NEW f, NEW g, Totals(g, f, S), NEW h, Totals(h, f, S)
  PROVE  \A T \in SUBSET S : h[T] = g[T]
<1> DEFINE Bad == {T \in SUBSET S : h[T] # g[T]}
<1>1. SUFFICES ASSUME Bad # {} PROVE FALSE
  OBVIOUS
<1>2. PICK T \in Bad : \A x \in T : T \ {x} \notin Bad
  <2> HIDE DEF Bad
  <2>1. Bad \in SUBSET SUBSET S
    BY DEF Bad
  <2> QED
    BY <1>1, <2>1, LeastSubset
<1>3. T # {}
  BY <1>2 DEF Totals
<1>4. PICK x \in T : TRUE
  BY <1>3
<1>5. h[T] = f[x] + h[T \ {x}] /\ g[T] = f[x] + g[T \ {x}]
  BY <1>4 DEF Totals
<1>7. h[T \ {x}] = g[T \ {x}]
  BY <1>2, <1>4
<1> QED
  BY <1>2, <1>5, <1>7

LEMMA SumOfLines ==
  ASSUME NEW lines, IsFiniteSet(lines), \A l \in lines : l.bytes \in Nat, NEW g,
         Totals(g, [l \in lines |-> l.bytes], lines)
  PROVE  MapThenSumSet(LAMBDA l : l.bytes, lines) = g[lines]
<1> DEFINE f == [l \in lines |-> l.bytes]
           Step(h) == [s \in SUBSET lines |-> IF s = {} THEN 0
                        ELSE LET x == CHOOSE x \in s : TRUE IN x.bytes + h[s \ {x}]]
           sum == CHOOSE h : h = Step(h)
<1>1. MapThenSumSet(LAMBDA l : l.bytes, lines) = sum[lines]
  BY DEF MapThenSumSet, MapThenFoldSet
<1>2. \A h : Step(h) = Adding(f, lines, h)
  BY DEF Adding
<1>3. g = Adding(f, lines, g)
  BY DEF Adding, Totals
<1>4. sum = Step(sum)
  BY <1>2, <1>3
<1>5. sum = Adding(f, lines, sum)
  BY <1>2, <1>4
<1> QED
  <2> HIDE DEF sum, f, Step
  <2> QED
    BY <1>1, <1>5, AddingTotals DEF f

LEMMA SumOfDevices ==
  ASSUME NEW D \in SUBSET DOMAIN Device, IsFiniteSet(D), NEW half \in {"total", "used"}, NEW g,
         Totals(g, [d \in D |-> Device[d][half]], D)
  PROVE  DeviceSum(D, half) = g[D]
<1> DEFINE f == [d \in D |-> Device[d][half]]
           Step(h) == [s \in SUBSET D |-> IF s = {} THEN 0
                        ELSE LET x == CHOOSE x \in s : TRUE IN Device[x][half] + h[s \ {x}]]
           sum == CHOOSE h : h = Step(h)
<1>1. DeviceSum(D, half) = sum[D]
  BY DEF DeviceSum, MapThenSumSet, MapThenFoldSet
<1>2. \A h : Step(h) = Adding(f, D, h)
  BY DEF Adding
<1>3. g = Adding(f, D, g)
  BY DEF Adding, Totals
<1>4. sum = Step(sum)
  BY <1>2, <1>3
<1>5. sum = Adding(f, D, sum)
  BY <1>2, <1>4
<1> QED
  <2> HIDE DEF sum, f, Step
  <2> QED
    BY <1>1, <1>5, AddingTotals DEF f

\* The bytes of lines that name each device once are the devices' own.
LEMMA LinesCountDevices ==
  ASSUME NEW lines, IsFiniteSet(lines), NEW half \in {"total", "used"},
         \A l \in lines : /\ l.device \in DOMAIN Device
                          /\ l.bytes = Device[l.device][half]
                          /\ Device[l.device][half] \in Nat,
         \A l, m \in lines : l.device = m.device => l = m
  PROVE  MapThenSumSet(LAMBDA l : l.bytes, lines) = DeviceSum({l.device : l \in lines}, half)
<1> DEFINE D == {l.device : l \in lines}
           of(T) == {l.device : l \in T}
           f == [l \in lines |-> l.bytes]
           fd == [d \in D |-> Device[d][half]]
<1>1. IsFiniteSet(D) /\ D \in SUBSET DOMAIN Device
  <2> DEFINE s == [l \in lines |-> l.device]
  <2>1. s \in Surjection(lines, D)
    BY DEF Surjection
  <2>2. IsFiniteSet(D)
    <3> HIDE DEF s, D
    <3> QED
      BY <2>1, FS_Surjection
  <2> QED
    BY <2>2
<1>2. f \in [lines -> Nat] /\ fd \in [D -> Nat]
  OBVIOUS
<1>3. PICK g : Totals(g, fd, D)
  <2> HIDE DEF fd, D
  <2> QED
    BY <1>1, <1>2, TotalsExist
<1> DEFINE h == [T \in SUBSET lines |-> g[of(T)]]
<1>4. \A T \in SUBSET lines : of(T) \in SUBSET D
  OBVIOUS
<1>5. h \in [SUBSET lines -> Nat] /\ h[{}] = 0
  <2>1. of({}) = {}
    OBVIOUS
  <2>2. g \in [SUBSET D -> Nat] /\ g[{}] = 0
    BY <1>3 DEF Totals
  <2> HIDE DEF of, D
  <2> QED
    BY <1>4, <2>1, <2>2
<1>6. ASSUME NEW T \in SUBSET lines, NEW x \in T PROVE h[T] = f[x] + h[T \ {x}]
  <2>1. of(T \ {x}) = of(T) \ {x.device}
    OBVIOUS
  <2>2. x.device \in of(T) /\ of(T) \in SUBSET D
    BY <1>4
  <2>3. g[of(T)] = fd[x.device] + g[of(T) \ {x.device}]
    <3> HIDE DEF of, D, fd
    <3> QED
      BY <1>3, <2>2 DEF Totals
  <2>4. fd[x.device] = f[x]
    OBVIOUS
  <2> HIDE DEF of, D, fd, f
  <2> QED
    BY <2>1, <2>3, <2>4
<1>7. Totals(h, f, lines)
  <2> HIDE DEF h, f
  <2> QED
    BY <1>5, <1>6 DEF Totals
<1>8. MapThenSumSet(LAMBDA l : l.bytes, lines) = h[lines]
  <2> HIDE DEF h
  <2> QED
    BY <1>7, SumOfLines
<1>9. DeviceSum(D, half) = g[D]
  <2> HIDE DEF D
  <2> QED
    BY <1>1, <1>3, SumOfDevices
<1>10. h[lines] = g[D]
  OBVIOUS
<1> QED
  BY <1>8, <1>9, <1>10

VramLines(scrape, metric) == {l \in scrape : l.metric = metric /\ l.device # None}

\* A VRAM half that a scrape makes known is the sum over the devices that half names.
LEMMA HalfOfDevices ==
  ASSUME NEW scrape \in Scrape, VramKnown(scrape), NEW metric \in {"vram_total", "vram_used"}
  PROVE  /\ Devices(scrape, metric) \in (SUBSET DOMAIN Device) \ {{}}
         /\ SumMetricValues(scrape, metric) = DeviceSum(Devices(scrape, metric), HalfOf(metric))
<1> DEFINE lines == VramLines(scrape, metric)
<1>1. IsFiniteSet(scrape) /\ lines \in SUBSET scrape
  BY ScrapeAssumption DEF VramLines
<1>2. IsFiniteSet(lines)
  BY <1>1, FS_Subset
<1>3. HalfOf(metric) \in {"total", "used"}
  BY DEF HalfOf
<1>4. \A l \in lines : /\ l.device \in DOMAIN Device
                        /\ l.bytes = Device[l.device][HalfOf(metric)]
                        /\ Device[l.device][HalfOf(metric)] \in Nat
  BY <1>3, ScrapeAssumption DEF VramLines
<1>5. Devices(scrape, metric) = {l.device : l \in lines}
  BY DEF Devices, VramLines
<1>6. ASSUME NEW l \in lines, NEW m \in lines, l.device = m.device PROVE l = m
  <2> DEFINE filed == Filed(scrape, metric, l.device)
  <2>1. filed \in SUBSET scrape /\ {l, m} \in SUBSET filed
    BY <1>6 DEF Filed, VramLines
  <2>2. IsFiniteSet(filed)
    BY <1>1, <2>1, FS_Subset
  <2>3. l.device \in Devices(scrape, "vram_total")
    BY <1>5 DEF VramKnown, VramSound
  <2>4. ~ (Cardinality(filed) > 1)
    BY <2>3 DEF VramKnown, VramSound, Duplicated
  <2> HIDE DEF filed
  <2>5. Cardinality({l, m}) <= Cardinality(filed) /\ Cardinality(filed) \in Nat
    BY <2>1, <2>2, FS_Subset, FS_CardinalityType
  <2>6. l # m => Cardinality({l, m}) = 2
    <3> SUFFICES ASSUME l # m PROVE Cardinality({l, m}) = 2
      OBVIOUS
    <3>1. IsFiniteSet({l}) /\ Cardinality({l}) = 1
      BY FS_Singleton
    <3>2. Cardinality({l} \cup {m}) = Cardinality({l}) + 1
      BY <3>1, FS_AddElement
    <3>3. {l} \cup {m} = {l, m}
      OBVIOUS
    <3> QED
      BY <3>1, <3>2, <3>3
  <2> QED
    BY <2>4, <2>5, <2>6
<1>7. /\ lines # {}
      /\ SumMetricValues(scrape, metric) = MapThenSumSet(LAMBDA l : l.bytes, lines)
  BY DEF VramKnown, SumMetricValues, VramLines
<1>8. MapThenSumSet(LAMBDA l : l.bytes, lines) = DeviceSum({l.device : l \in lines}, HalfOf(metric))
  <2> HIDE DEF lines
  <2> QED
    BY <1>2, <1>3, <1>4, <1>6, LinesCountDevices
<1> QED
  BY <1>4, <1>5, <1>7, <1>8

\* What a snapshot reports of memory was read off one scrape.
Scraped == seen.memory \in {Unknown} \cup Memories

LEMMA ScrapedAlways == Spec => []Scraped
<1>1. Init => Scraped
  BY DEF Init, Unavailable, Scraped
<1>2. ASSUME Scraped, [Next]_vars PROVE Scraped'
  <2> USE DEF Scraped
  <2>1. CASE UNCHANGED seen
    BY <1>2, <2>1 DEF Memories
  <2>2. CASE ProbeHealth
    BY <1>2, <2>2 DEF ProbeHealth, Unavailable, Memories
  <2>3. CASE ProbeMemory
    BY <2>3 DEF ProbeMemory, Memories
  <2> QED
    BY <1>2, <2>1, <2>2, <2>3
    DEF Next, vars, Change, PushOther, Break, Stop, Start, Connect, Deliver, Disconnect, ListModels
<1> QED
  BY <1>1, <1>2, PTL DEF Spec

\* A VRAM pair that a scrape makes known is that of whole devices, each counted once
\* (parse_llama_swap_memory_metrics).
THEOREM MemoryCountsDevices == Spec => []MemoryOfWholeDevices
<1>1. ASSUME Scraped PROVE MemoryOfWholeDevices
  <2>1. SUFFICES ASSUME seen.memory.vram_total # None \/ seen.memory.vram_used # None
                 PROVE  \E D \in (SUBSET DOMAIN Device) \ {{}} :
                          /\ seen.memory.vram_total = BytesToMb(DeviceSum(D, "total"))
                          /\ seen.memory.vram_used = BytesToMb(DeviceSum(D, "used"))
    BY DEF MemoryOfWholeDevices
  <2>2. PICK scrape \in Scrape : seen.memory = Memory(scrape)
    BY <1>1, <2>1 DEF Scraped, Unknown, Memories
  <2>3. VramKnown(scrape)
    BY <2>1, <2>2 DEF Memory
  <2>4. seen.memory.vram_total = BytesToMb(SumMetricValues(scrape, "vram_total"))
    BY <2>2, <2>3 DEF Memory
  <2>5. seen.memory.vram_used = BytesToMb(SumMetricValues(scrape, "vram_used"))
    BY <2>2, <2>3 DEF Memory
  <2>6. Devices(scrape, "vram_total") = Devices(scrape, "vram_used")
    BY <2>3 DEF VramKnown, VramSound
  <2>7. HalfOf("vram_total") = "total" /\ HalfOf("vram_used") = "used"
    BY DEF HalfOf
  <2>8. /\ Devices(scrape, "vram_total") \in (SUBSET DOMAIN Device) \ {{}}
        /\ SumMetricValues(scrape, "vram_total") = DeviceSum(Devices(scrape, "vram_total"), "total")
    BY <2>3, <2>7, HalfOfDevices
  <2>9. SumMetricValues(scrape, "vram_used") = DeviceSum(Devices(scrape, "vram_used"), "used")
    BY <2>3, <2>7, HalfOfDevices
  <2> QED
    BY <2>4, <2>5, <2>6, <2>8, <2>9
<1> QED
  BY <1>1, ScrapedAlways, PTL

-----------------------------------------------------------------------------
(* The colocation matrix.                                                  *)

Unions(s, t) == {left \cup right : left \in s, right \in t}

LEMMA UnionsOf ==
  ASSUME NEW s, NEW t
  PROVE  /\ \A w : w \in Unions(s, t) <=> \E l \in s, r \in t : w = l \cup r
         /\ Unions(s, t) = {} <=> s = {} \/ t = {}
         /\ CrossUnion(s, t) = IF s = {} THEN t ELSE IF t = {} THEN s ELSE Unions(s, t)
<1>1. \A w : w \in Unions(s, t) <=> \E l \in s, r \in t : w = l \cup r
  BY DEF Unions
<1>2. Unions(s, t) = {} <=> s = {} \/ t = {}
  <2>1. \A l \in s, r \in t : l \cup r \in Unions(s, t)
    BY <1>1
  <2>2. Unions(s, t) # {} => s # {} /\ t # {}
    BY <1>1
  <2> QED
    BY <2>1, <2>2
<1>3. CrossUnion(s, t) = IF s = {} THEN t ELSE IF t = {} THEN s ELSE Unions(s, t)
  BY DEF CrossUnion, Unions
<1> QED
  BY <1>1, <1>2, <1>3

\* The order in which an expression joins the parts of a colocation does not matter: the
\* loop of parse_and may be taken from either end (cross_union).
THEOREM CrossUnionAssociates ==
  ASSUME NEW a, NEW b, NEW c
  PROVE  CrossUnion(CrossUnion(a, b), c) = CrossUnion(a, CrossUnion(b, c))
<1>1. CASE a = {} \/ b = {} \/ c = {}
  BY <1>1, UnionsOf
<1>2. CASE a # {} /\ b # {} /\ c # {}
  <2>1. Unions(a, b) # {} /\ Unions(b, c) # {}
    BY <1>2, UnionsOf
  <2>2. Unions(Unions(a, b), c) = Unions(a, Unions(b, c))
    <3>1. \A x \in a, y \in b, z \in c : (x \cup y) \cup z = x \cup (y \cup z)
      OBVIOUS
    <3>2. ASSUME NEW w \in Unions(Unions(a, b), c) PROVE w \in Unions(a, Unions(b, c))
      <4>1. PICK l \in Unions(a, b), z \in c : w = l \cup z
        BY UnionsOf
      <4>2. PICK x \in a, y \in b : l = x \cup y
        BY UnionsOf
      <4>3. w = x \cup (y \cup z) /\ y \cup z \in Unions(b, c)
        BY <4>1, <4>2, <3>1, UnionsOf
      <4> QED
        BY <4>3, UnionsOf
    <3>3. ASSUME NEW w \in Unions(a, Unions(b, c)) PROVE w \in Unions(Unions(a, b), c)
      <4>1. PICK x \in a, r \in Unions(b, c) : w = x \cup r
        BY UnionsOf
      <4>2. PICK y \in b, z \in c : r = y \cup z
        BY UnionsOf
      <4>3. w = (x \cup y) \cup z /\ x \cup y \in Unions(a, b)
        BY <4>1, <4>2, <3>1, UnionsOf
      <4> QED
        BY <4>3, UnionsOf
    <3> QED
      BY <3>2, <3>3
  <2>3. CrossUnion(a, b) = Unions(a, b) /\ CrossUnion(b, c) = Unions(b, c)
    BY <1>2, UnionsOf
  <2>4. CrossUnion(Unions(a, b), c) = Unions(Unions(a, b), c)
    BY <1>2, <2>1, UnionsOf
  <2>5. CrossUnion(a, Unions(b, c)) = Unions(a, Unions(b, c))
    BY <1>2, <2>1, UnionsOf
  <2> QED
    BY <2>2, <2>3, <2>4, <2>5
<1> QED
  BY <1>1, <1>2

-----------------------------------------------------------------------------
\* t stands in the tokens from a position on.
Slice(tokens, pos, t) ==
  /\ pos + Len(t) - 1 <= Len(tokens)
  /\ \A i \in 1 .. Len(t) : tokens[pos + i - 1] = t[i]

Token == Id \cup Operator

LEMMA GroupingSlices ==
  ASSUME NEW tokens \in Seq(Token), NEW t \in Seq(Token), NEW pos \in 1 .. Len(tokens),
         Slice(tokens, pos, <<"(">> \o t \o <<")">>)
  PROVE  /\ tokens[pos] = "(" /\ tokens[pos + 1 + Len(t)] = ")"
         /\ Slice(tokens, pos + 1, t)
         /\ pos + 1 + Len(t) \in 1 .. Len(tokens)
         /\ Len(<<"(">> \o t \o <<")">>) = Len(t) + 2
<1> DEFINE s == <<"(">> \o t \o <<")">>
<1>1. /\ Len(s) = Len(t) + 2 /\ Len(t) \in Nat /\ Len(tokens) \in Nat
      /\ s[1] = "(" /\ s[Len(t) + 2] = ")"
      /\ \A i \in 1 .. Len(t) : s[i + 1] = t[i]
  OBVIOUS
<1> HIDE DEF s
<1>2. \A i \in 1 .. Len(t) + 2 : tokens[pos + i - 1] = s[i]
  BY <1>1 DEF Slice, s
<1>3. pos + 1 + Len(t) <= Len(tokens)
  BY <1>1 DEF Slice, s
<1>4. tokens[pos] = "("
  <2>1. pos + 1 - 1 = pos /\ 1 \in 1 .. Len(t) + 2
    BY <1>1
  <2> QED
    BY <1>1, <1>2, <2>1
<1>5. tokens[pos + 1 + Len(t)] = ")"
  <2>1. pos + (Len(t) + 2) - 1 = pos + 1 + Len(t) /\ Len(t) + 2 \in 1 .. Len(t) + 2
    BY <1>1
  <2> QED
    BY <1>1, <1>2, <2>1
<1>6. ASSUME NEW i \in 1 .. Len(t) PROVE tokens[pos + 1 + i - 1] = t[i]
  <2>1. pos + (i + 1) - 1 = pos + 1 + i - 1 /\ i + 1 \in 1 .. Len(t) + 2
    BY <1>1
  <2> QED
    BY <1>1, <1>2, <2>1
<1>7. pos + 1 + Len(t) - 1 <= Len(tokens)
  BY <1>1, <1>3
<1>8. pos + 1 + Len(t) \in 1 .. Len(tokens)
  BY <1>1, <1>3
<1> QED
  BY <1>1, <1>4, <1>5, <1>6, <1>7, <1>8 DEF Slice, s

LEMMA JoinSlices ==
  ASSUME NEW tokens \in Seq(Token), NEW t \in Seq(Token), NEW op \in Token, NEW u \in Seq(Token),
         NEW pos \in 1 .. Len(tokens), Slice(tokens, pos, t \o <<op>> \o u)
  PROVE  /\ Slice(tokens, pos, t)
         /\ pos + Len(t) \in 1 .. Len(tokens) /\ tokens[pos + Len(t)] = op
         /\ Slice(tokens, pos + Len(t) + 1, u)
         /\ pos + Len(t) + 1 \in 1 .. Len(tokens) + 1
         /\ pos + Len(t \o <<op>> \o u) = pos + Len(t) + 1 + Len(u)
<1> DEFINE s == t \o <<op>> \o u
<1>1. /\ Len(s) = Len(t) + 1 + Len(u) /\ Len(t) \in Nat /\ Len(u) \in Nat /\ Len(tokens) \in Nat
      /\ \A i \in 1 .. Len(t) : s[i] = t[i]
      /\ s[Len(t) + 1] = op
      /\ \A i \in 1 .. Len(u) : s[Len(t) + 1 + i] = u[i]
  OBVIOUS
<1> HIDE DEF s
<1>2. \A i \in 1 .. Len(t) + 1 + Len(u) : tokens[pos + i - 1] = s[i]
  BY <1>1 DEF Slice, s
<1>3. pos + Len(t) + Len(u) <= Len(tokens)
  BY <1>1 DEF Slice, s
<1>4. tokens[pos + Len(t)] = op
  <2>1. pos + (Len(t) + 1) - 1 = pos + Len(t) /\ Len(t) + 1 \in 1 .. Len(t) + 1 + Len(u)
    BY <1>1
  <2> QED
    BY <1>1, <1>2, <2>1
<1>5. ASSUME NEW i \in 1 .. Len(t) PROVE tokens[pos + i - 1] = t[i]
  <2>1. i \in 1 .. Len(t) + 1 + Len(u)
    BY <1>1
  <2> QED
    BY <1>1, <1>2, <2>1
<1>6. ASSUME NEW i \in 1 .. Len(u) PROVE tokens[pos + Len(t) + 1 + i - 1] = u[i]
  <2>1. /\ pos + (Len(t) + 1 + i) - 1 = pos + Len(t) + 1 + i - 1
        /\ Len(t) + 1 + i \in 1 .. Len(t) + 1 + Len(u)
    BY <1>1
  <2> QED
    BY <1>1, <1>2, <2>1
<1>7. /\ pos + Len(t) - 1 <= Len(tokens)
      /\ pos + Len(t) \in 1 .. Len(tokens)
      /\ pos + Len(t) + 1 \in 1 .. Len(tokens) + 1
      /\ pos + Len(t) + 1 + Len(u) - 1 <= Len(tokens)
      /\ pos + Len(s) = pos + Len(t) + 1 + Len(u)
  BY <1>1, <1>3
<1> QED
  BY <1>4, <1>5, <1>6, <1>7 DEF Slice, s

\* What parse_and and parse_or give, having read the loadouts of all that stands before end;
\* parsed is what the rules give further on.
AndFrom(tokens, parsed, means, end) ==
  IF At(tokens, end) = "&"
    THEN [loadouts |-> CrossUnion(means, parsed[end + 1].and.loadouts), next |-> parsed[end + 1].and.next]
    ELSE [loadouts |-> means, next |-> end]

OrFrom(tokens, parsed, means, end) ==
  IF At(tokens, end) = "|"
    THEN [loadouts |-> means \cup parsed[end + 1].or.loadouts, next |-> parsed[end + 1].or.next]
    ELSE [loadouts |-> means, next |-> end]

\* Wherever e stands in the tokens, the rules read it as what it means and go on after it.
ReadAt(e, tokens, parsed, pos) ==
  LET end == pos + Len(e.tokens)
      lhs == ParseAnd(tokens, Vars, parsed, pos)
  IN  /\ e.rule = "factor" =>
           ParseFactor(tokens, Vars, parsed, pos) = [loadouts |-> e.means, next |-> end]
      /\ e.rule # "or" => lhs = AndFrom(tokens, parsed, e.means, end)
      /\ At(tokens, end) # "&" =>
           ParseOr(tokens, parsed, lhs) = OrFrom(tokens, parsed, e.means, end)

Reads(e, tokens, parsed) ==
  /\ e.means # {}
  /\ \A pos \in 1 .. Len(tokens) : Slice(tokens, pos, e.tokens) => ReadAt(e, tokens, parsed, pos)

LEMMA OrAfterAnd ==
  ASSUME NEW tokens, NEW parsed, NEW means, NEW end, At(tokens, end) # "&"
  PROVE  ParseOr(tokens, parsed, AndFrom(tokens, parsed, means, end)) = OrFrom(tokens, parsed, means, end)
<1> DEFINE lhs == [loadouts |-> means, next |-> end]
<1>1. AndFrom(tokens, parsed, means, end) = lhs
  BY DEF AndFrom
<1>2. lhs.next = end /\ lhs.loadouts = means
  OBVIOUS
<1>3. ParseOr(tokens, parsed, lhs) = OrFrom(tokens, parsed, means, end)
  BY <1>2 DEF ParseOr, OrFrom
<1> QED
  BY <1>1, <1>3

LEMMA AndAfterFactor ==
  ASSUME NEW tokens, NEW parsed, NEW pos, NEW means, NEW end,
         ParseFactor(tokens, Vars, parsed, pos) = [loadouts |-> means, next |-> end]
  PROVE  ParseAnd(tokens, Vars, parsed, pos) = AndFrom(tokens, parsed, means, end)
<1> DEFINE lhs == ParseFactor(tokens, Vars, parsed, pos)
<1>1. lhs.next = end /\ lhs.loadouts = means /\ lhs = [loadouts |-> means, next |-> end]
  OBVIOUS
<1>2. ParseAnd(tokens, Vars, parsed, pos) =
        IF At(tokens, lhs.next) = "&"
          THEN [loadouts |-> CrossUnion(lhs.loadouts, parsed[lhs.next + 1].and.loadouts),
                next |-> parsed[lhs.next + 1].and.next]
          ELSE lhs
  BY DEF ParseAnd
<1> HIDE DEF lhs
<1> QED
  BY <1>1, <1>2 DEF AndFrom

\* What a factor reads, parse_and and parse_or read too.
LEMMA FactorReads ==
  ASSUME NEW e, NEW tokens, NEW parsed, e.means # {},
         \A pos \in 1 .. Len(tokens) : Slice(tokens, pos, e.tokens) =>
           ParseFactor(tokens, Vars, parsed, pos) =
             [loadouts |-> e.means, next |-> pos + Len(e.tokens)]
  PROVE  Reads(e, tokens, parsed)
<1> SUFFICES ASSUME NEW pos \in 1 .. Len(tokens), Slice(tokens, pos, e.tokens)
             PROVE  ReadAt(e, tokens, parsed, pos)
  BY DEF Reads
<1> DEFINE end == pos + Len(e.tokens)
           lhs == ParseAnd(tokens, Vars, parsed, pos)
<1>1. ParseFactor(tokens, Vars, parsed, pos) = [loadouts |-> e.means, next |-> end]
  OBVIOUS
<1> HIDE DEF end
<1>2. lhs = AndFrom(tokens, parsed, e.means, end)
  BY <1>1, AndAfterFactor
<1>3. At(tokens, end) # "&" => ParseOr(tokens, parsed, lhs) = OrFrom(tokens, parsed, e.means, end)
  BY <1>2, OrAfterAnd
<1> QED
  BY <1>1, <1>2, <1>3 DEF end, ReadAt

\* What parse_and reads, parse_or reads too.
LEMMA AndReads ==
  ASSUME NEW e, NEW tokens, NEW parsed, e.means # {}, e.rule = "and",
         \A pos \in 1 .. Len(tokens) : Slice(tokens, pos, e.tokens) =>
           ParseAnd(tokens, Vars, parsed, pos) =
             AndFrom(tokens, parsed, e.means, pos + Len(e.tokens))
  PROVE  Reads(e, tokens, parsed)
<1> SUFFICES ASSUME NEW pos \in 1 .. Len(tokens), Slice(tokens, pos, e.tokens)
             PROVE  ReadAt(e, tokens, parsed, pos)
  BY DEF Reads
<1> DEFINE end == pos + Len(e.tokens)
           lhs == ParseAnd(tokens, Vars, parsed, pos)
<1>1. lhs = AndFrom(tokens, parsed, e.means, end)
  OBVIOUS
<1> HIDE DEF end
<1>2. At(tokens, end) # "&" => ParseOr(tokens, parsed, lhs) = OrFrom(tokens, parsed, e.means, end)
  BY <1>1, OrAfterAnd
<1> QED
  BY <1>1, <1>2 DEF end, ReadAt

\* parsed is what the rules make of the tokens from each position on.
Parses(tokens, parsed) ==
  \A pos \in 1 .. Len(tokens) + 1 :
    LET lhs == ParseAnd(tokens, Vars, parsed, pos)
    IN  parsed[pos].and = lhs /\ parsed[pos].or = ParseOr(tokens, parsed, lhs)

LEMMA IdentifierReads ==
  ASSUME NEW id \in Id, NEW tokens \in Seq(Token), NEW parsed
  PROVE  Reads(Identifier(Vars, id), tokens, parsed)
<1> DEFINE e == Identifier(Vars, id)
<1>1. e.means = {{Resolved(Vars, id)}} /\ e.tokens = <<id>> /\ Len(e.tokens) = 1
  BY DEF Identifier
<1> HIDE DEF e
<1>2. ASSUME NEW pos \in 1 .. Len(tokens), Slice(tokens, pos, e.tokens)
      PROVE  ParseFactor(tokens, Vars, parsed, pos) =
               [loadouts |-> e.means, next |-> pos + Len(e.tokens)]
  <2>1. tokens[pos] = id
    BY <1>1, <1>2 DEF Slice
  <2>2. At(tokens, pos) = id
    BY <2>1 DEF At
  <2>3. id \notin Operator /\ id # "("
    BY ExpressionAssumption DEF Operator
  <2> QED
    BY <1>1, <2>2, <2>3 DEF ParseFactor
<1>3. e.means # {}
  BY <1>1
<1> QED
  BY <1>2, <1>3, FactorReads DEF e

LEMMA GroupingReads ==
  ASSUME NEW f, NEW t \in Seq(Token), f.tokens = t, NEW tokens \in Seq(Token), NEW parsed,
         Parses(tokens, parsed), Reads(f, tokens, parsed)
  PROVE  Reads(Grouping(f), tokens, parsed)
<1> DEFINE e == Grouping(f)
<1>1. e.means = f.means /\ e.tokens = <<"(">> \o t \o <<")">>
  BY DEF Grouping
<1> HIDE DEF e
<1>2. ASSUME NEW pos \in 1 .. Len(tokens), Slice(tokens, pos, e.tokens)
      PROVE  ParseFactor(tokens, Vars, parsed, pos) =
               [loadouts |-> e.means, next |-> pos + Len(e.tokens)]
  <2> DEFINE last == pos + 1 + Len(t)
             inner == parsed[pos + 1].or
             lhs == ParseAnd(tokens, Vars, parsed, pos + 1)
  <2>1. Len(t) \in Nat /\ Len(tokens) \in Nat
    OBVIOUS
  <2>2. Slice(tokens, pos, <<"(">> \o t \o <<")">>)
    BY <1>1, <1>2
  <2>3. tokens[pos] = "(" /\ tokens[last] = ")" /\ Slice(tokens, pos + 1, t)
    BY <2>2, GroupingSlices
  <2>4. last \in 1 .. Len(tokens) /\ Len(e.tokens) = Len(t) + 2
    BY <1>1, <2>2, GroupingSlices
  <2>5. last \in DOMAIN tokens /\ At(tokens, pos) = "(" /\ At(tokens, last) = ")"
    <3>1. pos \in DOMAIN tokens /\ last \in DOMAIN tokens
      BY <2>4
    <3> QED
      BY <2>3, <3>1, Zenon DEF At
  <2>6. pos + 1 \in 1 .. Len(tokens) /\ pos + 1 \in 1 .. Len(tokens) + 1
    BY <2>1, <2>4
  <2>7. ReadAt(f, tokens, parsed, pos + 1)
    BY <2>3, <2>6 DEF Reads
  <2>8. inner = ParseOr(tokens, parsed, lhs)
    BY <2>6 DEF Parses
  <2>9. inner = OrFrom(tokens, parsed, f.means, last)
    BY <2>5, <2>7, <2>8 DEF ReadAt
  <2>10. inner = [loadouts |-> f.means, next |-> last]
    BY <2>5, <2>9 DEF OrFrom
  <2>11. ParseFactor(tokens, Vars, parsed, pos) =
          [inner EXCEPT !.next = IF inner.next \in DOMAIN tokens /\ tokens[inner.next] = ")"
                                   THEN inner.next + 1 ELSE inner.next]
    <3>1. "(" \in Operator
      BY DEF Operator
    <3> HIDE DEF inner
    <3> QED
      BY <2>5, <3>1, Zenon DEF ParseFactor, inner
  <2>12. inner.next = last
    BY <2>10
  <2>13. pos + Len(e.tokens) = last + 1
    BY <2>1, <2>4
  <2> HIDE DEF inner, last
  <2>14. ParseFactor(tokens, Vars, parsed, pos) = [inner EXCEPT !.next = last + 1]
    BY <2>3, <2>5, <2>11, <2>12
  <2> QED
    BY <1>1, <2>10, <2>13, <2>14
<1>3. e.means # {}
  BY <1>1 DEF Reads
<1> QED
  BY <1>2, <1>3, FactorReads DEF e

LEMMA ColocationReads ==
  ASSUME NEW f, NEW t \in Seq(Token), f.tokens = t, f.rule # "or",
         NEW g, NEW u \in Seq(Token), g.tokens = u, g.rule # "or", Len(u) > 0,
         NEW tokens \in Seq(Token), NEW parsed,
         Parses(tokens, parsed), Reads(f, tokens, parsed), Reads(g, tokens, parsed)
  PROVE  Reads(Colocation(f, g), tokens, parsed)
<1> DEFINE e == Colocation(f, g)
<1>1. /\ e.rule = "and"
      /\ e.means = Unions(f.means, g.means)
      /\ e.tokens = t \o <<"&">> \o u
  BY DEF Colocation, Unions
<1> HIDE DEF e
<1>2. f.means # {} /\ g.means # {}
  BY DEF Reads
<1>3. e.means # {} /\ e.means = CrossUnion(f.means, g.means)
  <2>1. Unions(f.means, g.means) # {}
    BY <1>2, UnionsOf
  <2>2. CrossUnion(f.means, g.means) = Unions(f.means, g.means)
    BY <1>2, UnionsOf
  <2> QED
    BY <1>1, <2>1, <2>2
<1>4. ASSUME NEW pos \in 1 .. Len(tokens), Slice(tokens, pos, e.tokens)
      PROVE  ParseAnd(tokens, Vars, parsed, pos) =
               AndFrom(tokens, parsed, e.means, pos + Len(e.tokens))
  <2> DEFINE mid == pos + Len(t)
             end == pos + Len(e.tokens)
  <2>1. Slice(tokens, pos, t \o <<"&">> \o u)
    BY <1>1, <1>4
  <2>2. "&" \in Token /\ Len(tokens) \in Nat
    BY DEF Token, Operator
  <2>3. /\ Slice(tokens, pos, t)
        /\ tokens[mid] = "&"
        /\ Slice(tokens, mid + 1, u)
    BY <2>1, <2>2, JoinSlices
  <2>4. mid \in 1 .. Len(tokens) /\ end = mid + 1 + Len(u)
    BY <1>1, <2>1, <2>2, JoinSlices
  <2>5. At(tokens, mid) = "&"
    BY <2>3, <2>4 DEF At
  <2>6. ParseAnd(tokens, Vars, parsed, pos) = AndFrom(tokens, parsed, f.means, mid)
    BY <2>3 DEF Reads, ReadAt
  <2>7. mid + 1 \in 1 .. Len(tokens)
    <3>1. mid + 1 + Len(u) - 1 <= Len(tokens)
      BY <2>3 DEF Slice
    <3>2. mid \in Nat /\ Len(u) \in Nat
      BY <2>4
    <3> HIDE DEF mid
    <3> QED
      BY <2>2, <3>1, <3>2
  <2>8. parsed[mid + 1].and = AndFrom(tokens, parsed, g.means, end)
    <3>1. ReadAt(g, tokens, parsed, mid + 1)
      BY <2>3, <2>7 DEF Reads
    <3>2. parsed[mid + 1].and = ParseAnd(tokens, Vars, parsed, mid + 1)
      BY <2>2, <2>7 DEF Parses
    <3> HIDE DEF mid, end
    <3> QED
      BY <2>4, <3>1, <3>2 DEF ReadAt
  <2> HIDE DEF mid, end
  <2> DEFINE rhs == parsed[mid + 1].and
             rest == parsed[end + 1].and
  <2> SUFFICES ParseAnd(tokens, Vars, parsed, pos) = AndFrom(tokens, parsed, e.means, end)
    BY DEF end
  <2>9. ParseAnd(tokens, Vars, parsed, pos) =
          [loadouts |-> CrossUnion(f.means, rhs.loadouts), next |-> rhs.next]
    BY <2>5, <2>6 DEF AndFrom
  <2>10. CASE At(tokens, end) = "&"
    <3>1. rhs = [loadouts |-> CrossUnion(g.means, rest.loadouts), next |-> rest.next]
      BY <2>8, <2>10 DEF AndFrom
    <3>2. rhs.loadouts = CrossUnion(g.means, rest.loadouts) /\ rhs.next = rest.next
      BY <3>1
    <3>3. CrossUnion(f.means, rhs.loadouts) = CrossUnion(e.means, rest.loadouts)
      BY <1>3, <3>2, CrossUnionAssociates
    <3> HIDE DEF rhs, rest
    <3> QED
      BY <2>9, <2>10, <3>2, <3>3 DEF AndFrom, rest
  <2>11. CASE At(tokens, end) # "&"
    <3>1. rhs = [loadouts |-> g.means, next |-> end]
      BY <2>8, <2>11 DEF AndFrom
    <3>2. rhs.loadouts = g.means /\ rhs.next = end
      BY <3>1
    <3> HIDE DEF rhs
    <3> QED
      BY <1>3, <2>9, <2>11, <3>2 DEF AndFrom
  <2> QED
    BY <2>10, <2>11
<1> QED
  BY <1>1, <1>3, <1>4, AndReads DEF e

LEMMA AlternativeReads ==
  ASSUME NEW f, NEW t \in Seq(Token), f.tokens = t,
         NEW g, NEW u \in Seq(Token), g.tokens = u, Len(u) > 0,
         NEW tokens \in Seq(Token), NEW parsed,
         Parses(tokens, parsed), Reads(f, tokens, parsed), Reads(g, tokens, parsed)
  PROVE  Reads(Alternative(f, g), tokens, parsed)
<1> DEFINE e == Alternative(f, g)
<1>1. /\ e.rule = "or"
      /\ e.means = f.means \cup g.means
      /\ e.tokens = t \o <<"|">> \o u
  BY DEF Alternative
<1> HIDE DEF e
<1>2. e.means # {}
  BY <1>1 DEF Reads
<1>3. ASSUME NEW pos \in 1 .. Len(tokens), Slice(tokens, pos, e.tokens)
      PROVE  ReadAt(e, tokens, parsed, pos)
  <2> DEFINE mid == pos + Len(t)
             end == pos + Len(e.tokens)
             lhs == ParseAnd(tokens, Vars, parsed, pos)
  <2>1. Slice(tokens, pos, t \o <<"|">> \o u)
    BY <1>1, <1>3
  <2>2. "|" \in Token /\ Len(tokens) \in Nat
    BY DEF Token, Operator
  <2>3. /\ Slice(tokens, pos, t)
        /\ tokens[mid] = "|"
        /\ Slice(tokens, mid + 1, u)
    BY <2>1, <2>2, JoinSlices
  <2>4. mid \in 1 .. Len(tokens) /\ end = mid + 1 + Len(u)
    BY <1>1, <2>1, <2>2, JoinSlices
  <2>5. At(tokens, mid) = "|"
    BY <2>3, <2>4 DEF At
  <2>6. ParseOr(tokens, parsed, lhs) = OrFrom(tokens, parsed, f.means, mid)
    BY <2>3, <2>5 DEF Reads, ReadAt
  <2>7. mid + 1 \in 1 .. Len(tokens)
    <3>1. mid + 1 + Len(u) - 1 <= Len(tokens)
      BY <2>3 DEF Slice
    <3>2. mid \in Nat /\ Len(u) \in Nat
      BY <2>4
    <3> HIDE DEF mid
    <3> QED
      BY <2>2, <3>1, <3>2
  <2>8. SUFFICES ASSUME At(tokens, end) # "&"
                 PROVE  ParseOr(tokens, parsed, lhs) = OrFrom(tokens, parsed, e.means, end)
    BY <1>1 DEF ReadAt
  <2>9. parsed[mid + 1].or = OrFrom(tokens, parsed, g.means, end)
    <3>1. ReadAt(g, tokens, parsed, mid + 1)
      BY <2>3, <2>7 DEF Reads
    <3>2. parsed[mid + 1].or = ParseOr(tokens, parsed, ParseAnd(tokens, Vars, parsed, mid + 1))
      BY <2>2, <2>7 DEF Parses
    <3> HIDE DEF mid, end
    <3> QED
      BY <2>4, <2>8, <3>1, <3>2 DEF ReadAt
  <2> HIDE DEF mid, end, lhs
  <2> DEFINE rhs == parsed[mid + 1].or
             rest == parsed[end + 1].or
  <2>10. ParseOr(tokens, parsed, lhs) = [loadouts |-> f.means \cup rhs.loadouts, next |-> rhs.next]
    BY <2>5, <2>6 DEF OrFrom
  <2>11. CASE At(tokens, end) = "|"
    <3>1. rhs = [loadouts |-> g.means \cup rest.loadouts, next |-> rest.next]
      BY <2>9, <2>11 DEF OrFrom
    <3>2. rhs.loadouts = g.means \cup rest.loadouts /\ rhs.next = rest.next
      BY <3>1
    <3>3. f.means \cup rhs.loadouts = e.means \cup rest.loadouts
      BY <1>1, <3>2
    <3> HIDE DEF rhs, rest
    <3> QED
      BY <2>10, <2>11, <3>2, <3>3 DEF OrFrom, rest
  <2>12. CASE At(tokens, end) # "|"
    <3>1. rhs = [loadouts |-> g.means, next |-> end]
      BY <2>9, <2>12 DEF OrFrom
    <3>2. rhs.loadouts = g.means /\ rhs.next = end
      BY <3>1
    <3> HIDE DEF rhs
    <3> QED
      BY <1>1, <2>10, <2>12, <3>2 DEF OrFrom
  <2> QED
    BY <2>11, <2>12
<1> QED
  BY <1>2, <1>3 DEF e, Reads

\* What a rule gives that has read on from pos.
ReadOn(tokens, r, pos) ==
  r = [loadouts |-> r.loadouts, next |-> r.next] /\ r.next \in pos .. Len(tokens) + 1

LEMMA RulesReadOn ==
  ASSUME NEW tokens \in Seq(Token), NEW parsed, NEW pos \in 1 .. Len(tokens) + 1,
         \A p \in pos + 1 .. Len(tokens) + 1 :
           ReadOn(tokens, parsed[p].and, p) /\ ReadOn(tokens, parsed[p].or, p)
  PROVE  LET lhs == ParseAnd(tokens, Vars, parsed, pos)
         IN  /\ ReadOn(tokens, ParseFactor(tokens, Vars, parsed, pos), pos)
             /\ ReadOn(tokens, lhs, pos)
             /\ ReadOn(tokens, ParseOr(tokens, parsed, lhs), pos)
<1> DEFINE last == Len(tokens) + 1
           factor == ParseFactor(tokens, Vars, parsed, pos)
           lhs == ParseAnd(tokens, Vars, parsed, pos)
<1>1. last \in Nat /\ pos \in Nat /\ pos <= last /\ DOMAIN tokens = 1 .. last - 1
  OBVIOUS
<1>2. \A p \in Nat \ {0} : At(tokens, p) # ")" => p + 1 \in 1 .. last
  BY <1>1 DEF At
<1>3. ReadOn(tokens, factor, pos)
  <2>1. CASE At(tokens, pos) = "("
    <3> DEFINE inner == parsed[pos + 1].or
               next == IF inner.next \in DOMAIN tokens /\ tokens[inner.next] = ")"
                         THEN inner.next + 1 ELSE inner.next
    <3>1. pos + 1 \in pos + 1 .. last
      BY <1>1, <1>2, <2>1
    <3>2. ReadOn(tokens, inner, pos + 1)
      BY <3>1
    <3>3. factor = [inner EXCEPT !.next = next]
      <4>1. "(" \in Operator
        BY DEF Operator
      <4> QED
        BY <2>1, <4>1, Zenon DEF ParseFactor
    <3>4. inner = [loadouts |-> inner.loadouts, next |-> inner.next]
      BY <3>2 DEF ReadOn
    <3>5. next \in pos .. last
      <4>1. inner.next \in pos + 1 .. last
        BY <3>2 DEF ReadOn
      <4> HIDE DEF inner
      <4> QED
        BY <1>1, <4>1
    <3> HIDE DEF inner, next, factor
    <3>6. factor = [loadouts |-> inner.loadouts, next |-> next]
      BY <3>3, <3>4
    <3>7. factor = [loadouts |-> factor.loadouts, next |-> factor.next] /\ factor.next = next
      BY <3>6
    <3> QED
      BY <3>5, <3>7 DEF ReadOn
  <2>2. CASE At(tokens, pos) # "(" /\ At(tokens, pos) \notin Operator
    <3>1. factor = [loadouts |-> {{Resolved(Vars, At(tokens, pos))}}, next |-> pos + 1]
      BY <2>2, Zenon DEF ParseFactor
    <3>2. pos + 1 \in pos .. last
      BY <1>1, <1>2, <2>2 DEF Operator
    <3> HIDE DEF factor
    <3>3. factor = [loadouts |-> factor.loadouts, next |-> factor.next] /\ factor.next = pos + 1
      BY <3>1
    <3> QED
      BY <3>2, <3>3 DEF ReadOn
  <2>3. CASE At(tokens, pos) # "(" /\ At(tokens, pos) \in Operator
    <3>1. factor = [loadouts |-> {}, next |-> pos]
      BY <2>3, Zenon DEF ParseFactor
    <3> HIDE DEF factor
    <3>2. factor = [loadouts |-> factor.loadouts, next |-> factor.next] /\ factor.next = pos
      BY <3>1
    <3> QED
      BY <1>1, <3>2 DEF ReadOn
  <2> QED
    BY <2>1, <2>2, <2>3
<1>4. ReadOn(tokens, lhs, pos)
  <2> DEFINE rhs == parsed[factor.next + 1].and
  <2>1. factor.next \in pos .. last
    BY <1>3 DEF ReadOn
  <2>2. lhs = IF At(tokens, factor.next) = "&"
                THEN [loadouts |-> CrossUnion(factor.loadouts, rhs.loadouts), next |-> rhs.next]
                ELSE factor
    BY DEF ParseAnd
  <2> HIDE DEF factor, lhs
  <2>3. CASE At(tokens, factor.next) = "&"
    <3>1. factor.next + 1 \in pos + 1 .. last
      BY <1>1, <1>2, <2>1, <2>3
    <3>2. rhs.next \in factor.next + 1 .. last
      BY <3>1 DEF ReadOn
    <3>3. rhs.next \in pos .. last
      BY <1>1, <2>1, <3>2
    <3> HIDE DEF rhs
    <3>4. lhs = [loadouts |-> lhs.loadouts, next |-> lhs.next] /\ lhs.next = rhs.next
      BY <2>2, <2>3
    <3> QED
      BY <3>3, <3>4 DEF ReadOn
  <2> QED
    BY <1>3, <2>2, <2>3
<1>5. ReadOn(tokens, ParseOr(tokens, parsed, lhs), pos)
  <2> DEFINE rhs == parsed[lhs.next + 1].or
             r == ParseOr(tokens, parsed, lhs)
  <2> HIDE DEF lhs, factor
  <2>1. lhs.next \in pos .. last
    BY <1>4 DEF ReadOn
  <2>2. r = IF At(tokens, lhs.next) = "|"
              THEN [loadouts |-> lhs.loadouts \cup rhs.loadouts, next |-> rhs.next]
              ELSE lhs
    BY DEF ParseOr
  <2> HIDE DEF r
  <2>3. CASE At(tokens, lhs.next) = "|"
    <3>1. lhs.next + 1 \in pos + 1 .. last
      BY <1>1, <1>2, <2>1, <2>3
    <3>2. rhs.next \in lhs.next + 1 .. last
      BY <3>1 DEF ReadOn
    <3>3. rhs.next \in pos .. last
      BY <1>1, <2>1, <3>2
    <3> HIDE DEF rhs
    <3>4. r = [loadouts |-> r.loadouts, next |-> r.next] /\ r.next = rhs.next
      BY <2>2, <2>3
    <3> QED
      BY <3>3, <3>4 DEF ReadOn, r
  <2> QED
    BY <1>4, <2>2, <2>3 DEF r
<1> QED
  BY <1>3, <1>4, <1>5

\* The rules look at what they make of later positions only.
LEMMA RulesLookAhead ==
  ASSUME NEW tokens \in Seq(Token), NEW parsed, NEW other, NEW pos \in 1 .. Len(tokens) + 1,
         \A p \in pos + 1 .. Len(tokens) + 1 :
           /\ ReadOn(tokens, parsed[p].and, p) /\ ReadOn(tokens, parsed[p].or, p)
           /\ other[p] = parsed[p]
  PROVE  LET lhs == ParseAnd(tokens, Vars, parsed, pos)
         IN  /\ ParseAnd(tokens, Vars, other, pos) = lhs
             /\ ParseOr(tokens, other, lhs) = ParseOr(tokens, parsed, lhs)
<1> DEFINE last == Len(tokens) + 1
           factor == ParseFactor(tokens, Vars, parsed, pos)
           lhs == ParseAnd(tokens, Vars, parsed, pos)
<1>1. last \in Nat /\ pos \in Nat /\ pos <= last /\ DOMAIN tokens = 1 .. last - 1
  OBVIOUS
<1>2. \A p \in Nat \ {0} : At(tokens, p) # ")" => p + 1 \in 1 .. last
  BY <1>1 DEF At
<1>3. factor.next \in pos .. last /\ lhs.next \in pos .. last
  BY RulesReadOn DEF ReadOn
<1>4. ParseFactor(tokens, Vars, other, pos) = factor
  <2>1. CASE At(tokens, pos) = "("
    <3>1. pos + 1 \in pos + 1 .. last
      BY <1>1, <1>2, <2>1
    <3>2. other[pos + 1] = parsed[pos + 1]
      BY <3>1
    <3> QED
      BY <3>2, Zenon DEF ParseFactor
  <2>2. CASE At(tokens, pos) # "("
    <3>1. CASE At(tokens, pos) \notin Operator
      BY <2>2, <3>1, Zenon DEF ParseFactor
    <3>2. CASE At(tokens, pos) \in Operator
      BY <2>2, <3>2, Zenon DEF ParseFactor
    <3> QED
      BY <3>1, <3>2
  <2> QED
    BY <2>1, <2>2
<1>5. ParseAnd(tokens, Vars, other, pos) = lhs
  <2>1. CASE At(tokens, factor.next) = "&"
    <3>1. factor.next + 1 \in pos + 1 .. last
      <4> HIDE DEF factor
      <4> QED
        BY <1>1, <1>2, <1>3, <2>1
    <3>2. other[factor.next + 1] = parsed[factor.next + 1]
      BY <3>1
    <3> QED
      BY <1>4, <3>2, Zenon DEF ParseAnd
  <2>2. CASE At(tokens, factor.next) # "&"
    BY <1>4, <2>2, Zenon DEF ParseAnd
  <2> QED
    BY <2>1, <2>2
<1>6. ParseOr(tokens, other, lhs) = ParseOr(tokens, parsed, lhs)
  <2> HIDE DEF lhs
  <2>1. CASE At(tokens, lhs.next) = "|"
    <3>1. lhs.next + 1 \in pos + 1 .. last
      BY <1>1, <1>2, <1>3, <2>1
    <3>2. other[lhs.next + 1] = parsed[lhs.next + 1]
      BY <3>1
    <3> QED
      BY <3>2, Zenon DEF ParseOr
  <2>2. CASE At(tokens, lhs.next) # "|"
    BY <2>2, Zenon DEF ParseOr
  <2> QED
    BY <2>1, <2>2
<1> QED
  BY <1>5, <1>6

LEMMA LeastNumber ==
  ASSUME NEW T \in SUBSET Nat, T # {}
  PROVE  \E n \in T : \A m \in T : n <= m
<1>1. PICK n \in T : \A m \in T : <<m, n>> \notin OpToRel(<, Nat)
  BY NatLessThanWellFounded, WFMin
<1>2. \A m \in T : ~(m < n)
  BY <1>1 DEF OpToRel
<1> QED
  BY <1>2

Rules(tokens, parsed, pos) ==
  LET lhs == ParseAnd(tokens, Vars, parsed, pos)
  IN  [and |-> lhs, or |-> ParseOr(tokens, parsed, lhs)]

\* parsed is right from a position on.
ParsesFrom(tokens, parsed, from) ==
  /\ DOMAIN parsed = 1 .. Len(tokens) + 1
  /\ parsed = [pos \in 1 .. Len(tokens) + 1 |-> parsed[pos]]
  /\ \A pos \in from .. Len(tokens) + 1 :
       /\ parsed[pos] = Rules(tokens, parsed, pos)
       /\ ReadOn(tokens, parsed[pos].and, pos) /\ ReadOn(tokens, parsed[pos].or, pos)

LEMMA ParsesOneMore ==
  ASSUME NEW tokens \in Seq(Token), NEW parsed, NEW from \in 1 .. Len(tokens) + 1,
         ParsesFrom(tokens, parsed, from + 1)
  PROVE  \E other : ParsesFrom(tokens, other, from)
<1> DEFINE last == Len(tokens) + 1
           rules == Rules(tokens, parsed, from)
           other == [pos \in 1 .. last |-> IF pos = from THEN rules ELSE parsed[pos]]
<1>1. last \in Nat /\ from \in Nat /\ from <= last
  OBVIOUS
<1>2. \A p \in from + 1 .. last :
        /\ parsed[p] = Rules(tokens, parsed, p)
        /\ ReadOn(tokens, parsed[p].and, p) /\ ReadOn(tokens, parsed[p].or, p)
  BY DEF ParsesFrom
<1>3. \A p \in from + 1 .. last : other[p] = parsed[p]
  BY <1>1
<1>4. other[from] = rules
  OBVIOUS
<1> HIDE DEF other
<1>5. ASSUME NEW pos \in from .. last
      PROVE  Rules(tokens, other, pos) = Rules(tokens, parsed, pos)
  <2>1. pos \in 1 .. last /\ \A p \in pos + 1 .. last : p \in from + 1 .. last
    BY <1>1
  <2>2. \A p \in pos + 1 .. last :
          /\ ReadOn(tokens, parsed[p].and, p) /\ ReadOn(tokens, parsed[p].or, p)
          /\ other[p] = parsed[p]
    BY <1>2, <1>3, <2>1
  <2> QED
    BY <2>1, <2>2, RulesLookAhead DEF Rules
<1>6. ReadOn(tokens, rules.and, from) /\ ReadOn(tokens, rules.or, from)
  <2>1. \A p \in from + 1 .. last : ReadOn(tokens, parsed[p].and, p) /\ ReadOn(tokens, parsed[p].or, p)
    BY <1>2
  <2> QED
    BY <2>1, RulesReadOn DEF Rules
<1>7. ASSUME NEW pos \in from .. last
      PROVE  /\ other[pos] = Rules(tokens, other, pos)
             /\ ReadOn(tokens, other[pos].and, pos) /\ ReadOn(tokens, other[pos].or, pos)
  <2>1. CASE pos = from
    <3> HIDE DEF rules
    <3>1. other[pos] = rules /\ Rules(tokens, other, pos) = rules
      BY <1>4, <1>5, <2>1 DEF rules
    <3> QED
      BY <1>6, <2>1, <3>1
  <2>2. CASE pos # from
    <3>1. pos \in from + 1 .. last
      BY <1>1, <2>2
    <3> QED
      BY <1>2, <1>3, <1>5, <3>1
  <2> QED
    BY <2>1, <2>2
<1>8. DOMAIN other = 1 .. last /\ other = [pos \in 1 .. last |-> other[pos]]
  BY DEF other
<1> QED
  BY <1>7, <1>8 DEF ParsesFrom

\* The rules can be followed to the end on any tokens at all, well formed or not: no rule
\* is ever asked again for what it is still working out (parse_or, parse_and, parse_factor).
THEOREM ParsingEnds ==
  ASSUME NEW tokens \in Seq(Token)
  PROVE  \E parsed : ParsesFrom(tokens, parsed, 1)
<1> DEFINE last == Len(tokens) + 1
           Good(n) == \E parsed : ParsesFrom(tokens, parsed, n)
           Bad == {k \in Nat : k <= last /\ ~Good(last + 1 - k)}
<1>1. last \in Nat
  OBVIOUS
<1>2. SUFFICES Bad = {}
  <2>1. last + 1 - last = 1 /\ last <= last
    BY <1>1
  <2> HIDE DEF Good
  <2>2. Good(last + 1 - last)
    BY <1>1, <1>2, <2>1
  <2> QED
    BY <2>1, <2>2 DEF Good
<1>3. SUFFICES ASSUME Bad # {} PROVE FALSE
  OBVIOUS
<1>4. PICK k \in Bad : \A m \in Bad : k <= m
  <2> HIDE DEF Bad
  <2>1. Bad \in SUBSET Nat
    BY DEF Bad
  <2> QED
    BY <1>3, <2>1, LeastNumber
<1>5. k \in Nat /\ k <= last
  OBVIOUS
<1>6. CASE k = 0
  <2> DEFINE parsed == [pos \in 1 .. last |-> 0]
  <2>1. ParsesFrom(tokens, parsed, last + 1)
    BY <1>1 DEF ParsesFrom
  <2>2. last + 1 - k = last + 1
    BY <1>1, <1>6
  <2> HIDE DEF parsed
  <2>3. Good(last + 1 - k)
    BY <2>1, <2>2
  <2> QED
    BY <2>3
<1>7. CASE k # 0
  <2> DEFINE from == last + 1 - k
  <2>1. k - 1 \in Nat /\ k - 1 <= last /\ ~(k <= k - 1)
    BY <1>1, <1>5, <1>7
  <2>2. from \in 1 .. last /\ last + 1 - (k - 1) = from + 1
    BY <1>1, <1>5, <1>7
  <2>3. k - 1 \notin Bad
    BY <1>4, <2>1
  <2>4. Good(last + 1 - (k - 1))
    <3> HIDE DEF Good
    <3> QED
      BY <2>1, <2>3
  <2>5. Good(from + 1)
    <3> HIDE DEF Good, from
    <3> QED
      BY <2>2, <2>4
  <2> HIDE DEF from
  <2>6. Good(from)
    BY <2>2, <2>5, ParsesOneMore
  <2> QED
    BY <2>6 DEF from
<1> QED
  BY <1>6, <1>7

LEMMA ParsedLoadouts ==
  ASSUME NEW tokens \in Seq(Token)
  PROVE  \E parsed : /\ Parses(tokens, parsed)
                     /\ LoadoutsWithVars(tokens, Vars) = parsed[1].or.loadouts
<1> DEFINE Step(h) == [pos \in 1 .. Len(tokens) + 1 |->
                         LET lhs == ParseAnd(tokens, Vars, h, pos)
                         IN  [and |-> lhs, or |-> ParseOr(tokens, h, lhs)]]
           parsed == CHOOSE h : h = Step(h)
<1>1. LoadoutsWithVars(tokens, Vars) = parsed[1].or.loadouts
  BY DEF LoadoutsWithVars
<1>2. PICK h : ParsesFrom(tokens, h, 1)
  BY ParsingEnds
<1>3. h = Step(h)
  BY <1>2 DEF ParsesFrom, Rules
<1>4. parsed = Step(parsed)
  BY <1>3
<1>5. Parses(tokens, parsed)
  <2> HIDE DEF parsed
  <2>1. ASSUME NEW pos \in 1 .. Len(tokens) + 1
        PROVE  /\ parsed[pos].and = ParseAnd(tokens, Vars, parsed, pos)
               /\ parsed[pos].or = ParseOr(tokens, parsed, ParseAnd(tokens, Vars, parsed, pos))
    BY <1>4
  <2> QED
    BY <2>1 DEF Parses
<1> QED
  BY <1>1, <1>5

\* An expression has tokens, and its parts have fewer.
LEMMA PartsShorter ==
  ASSUME NEW e, NEW f, f.tokens \in Seq(Token), NEW g, g.tokens \in Seq(Token)
  PROVE  /\ e = Grouping(f) => Len(f.tokens) < Len(e.tokens)
         /\ e = Colocation(f, g) \/ e = Alternative(f, g) =>
              Len(f.tokens) < Len(e.tokens) /\ Len(g.tokens) < Len(e.tokens)
<1> DEFINE t == f.tokens
           u == g.tokens
<1>1. e = Grouping(f) => e.tokens = <<"(">> \o t \o <<")">>
  BY DEF Grouping
<1>2. Colocation(f, g).tokens = t \o <<"&">> \o u
  <2>1. Colocation(f, g) =
          [rule |-> "and", tokens |-> t \o <<"&">> \o u, means |-> Unions(f.means, g.means)]
    BY DEF Colocation, Unions
  <2>2. \A rule, x, m : [rule |-> rule, tokens |-> x, means |-> m].tokens = x
    OBVIOUS
  <2> HIDE DEF t, u
  <2> QED
    BY <2>1, <2>2, Zenon
<1>3. Alternative(f, g).tokens = t \o <<"|">> \o u
  BY DEF Alternative
<1>4. t \in Seq(Token) /\ u \in Seq(Token)
  OBVIOUS
<1> HIDE DEF t, u
<1>5. Len(t) \in Nat /\ Len(u) \in Nat
  BY <1>4
<1>6. Len(<<"(">> \o t \o <<")">>) = Len(t) + 2
  BY <1>4
<1>7. \A op \in Token : Len(t \o <<op>> \o u) = Len(t) + 1 + Len(u)
  BY <1>4
<1>8. Len(t \o <<"&">> \o u) = Len(t) + 1 + Len(u) /\ Len(t \o <<"|">> \o u) = Len(t) + 1 + Len(u)
  BY <1>7 DEF Token, Operator
<1>9. e = Grouping(f) => Len(t) < Len(e.tokens)
  BY <1>1, <1>5, <1>6
<1>10. e = Colocation(f, g) => Len(t) < Len(e.tokens) /\ Len(u) < Len(e.tokens)
  BY <1>2, <1>5, <1>8
<1>11. e = Alternative(f, g) => Len(t) < Len(e.tokens) /\ Len(u) < Len(e.tokens)
  BY <1>3, <1>5, <1>8
<1> QED
  BY <1>9, <1>10, <1>11 DEF t, u

LEMMA ExpressionTokens ==
  ASSUME NEW e \in Expression
  PROVE  e.tokens \in Seq(Token) /\ Len(e.tokens) \in Nat /\ Len(e.tokens) > 0
<1>1. \A f \in Expression : /\ f.tokens \in Seq(Token) /\ Len(f.tokens) \in Nat
                            /\ MadeOf(f, Id, Vars, Expression)
  BY ExpressionAssumption DEF Token
<1>2. CASE \E id \in Id : e = Identifier(Vars, id)
  BY <1>1, <1>2 DEF Identifier
<1>3. ASSUME NEW f \in Expression, e = Grouping(f) PROVE Len(e.tokens) > 0
  <2>1. Len(f.tokens) < Len(e.tokens)
    BY <1>1, <1>3, PartsShorter
  <2> QED
    BY <1>1, <2>1
<1>4. ASSUME NEW f \in Expression, NEW g \in Expression, e = Colocation(f, g) \/ e = Alternative(f, g)
      PROVE  Len(e.tokens) > 0
  <2>1. Len(f.tokens) < Len(e.tokens)
    BY <1>1, <1>4, PartsShorter
  <2> QED
    BY <1>1, <2>1
<1> QED
  BY <1>1, <1>2, <1>3, <1>4 DEF MadeOf

\* Every expression is read as what it means, wherever it stands.
LEMMA ExpressionsRead ==
  ASSUME NEW tokens \in Seq(Token), NEW parsed, Parses(tokens, parsed)
  PROVE  \A e \in Expression : Reads(e, tokens, parsed)
<1> DEFINE Lost == {e \in Expression : ~Reads(e, tokens, parsed)}
           Lengths == {Len(e.tokens) : e \in Lost}
<1>1. SUFFICES ASSUME Lost # {} PROVE FALSE
  OBVIOUS
<1>2. PICK e \in Lost : \A f \in Lost : Len(e.tokens) <= Len(f.tokens)
  <2>1. Lengths \in SUBSET Nat /\ Lengths # {}
    BY <1>1, ExpressionTokens
  <2>2. PICK n \in Lengths : \A m \in Lengths : n <= m
    <3> HIDE DEF Lengths
    <3> QED
      BY <2>1, LeastNumber
  <2> QED
    BY <2>2
<1>3. \A f \in Expression : /\ f.tokens \in Seq(Token)
                            /\ Len(f.tokens) \in Nat /\ Len(f.tokens) > 0
  BY ExpressionTokens
<1>4. e \in Expression /\ ~Reads(e, tokens, parsed) /\ MadeOf(e, Id, Vars, Expression)
  BY ExpressionAssumption
<1>5. \A f \in Expression : Len(f.tokens) < Len(e.tokens) => Reads(f, tokens, parsed)
  BY <1>2, <1>3
<1>6. CASE \E id \in Id : e = Identifier(Vars, id)
  BY <1>4, <1>6, IdentifierReads
<1>7. ASSUME NEW f \in Expression, e = Grouping(f) PROVE FALSE
  <2>1. Len(f.tokens) < Len(e.tokens) /\ f.tokens \in Seq(Token)
    BY <1>3, <1>7, PartsShorter
  <2>2. Reads(f, tokens, parsed)
    BY <1>5, <2>1
  <2> QED
    BY <1>4, <1>7, <2>1, <2>2, GroupingReads
<1>8. ASSUME NEW f \in Expression, NEW g \in Expression, f.rule # "or", g.rule # "or",
             e = Colocation(f, g)
      PROVE  FALSE
  <2>1. Len(f.tokens) < Len(e.tokens) /\ Len(g.tokens) < Len(e.tokens)
    BY <1>3, <1>8, PartsShorter
  <2>2. Reads(f, tokens, parsed) /\ Reads(g, tokens, parsed)
    BY <1>5, <2>1
  <2> QED
    BY <1>3, <1>4, <1>8, <2>2, ColocationReads
<1>9. ASSUME NEW f \in Expression, NEW g \in Expression, e = Alternative(f, g) PROVE FALSE
  <2>1. Len(f.tokens) < Len(e.tokens) /\ Len(g.tokens) < Len(e.tokens)
    BY <1>3, <1>9, PartsShorter
  <2>2. Reads(f, tokens, parsed) /\ Reads(g, tokens, parsed)
    BY <1>5, <2>1
  <2> QED
    BY <1>3, <1>4, <1>9, <2>2, AlternativeReads
<1> QED
  BY <1>4, <1>6, <1>7, <1>8, <1>9 DEF MadeOf

LEMMA MeaningListed ==
  ASSUME NEW e \in Expression
  PROVE  ColocationConstraints({e.tokens}, Vars) = e.means
<1> DEFINE tokens == e.tokens
           end == 1 + Len(tokens)
<1>1. tokens \in Seq(Token) /\ Len(tokens) \in Nat /\ Len(tokens) > 0
  BY ExpressionTokens
<1> HIDE DEF tokens
<1>2. PICK parsed : Parses(tokens, parsed) /\ LoadoutsWithVars(tokens, Vars) = parsed[1].or.loadouts
  BY <1>1, ParsedLoadouts
<1>3. Reads(e, tokens, parsed)
  BY <1>1, <1>2, ExpressionsRead
<1>4. Slice(tokens, 1, tokens)
  BY <1>1 DEF Slice
<1>5. 1 \in 1 .. Len(tokens) /\ 1 \in 1 .. Len(tokens) + 1
  BY <1>1
<1>6. ReadAt(e, tokens, parsed, 1)
  BY <1>3, <1>4, <1>5 DEF Reads, tokens
<1>7. At(tokens, end) = ")"
  <2>1. end \notin DOMAIN tokens
    BY <1>1
  <2> QED
    BY <2>1 DEF At
<1> HIDE DEF end
<1>8. parsed[1].or = OrFrom(tokens, parsed, e.means, end)
  <2>1. ParseOr(tokens, parsed, ParseAnd(tokens, Vars, parsed, 1)) = OrFrom(tokens, parsed, e.means, end)
    BY <1>6, <1>7 DEF ReadAt, tokens, end
  <2> QED
    BY <1>2, <1>5, <2>1 DEF Parses
<1>9. parsed[1].or = [loadouts |-> e.means, next |-> end]
  BY <1>7, <1>8 DEF OrFrom
<1>10. LoadoutsWithVars(tokens, Vars) = e.means
  BY <1>2, <1>9
<1> QED
  BY <1>10 DEF ColocationConstraints, tokens

\* The loadouts an inspection lists are those the matrix expression means, however deep it
\* nests & and | and parentheses (colocation_constraints).
THEOREM ColocationListed == Spec => []ColocationMatchesExpression
<1>1. ColocationMatchesExpression
  <2>1. ASSUME NEW l \in Loadouts PROVE l.listed = l.means
    <3>1. PICK e \in Expression :
            l = [means |-> e.means, listed |-> ColocationConstraints({e.tokens}, Vars)]
      BY DEF Loadouts
    <3>2. l.means = e.means /\ l.listed = ColocationConstraints({e.tokens}, Vars)
      BY <3>1
    <3> QED
      BY <3>2, MeaningListed
  <2> QED
    BY <2>1 DEF ColocationMatchesExpression
<1> QED
  BY <1>1, PTL

=============================================================================

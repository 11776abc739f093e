---------------------------- MODULE DaemonProofs ----------------------------
(***************************************************************************)
(* Theorems about modules Scheduler, Config and Daemon, for any number of  *)
(* handlers, any configuration that was validated, any overrides and any   *)
(* snapshots.                                                              *)
(*                                                                         *)
(* Ranking picks an element with CHOOSE; that there is one rests on the    *)
(* candidates being finitely many and on Ranks being a total order of      *)
(* them.  The daemon's invariant then carries what was decided, and from   *)
(* what, through the steps of a handler.                                   *)
(***************************************************************************)
EXTENDS Daemon, FiniteSetTheorems, TLAPS

-----------------------------------------------------------------------------
(* Finite sets.                                                            *)

\* The values of a function on a finite set are finitely many.
LEMMA ImageFinite ==
  ASSUME NEW S, IsFiniteSet(S), NEW f, DOMAIN f = S, f = [x \in S |-> f[x]]
  PROVE  IsFiniteSet({f[x] : x \in S})
<1>1. f \in Surjection(S, {f[x] : x \in S})
  BY DEF Surjection
<1> QED
  BY <1>1, FS_Surjection

LEMMA UnionFinite ==
  ASSUME NEW S, IsFiniteSet(S), NEW f, DOMAIN f = S, f = [x \in S |-> f[x]],
         \A x \in S : IsFiniteSet(f[x])
  PROVE  IsFiniteSet(UNION {f[x] : x \in S})
<1>1. IsFiniteSet({f[x] : x \in S})
  BY ImageFinite
<1>2. \A T \in {f[x] : x \in S} : IsFiniteSet(T)
  OBVIOUS
<1> QED
  BY <1>1, <1>2, FS_UNION

LEMMA IndicesFinite ==
  ASSUME NEW T, NEW s \in Seq(T), NEW I \in SUBSET DOMAIN s
  PROVE  IsFiniteSet(I)
<1>1. DOMAIN s = 1 .. Len(s) /\ Len(s) \in Int /\ 1 \in Int
  OBVIOUS
<1>2. IsFiniteSet(1 .. Len(s))
  BY <1>1, FS_Interval
<1>3. I \in SUBSET (1 .. Len(s))
  BY <1>1
<1> QED
  BY <1>2, <1>3, FS_Subset

\* A total and transitive relation has a first element on every finite set.
LEMMA FiniteFirst ==
  ASSUME NEW S, IsFiniteSet(S), S # {}, NEW R,
         \A x, y, z \in S : <<x, y>> \in R /\ <<y, z>> \in R => <<x, z>> \in R,
         \A x, y \in S : x = y \/ <<x, y>> \in R \/ <<y, x>> \in R
  PROVE  \E x \in S : \A y \in S \ {x} : <<x, y>> \in R
<1> DEFINE Bad == {T \in SUBSET S : T # {} /\ ~ \E x \in T : \A y \in T \ {x} : <<x, y>> \in R}
<1>1. SUFFICES ASSUME S \in Bad PROVE FALSE
  OBVIOUS
<1>2. IsWellFoundedOn(StrictSubsetOrdering(S), FiniteSubsetsOf(S))
  BY FS_StrictSubsetOrderingWellFounded
<1>3. FiniteSubsetsOf(S) = SUBSET S
  BY FS_FiniteSubsetsOfFinite
<1>4. \E T \in Bad : \A U \in Bad : <<U, T>> \notin StrictSubsetOrdering(S)
  <2> HIDE DEF Bad
  <2>1. Bad \subseteq FiniteSubsetsOf(S)
    BY <1>3 DEF Bad
  <2> QED
    BY <1>1, <1>2, <2>1, WFMin
<1>5. PICK T \in Bad : \A U \in Bad : <<U, T>> \notin StrictSubsetOrdering(S)
  BY <1>4
<1>6. PICK t \in T : TRUE
  OBVIOUS
<1>7. T \ {t} # {}
  OBVIOUS
<1>8. T \ {t} \notin Bad
  <2>1. <<T \ {t}, T>> \in StrictSubsetOrdering(S)
    BY DEF StrictSubsetOrdering
  <2> QED
    BY <1>5, <2>1
<1>9. PICK u \in T \ {t} : \A y \in (T \ {t}) \ {u} : <<u, y>> \in R
  BY <1>7, <1>8
<1>10. CASE <<u, t>> \in R
  BY <1>9, <1>10
<1>11. CASE <<t, u>> \in R
  BY <1>9, <1>11
<1> QED
  BY <1>9, <1>10, <1>11

-----------------------------------------------------------------------------
(* Candidates.                                                             *)

\* What the snapshots of World have in common.
Snapshots(snaps) ==
  \A r \in DOMAIN snaps :
    r \in Runtime /\ snaps[r].configured \in Seq(Model) /\ snaps[r].requests = <<>>

Cand(c) ==
  /\ c.place \in Nat \X Nat \X Nat
  /\ c.model \in Model
  /\ c.runtime \in Runtime
  /\ c.profile \in ModelProfileConfig
  /\ c.action \in {"reuse_hot", "promote_warm", "cold_load", "defer"}
  /\ c.estimate \in Nat
  /\ c.active \in Nat

\* What a candidate has from the snapshot it was made of.
Grounded(c, snaps) ==
  /\ Available(snaps, c.runtime)
  /\ c.state = StateOn(snaps[c.runtime], c.model)
  /\ c.action = ActionFor(c.state)
  /\ c.estimate = LoadEstimate(c.action, c.profile)
  /\ c.active = Len(snaps[c.runtime].requests)
  /\ c.loadouts = snaps[c.runtime].loadouts
  /\ c.runtime \in Elements(c.profile.runtimes)

LEMMA ProfileFields ==
  ASSUME NEW p \in ModelProfileConfig
  PROVE  /\ p.class \in Option(ParameterClass)
         /\ p.cold \in Option(Nat)
         /\ p.runtimes \in Seq(Runtime)
BY DEF ModelProfileConfig

\* A label is worth at least 1 and at most 100.
LEMMA ClassValueRange ==
  ASSUME NEW label \in Option(ParameterClass)
  PROVE  ParameterClassValue(label) \in 1 .. 100
<1>1. Digits(label) \in Nat
  BY DEF Digits, Option, ParameterClass
<1> QED
  BY <1>1 DEF ParameterClassValue, Clamp

LEMMA SynthesizedTyped ==
  ASSUME NEW m \in Model, NEW r \in Runtime
  PROVE  SynthesizedProfile(m, r) \in ModelProfileConfig
<1>1. IdLabel[m] \in Option(ParameterClass)
  BY SchedulerAssumption
<1>2. ExtractParameterClass(IdLabel[m]) \in Option(ParameterClass)
  BY <1>1 DEF ExtractParameterClass, Option, ParameterClass
<1>3. <<r>> \in Seq(Runtime)
  OBVIOUS
<1> QED
  BY <1>2, <1>3 DEF SynthesizedProfile, ModelProfileConfig, Option

LEMMA EstimateNat ==
  ASSUME NEW p \in ModelProfileConfig, NEW action
  PROVE  LoadEstimate(action, p) \in Nat
<1>1. OrElse(p.cold, 30000) \in Nat /\ OrElse(p.cold, 10000) \in Nat
  BY ProfileFields DEF OrElse, Option
<1>2. OrElse(p.cold, 10000) \div 3 \in Nat
  BY <1>1
<1> QED
  BY <1>1, <1>2 DEF LoadEstimate

LEMMA CandidateTyped ==
  ASSUME NEW place \in Nat \X Nat \X Nat, NEW group, NEW keepHot, NEW m \in Model,
         NEW p \in ModelProfileConfig, NEW r \in Runtime, NEW snap, snap.requests = <<>>
  PROVE  Cand(Candidate(place, group, keepHot, m, p, r, snap))
<1>1. ActionFor(StateOn(snap, m)) \in {"reuse_hot", "promote_warm", "cold_load", "defer"}
  BY DEF ActionFor
<1>2. LoadEstimate(ActionFor(StateOn(snap, m)), p) \in Nat
  BY EstimateNat
<1> QED
  BY <1>1, <1>2 DEF Cand, Candidate

\* Nothing but the budget and the label of the profile need be known of a candidate to
\* have a score.
LEMMA ScoreInt ==
  ASSUME NEW cfg, NEW req, req.budget \in Option(Nat), NEW c, Cand(c)
  PROVE  Score(cfg, req, c) \in Int
<1>1. QualityScore(c.profile) \in Int
  <2>1. c.profile.class \in Option(ParameterClass)
    BY ProfileFields DEF Cand
  <2>2. ParameterClassValue(c.profile.class) \in 1 .. 100
    BY <2>1, ClassValueRange
  <2> QED
    BY <2>2 DEF QualityScore
<1>2. ReuseBonus(c.state) \in Int
  BY DEF ReuseBonus
<1>3. c.estimate \div 1000 \in Int
  BY DEF Cand
<1>4. LatencyImpact(req, c) \in Int
  BY DEF LatencyImpact, Option, Cand
<1>5. \A total, used, required : DimensionImpact(c, total, used, required) \in Int
  BY DEF DimensionImpact
<1>6. PressureImpact(c) \in Int
  BY <1>5 DEF PressureImpact, Cand
<1> QED
  BY <1>1, <1>2, <1>3, <1>4, <1>6 DEF Score

\* Ranks is a total order of candidates at different places.
LEMMA RanksOrder ==
  ASSUME NEW cfg, NEW req, req.budget \in Option(Nat), NEW S, \A c \in S : Cand(c),
         \A c, d \in S : c.place = d.place => c = d
  PROVE  /\ \A c, d, e \in S :
              Ranks(cfg, req, c, d) /\ Ranks(cfg, req, d, e) => Ranks(cfg, req, c, e)
         /\ \A c, d \in S : c = d \/ Ranks(cfg, req, c, d) \/ Ranks(cfg, req, d, c)
<1>1. \A c \in S : Score(cfg, req, c) \in Int /\ c.place \in Nat \X Nat \X Nat
  BY ScoreInt DEF Cand
<1>2. ASSUME NEW p \in Nat \X Nat \X Nat, NEW q \in Nat \X Nat \X Nat, NEW s \in Nat \X Nat \X Nat
      PROVE  /\ Before(p, q) /\ Before(q, s) => Before(p, s)
             /\ p = q \/ Before(p, q) \/ Before(q, p)
  BY DEF Before
<1>3. ASSUME NEW c \in S, NEW d \in S, NEW e \in S, Ranks(cfg, req, c, d), Ranks(cfg, req, d, e)
      PROVE  Ranks(cfg, req, c, e)
  BY <1>1, <1>2, <1>3 DEF Ranks
<1>4. ASSUME NEW c \in S, NEW d \in S, c # d
      PROVE  Ranks(cfg, req, c, d) \/ Ranks(cfg, req, d, c)
  BY <1>1, <1>2, <1>4 DEF Ranks
<1> QED
  BY <1>3, <1>4

\* The slots of a domain are finitely many, each of a model of a defined group.
LEMMA SlotsFinite ==
  ASSUME NEW cfg, AnemoiConfig(cfg), NEW d \in DOMAIN cfg.domains
  PROVE  /\ IsFiniteSet(Slots(cfg, d))
         /\ \A slot \in Slots(cfg, d) :
              /\ slot \in Nat \X Nat
              /\ GroupAt(cfg, d, slot) \in DOMAIN cfg.groups
              /\ ModelAt(cfg, d, slot) \in Model
<1> DEFINE rosters == cfg.domains[d].rosters
           I == {i \in DOMAIN rosters : rosters[i] \in DOMAIN cfg.groups}
           row == [i \in I |-> {<<i, j>> : j \in DOMAIN cfg.groups[rosters[i]].models}]
<1>1. rosters \in Seq(STRING)
  BY DEF AnemoiConfig
<1>2. I \subseteq Nat
  BY <1>1
<1>3. IsFiniteSet(I)
  BY <1>1, IndicesFinite
<1>4. \A i \in I : cfg.groups[rosters[i]].models \in Seq(Model)
  BY DEF AnemoiConfig, ResidencyGroupConfig
<1>5. ASSUME NEW i \in I PROVE IsFiniteSet(row[i])
  <2> DEFINE J == DOMAIN cfg.groups[rosters[i]].models
             pair == [j \in J |-> <<i, j>>]
  <2>1. IsFiniteSet(J)
    BY <1>4, IndicesFinite
  <2>2. row[i] = {pair[j] : j \in J}
    OBVIOUS
  <2>3. IsFiniteSet({pair[j] : j \in J})
    <3> HIDE DEF J
    <3> QED
      BY <2>1, ImageFinite
  <2> QED
    BY <2>2, <2>3
<1>6. Slots(cfg, d) = UNION {row[i] : i \in I}
  BY DEF Slots
<1>7. IsFiniteSet(UNION {row[i] : i \in I})
  <2> HIDE DEF I
  <2>1. DOMAIN row = I /\ row = [x \in I |-> row[x]]
    OBVIOUS
  <2> HIDE DEF row
  <2> QED
    BY <1>3, <1>5, <2>1, UnionFinite
<1>8. ASSUME NEW slot \in Slots(cfg, d)
      PROVE  /\ slot \in Nat \X Nat
             /\ GroupAt(cfg, d, slot) \in DOMAIN cfg.groups
             /\ ModelAt(cfg, d, slot) \in Model
  <2>1. PICK i \in I : slot \in row[i]
    BY <1>6
  <2>2. PICK j \in DOMAIN cfg.groups[rosters[i]].models : slot = <<i, j>>
    BY <2>1
  <2>3. i \in Nat /\ j \in Nat
    BY <1>2, <1>4
  <2>4. cfg.groups[rosters[i]].models[j] \in Model
    BY <1>4
  <2> QED
    BY <2>2, <2>3, <2>4 DEF GroupAt, ModelAt
<1> QED
  BY <1>6, <1>7, <1>8

LEMMA LiveCandidatesSound ==
  ASSUME NEW req, NEW snaps, Snapshots(snaps), NEW r, Available(snaps, r)
  PROVE  LET S == LiveCandidates(req, snaps, r)
         IN  /\ IsFiniteSet(S)
             /\ \A c \in S : /\ Cand(c)
                             /\ Grounded(c, snaps)
                             /\ c.runtime = r
                             /\ c.profile = SynthesizedProfile(c.model, r)
             /\ \A c, d \in S : c.place = d.place => c = d
<1> DEFINE configured == snaps[r].configured
           cand == [j \in DOMAIN configured |->
                      Candidate(<<1, j, 1>>, "live", FALSE, configured[j],
                                SynthesizedProfile(configured[j], r), r, snaps[r])]
           S == LiveCandidates(req, snaps, r)
<1>1. configured \in Seq(Model) /\ r \in Runtime /\ snaps[r].requests = <<>>
  BY DEF Snapshots, Available
<1>2. DOMAIN configured = 1 .. Len(configured) /\ Len(configured) \in Nat
  BY <1>1
<1>3. S \subseteq {cand[j] : j \in DOMAIN configured}
  BY DEF LiveCandidates
<1>4. ASSUME NEW j \in DOMAIN configured
      PROVE  /\ Cand(cand[j])
             /\ Grounded(cand[j], snaps)
             /\ cand[j].place = <<1, j, 1>>
             /\ cand[j].runtime = r
             /\ cand[j].model = configured[j]
             /\ cand[j].profile = SynthesizedProfile(configured[j], r)
  <2>1. configured[j] \in Model /\ j \in Nat
    BY <1>1, <1>2
  <2>2. SynthesizedProfile(configured[j], r) \in ModelProfileConfig
    BY <1>1, <2>1, SynthesizedTyped
  <2>3. Cand(cand[j])
    BY <1>1, <2>1, <2>2, CandidateTyped
  <2>4. r \in Elements(SynthesizedProfile(configured[j], r).runtimes)
    <3>1. SynthesizedProfile(configured[j], r).runtimes = <<r>>
      BY DEF SynthesizedProfile
    <3>2. 1 \in DOMAIN <<r>> /\ <<r>>[1] = r
      OBVIOUS
    <3> QED
      BY <3>1, <3>2 DEF Elements
  <2>5. Grounded(cand[j], snaps)
    BY <2>4 DEF Candidate, Grounded
  <2> QED
    BY <2>3, <2>5 DEF Candidate
<1>5. IsFiniteSet({cand[j] : j \in DOMAIN configured})
  <2>1. IsFiniteSet(DOMAIN configured)
    BY <1>1, IndicesFinite
  <2>2. DOMAIN cand = DOMAIN configured /\ cand = [x \in DOMAIN configured |-> cand[x]]
    OBVIOUS
  <2> HIDE DEF cand
  <2> QED
    BY <2>1, <2>2, ImageFinite
<1>6. IsFiniteSet(S)
  <2> HIDE DEF S, cand
  <2> QED
    BY <1>3, <1>5, FS_Subset
<1>7. ASSUME NEW c \in S, NEW d \in S, c.place = d.place
      PROVE  c = d
  <2> HIDE DEF S, cand, configured
  <2>1. PICK i \in DOMAIN configured : c = cand[i]
    BY <1>3
  <2>2. PICK j \in DOMAIN configured : d = cand[j]
    BY <1>3
  <2>3. <<1, i, 1>> = <<1, j, 1>>
    BY <1>4, <1>7, <2>1, <2>2
  <2> QED
    BY <2>1, <2>2, <2>3
<1>8. \A c \in S : /\ Cand(c) /\ Grounded(c, snaps) /\ c.runtime = r
                   /\ c.profile = SynthesizedProfile(c.model, r)
  <2> HIDE DEF S, cand, configured
  <2> QED
    BY <1>3, <1>4
<1> QED
  BY <1>6, <1>7, <1>8

LEMMA RosterCandidatesSound ==
  ASSUME NEW cfg, AnemoiConfig(cfg), NEW req, req.domain \in DOMAIN cfg.domains,
         NEW snaps, Snapshots(snaps)
  PROVE  LET S == RosterCandidates(cfg, req, snaps)
         IN  /\ IsFiniteSet(S)
             /\ \A c \in S : /\ Cand(c)
                             /\ Grounded(c, snaps)
                             /\ c.model \in DOMAIN cfg.models
                             /\ c.profile = cfg.models[c.model]
             /\ \A c, d \in S : c.place = d.place => c = d
<1> DEFINE U == {s \in Slots(cfg, req.domain) : Usable(cfg, req, s)}
           cands == [s \in U |->
                       {RosterCandidate(cfg, req, snaps, s, k) : k \in Places(cfg, req, snaps, s)}]
           S == RosterCandidates(cfg, req, snaps)
<1>1. S = UNION {cands[s] : s \in U}
  BY DEF RosterCandidates
<1>2. IsFiniteSet(U)
  BY SlotsFinite, FS_Subset
<1>3. ASSUME NEW s \in U
      PROVE  /\ s \in Nat \X Nat
             /\ ModelAt(cfg, req.domain, s) \in DOMAIN cfg.models \cap Model
             /\ cfg.models[ModelAt(cfg, req.domain, s)] \in ModelProfileConfig
             /\ cfg.models[ModelAt(cfg, req.domain, s)].runtimes \in Seq(Runtime)
  <2>1. s \in Nat \X Nat /\ ModelAt(cfg, req.domain, s) \in Model
    BY SlotsFinite
  <2>2. ModelAt(cfg, req.domain, s) \in DOMAIN cfg.models
    BY DEF Usable
  <2> QED
    BY <2>1, <2>2, ProfileFields DEF AnemoiConfig
<1>4. ASSUME NEW s \in U, NEW k \in Places(cfg, req, snaps, s)
      PROVE  /\ Cand(RosterCandidate(cfg, req, snaps, s, k))
             /\ Grounded(RosterCandidate(cfg, req, snaps, s, k), snaps)
             /\ RosterCandidate(cfg, req, snaps, s, k).place = <<s[1], s[2], k>>
             /\ RosterCandidate(cfg, req, snaps, s, k).model = ModelAt(cfg, req.domain, s)
             /\ RosterCandidate(cfg, req, snaps, s, k).profile
                  = cfg.models[ModelAt(cfg, req.domain, s)]
  <2> DEFINE m == ModelAt(cfg, req.domain, s)
             r == cfg.models[m].runtimes[k]
  <2>1. k \in DOMAIN cfg.models[m].runtimes /\ Available(snaps, r)
    BY DEF Places
  <2>2. k \in Nat /\ r \in Runtime /\ snaps[r].requests = <<>>
    BY <1>3, <2>1 DEF Snapshots, Available
  <2>3. <<s[1], s[2], k>> \in Nat \X Nat \X Nat
    BY <1>3, <2>2
  <2>4. \A group, keepHot :
          Cand(Candidate(<<s[1], s[2], k>>, group, keepHot, m, cfg.models[m], r, snaps[r]))
    BY <1>3, <2>2, <2>3, CandidateTyped
  <2>5. Cand(RosterCandidate(cfg, req, snaps, s, k))
    BY <2>4 DEF RosterCandidate
  <2>6. Grounded(RosterCandidate(cfg, req, snaps, s, k), snaps)
    BY <2>1 DEF RosterCandidate, Candidate, Grounded, Elements
  <2> QED
    BY <2>5, <2>6 DEF RosterCandidate, Candidate
<1>5. ASSUME NEW s \in U PROVE IsFiniteSet(cands[s])
  <2> DEFINE P == Places(cfg, req, snaps, s)
             cand == [k \in P |-> RosterCandidate(cfg, req, snaps, s, k)]
             runtimes == cfg.models[ModelAt(cfg, req.domain, s)].runtimes
  <2>1. P \subseteq DOMAIN runtimes
    BY DEF Places
  <2>2. runtimes \in Seq(Runtime)
    BY <1>3
  <2>3. IsFiniteSet(P)
    <3> HIDE DEF P, runtimes
    <3> QED
      BY <2>1, <2>2, IndicesFinite
  <2>4. cands[s] = {cand[k] : k \in P}
    OBVIOUS
  <2>5. DOMAIN cand = P /\ cand = [x \in P |-> cand[x]]
    OBVIOUS
  <2> HIDE DEF P, cand, cands
  <2> QED
    BY <2>3, <2>4, <2>5, ImageFinite
<1>6. IsFiniteSet(S)
  <2>1. DOMAIN cands = U /\ cands = [x \in U |-> cands[x]]
    OBVIOUS
  <2> HIDE DEF U, cands, S
  <2> QED
    BY <1>1, <1>2, <1>5, <2>1, UnionFinite
<1>7. \A c \in S : \E s \in U : \E k \in Places(cfg, req, snaps, s) :
        c = RosterCandidate(cfg, req, snaps, s, k)
  BY <1>1
<1>8. ASSUME NEW c \in S, NEW d \in S, c.place = d.place
      PROVE  c = d
  <2> HIDE DEF S, U
  <2>1. PICK s \in U : \E k \in Places(cfg, req, snaps, s) : c = RosterCandidate(cfg, req, snaps, s, k)
    BY <1>7
  <2>2. PICK k \in Places(cfg, req, snaps, s) : c = RosterCandidate(cfg, req, snaps, s, k)
    BY <2>1
  <2>3. PICK t \in U : \E l \in Places(cfg, req, snaps, t) : d = RosterCandidate(cfg, req, snaps, t, l)
    BY <1>7
  <2>4. PICK l \in Places(cfg, req, snaps, t) : d = RosterCandidate(cfg, req, snaps, t, l)
    BY <2>3
  <2>5. <<s[1], s[2], k>> = <<t[1], t[2], l>>
    BY <1>4, <1>8, <2>2, <2>4
  <2>6. s = t /\ k = l
    BY <1>3, <2>5
  <2> QED
    BY <2>2, <2>4, <2>6
<1>9. \A c \in S : /\ Cand(c) /\ Grounded(c, snaps) /\ c.model \in DOMAIN cfg.models
                   /\ c.profile = cfg.models[c.model]
  <2> HIDE DEF S, U
  <2> QED
    BY <1>3, <1>4, <1>7
<1> QED
  BY <1>6, <1>8, <1>9

\* What a decision starts from.
Decidable(cfg, req, snaps) ==
  /\ AnemoiConfig(cfg)
  /\ req.budget \in Option(Nat)
  /\ Snapshots(snaps)
  /\ ~GenerationFails(cfg, req, snaps)

LEMMA CandidatesSound ==
  ASSUME NEW cfg, NEW req, NEW snaps, Decidable(cfg, req, snaps)
  PROVE  LET S == Candidates(cfg, req, snaps)
         IN  /\ IsFiniteSet(S)
             /\ \A c \in S : /\ Cand(c) /\ Grounded(c, snaps)
                             /\ c.profile = ProfileOf(cfg, req, c.model, c.runtime)
             /\ \A c, d \in S : c.place = d.place => c = d
<1> USE DEF Decidable
<1>1. req.domain \in DOMAIN cfg.domains
  BY DEF GenerationFails
<1>2. CASE LiveRuntime(cfg, req) = None
  BY <1>1, <1>2, RosterCandidatesSound DEF Candidates, ProfileOf
<1>3. CASE LiveRuntime(cfg, req) # None
  <2> DEFINE r == LiveRuntime(cfg, req)
  <2>1. r \in DOMAIN snaps
    BY <1>3 DEF GenerationFails
  <2>2. CASE snaps[r].available
    <3>1. Candidates(cfg, req, snaps) = LiveCandidates(req, snaps, r)
      BY <1>3, <2>2 DEF Candidates
    <3>2. Available(snaps, r)
      BY <2>1, <2>2 DEF Available
    <3>3. \A c \in LiveCandidates(req, snaps, r) : c.profile = ProfileOf(cfg, req, c.model, c.runtime)
      BY <1>3, <3>2, LiveCandidatesSound DEF ProfileOf
    <3> QED
      BY <3>1, <3>2, <3>3, LiveCandidatesSound
  <2>3. CASE ~snaps[r].available
    <3>1. Candidates(cfg, req, snaps) = {}
      BY <1>3, <2>3 DEF Candidates
    <3> QED
      BY <3>1, FS_EmptySet
  <2> QED
    BY <2>2, <2>3
<1> QED
  BY <1>2, <1>3

\* The sort has a first element.
LEMMA FirstChosen ==
  ASSUME NEW cfg, NEW req, NEW snaps, Decidable(cfg, req, snaps),
         NEW S \in SUBSET Candidates(cfg, req, snaps), S # {}
  PROVE  /\ First(cfg, req, S) \in S
         /\ \A d \in S \ {First(cfg, req, S)} : Ranks(cfg, req, First(cfg, req, S), d)
<1> DEFINE R == {p \in S \X S : Ranks(cfg, req, p[1], p[2])}
<1>1. IsFiniteSet(S) /\ \A c \in S : Cand(c)
  BY CandidatesSound, FS_Subset
<1>2. \A c, d \in S : c.place = d.place => c = d
  BY CandidatesSound
<1>3. req.budget \in Option(Nat)
  BY DEF Decidable
<1>4. \A c, d \in S : <<c, d>> \in R <=> Ranks(cfg, req, c, d)
  OBVIOUS
<1>5. /\ \A x, y, z \in S : <<x, y>> \in R /\ <<y, z>> \in R => <<x, z>> \in R
      /\ \A x, y \in S : x = y \/ <<x, y>> \in R \/ <<y, x>> \in R
  <2> HIDE DEF R
  <2> QED
    BY <1>1, <1>2, <1>3, <1>4, RanksOrder
<1>6. \E x \in S : \A y \in S \ {x} : <<x, y>> \in R
  <2> HIDE DEF R
  <2> QED
    BY <1>1, <1>5, FiniteFirst
<1>7. \E x \in S : \A y \in S \ {x} : Ranks(cfg, req, x, y)
  BY <1>4, <1>6
<1> QED
  BY <1>7 DEF First

\* Of any of the candidates exactly one ranks before all the others: what is selected depends on
\* the configuration's lists and the scores, and on no map's iteration order (Scheduler::decide,
\* a stable sort of the candidates in the order they were generated in).
THEOREM ChoiceUnique ==
  ASSUME NEW cfg, NEW req, NEW snaps, Decidable(cfg, req, snaps),
         NEW S \in SUBSET Candidates(cfg, req, snaps), S # {}
  PROVE  /\ \E c \in S : \A d \in S \ {c} : Ranks(cfg, req, c, d)
         /\ \A c, e \in S :
              /\ \A d \in S \ {c} : Ranks(cfg, req, c, d)
              /\ \A d \in S \ {e} : Ranks(cfg, req, e, d)
              => c = e
<1>1. \E c \in S : \A d \in S \ {c} : Ranks(cfg, req, c, d)
  BY FirstChosen
<1>2. /\ \A c \in S : Cand(c)
      /\ \A c, d \in S : c.place = d.place => c = d
      /\ req.budget \in Option(Nat)
  BY CandidatesSound DEF Decidable
<1>3. ASSUME NEW c \in S PROVE ~Ranks(cfg, req, c, c)
  <2>1. Score(cfg, req, c) \in Int /\ c.place \in Nat \X Nat \X Nat
    BY <1>2, ScoreInt DEF Cand
  <2>2. \A p \in Nat \X Nat \X Nat : ~Before(p, p)
    BY DEF Before
  <2> QED
    BY <2>1, <2>2 DEF Ranks
<1>4. ASSUME NEW c \in S, NEW e \in S, c # e,
             \A d \in S \ {c} : Ranks(cfg, req, c, d), \A d \in S \ {e} : Ranks(cfg, req, e, d)
      PROVE  FALSE
  <2>1. Ranks(cfg, req, c, e) /\ Ranks(cfg, req, e, c)
    BY <1>4
  <2>2. Ranks(cfg, req, c, c)
    BY <1>2, <2>1, RanksOrder
  <2> QED
    BY <1>3, <2>2
<1> QED
  BY <1>1, <1>4

\* So does the choice of the model to stage.
LEMMA LargestChosen ==
  ASSUME NEW cfg, NEW req, NEW snaps, Decidable(cfg, req, snaps),
         NEW S \in SUBSET Candidates(cfg, req, snaps), S # {}
  PROVE  Largest(cfg, req, S) \in S
<1> DEFINE Above(c, d) == \/ QualityScore(c.profile) > QualityScore(d.profile)
                          \/ /\ QualityScore(c.profile) = QualityScore(d.profile)
                             /\ \/ IdOrder[c.model] > IdOrder[d.model]
                                \/ c.model = d.model /\ Ranks(cfg, req, d, c)
           R == {p \in S \X S : Above(p[1], p[2])}
<1>1. IsFiniteSet(S) /\ \A c \in S : Cand(c)
  BY CandidatesSound, FS_Subset
<1>2. \A c, d \in S : c.place = d.place => c = d
  BY CandidatesSound
<1>3. req.budget \in Option(Nat)
  BY DEF Decidable
<1>4. \A c \in S : /\ QualityScore(c.profile) \in Int
                   /\ IdOrder[c.model] \in Int
                   /\ c.model \in Model
  <2> TAKE c \in S
  <2>1. c.profile.class \in Option(ParameterClass) /\ c.model \in Model
    BY <1>1, ProfileFields DEF Cand
  <2>2. ParameterClassValue(c.profile.class) \in 1 .. 100
    BY <2>1, ClassValueRange
  <2> QED
    BY <2>1, <2>2, SchedulerAssumption DEF QualityScore
<1>5. /\ \A c, d, e \in S :
           Ranks(cfg, req, c, d) /\ Ranks(cfg, req, d, e) => Ranks(cfg, req, c, e)
      /\ \A c, d \in S : c = d \/ Ranks(cfg, req, c, d) \/ Ranks(cfg, req, d, c)
  BY <1>1, <1>2, <1>3, RanksOrder
<1>6. ASSUME NEW x \in S, NEW y \in S, NEW z \in S, Above(x, y), Above(y, z)
      PROVE  Above(x, z)
  BY <1>4, <1>5, <1>6
<1>7. ASSUME NEW x \in S, NEW y \in S, x # y
      PROVE  Above(x, y) \/ Above(y, x)
  <2>1. IdOrder[x.model] = IdOrder[y.model] => x.model = y.model
    BY <1>4, SchedulerAssumption
  <2> QED
    BY <1>4, <1>5, <1>7, <2>1
<1>8. \A c, d \in S : <<c, d>> \in R <=> Above(c, d)
  OBVIOUS
<1> HIDE DEF Above
<1>9. /\ \A x, y, z \in S : <<x, y>> \in R /\ <<y, z>> \in R => <<x, z>> \in R
      /\ \A x, y \in S : x = y \/ <<x, y>> \in R \/ <<y, x>> \in R
  <2> HIDE DEF R
  <2> QED
    BY <1>6, <1>7, <1>8
<1>10. \E x \in S : \A y \in S \ {x} : <<x, y>> \in R
  <2> HIDE DEF R
  <2> QED
    BY <1>1, <1>9, FiniteFirst
<1>11. \E x \in S : \A y \in S \ {x} : Above(x, y)
  BY <1>8, <1>10
<1> QED
  BY <1>11 DEF Largest, Above

-----------------------------------------------------------------------------
(* Decisions.                                                              *)

\* Some model could run the request exactly when a candidate meets the floor.
LEMMA RunnableIsEligible ==
  ASSUME NEW cfg, NEW req, NEW snaps, Decidable(cfg, req, snaps)
  PROVE  Runnable(cfg, req, snaps) <=> Eligible(cfg, req, snaps) # {}
<1> DEFINE r == LiveRuntime(cfg, req)
           domain == req.domain
<1>1. domain \in DOMAIN cfg.domains /\ AnemoiConfig(cfg)
  BY DEF GenerationFails, Decidable
<1>2. CASE r # None
  <2>1. r \in DOMAIN snaps
    BY <1>2 DEF GenerationFails, Decidable
  <2>2. CASE ~snaps[r].available
    <3>1. Candidates(cfg, req, snaps) = {}
      BY <1>2, <2>2 DEF Candidates
    <3> QED
      BY <1>2, <2>2, <3>1 DEF Eligible, Runnable
  <2>3. CASE snaps[r].available
    <3> DEFINE configured == snaps[r].configured
    <3>1. Candidates(cfg, req, snaps) = LiveCandidates(req, snaps, r)
      BY <1>2, <2>3 DEF Candidates
    <3>2. \A m : ~ContextRejected(req, SynthesizedProfile(m, r))
      BY DEF ContextRejected, WindowKnown, SynthesizedProfile
    <3>3. \A c \in LiveCandidates(req, snaps, r) : \E j \in DOMAIN configured :
            c.profile = SynthesizedProfile(configured[j], r)
      BY DEF LiveCandidates, Candidate
    <3>4. \A j \in DOMAIN configured : \E c \in LiveCandidates(req, snaps, r) :
            c.profile = SynthesizedProfile(configured[j], r)
      <4> TAKE j \in DOMAIN configured
      <4>1. Candidate(<<1, j, 1>>, "live", FALSE, configured[j],
                      SynthesizedProfile(configured[j], r), r, snaps[r])
              \in LiveCandidates(req, snaps, r)
        BY <3>2 DEF LiveCandidates
      <4> QED
        BY <4>1 DEF Candidate
    <3>5. Runnable(cfg, req, snaps) <=> \E j \in DOMAIN configured :
            MeetsFloor(req, SynthesizedProfile(configured[j], r))
      BY <1>2, <2>3 DEF Runnable, Elements
    <3> QED
      BY <3>1, <3>3, <3>4, <3>5 DEF Eligible
  <2> QED
    BY <2>2, <2>3
<1>3. CASE r = None
  <2> DEFINE rosters == cfg.domains[domain].rosters
             U == {s \in Slots(cfg, domain) : Usable(cfg, req, s)}
  <2>1. Candidates(cfg, req, snaps) = RosterCandidates(cfg, req, snaps)
    BY <1>3 DEF Candidates
  <2>2. ASSUME NEW c \in Eligible(cfg, req, snaps)
        PROVE  Runnable(cfg, req, snaps)
    <3>1. PICK s \in U : \E k \in Places(cfg, req, snaps, s) :
            c = RosterCandidate(cfg, req, snaps, s, k)
      BY <2>1 DEF Eligible, RosterCandidates
    <3>2. PICK k \in Places(cfg, req, snaps, s) : c = RosterCandidate(cfg, req, snaps, s, k)
      BY <3>1
    <3>3. PICK i \in DOMAIN rosters : /\ rosters[i] \in DOMAIN cfg.groups
                                      /\ \E j \in DOMAIN cfg.groups[rosters[i]].models : s = <<i, j>>
      BY DEF Slots
    <3>4. PICK j \in DOMAIN cfg.groups[rosters[i]].models : s = <<i, j>>
      BY <3>3
    <3> DEFINE g == rosters[i]
               m == cfg.groups[g].models[j]
    <3>5. GroupAt(cfg, domain, s) = g /\ ModelAt(cfg, domain, s) = m
      BY <3>4 DEF GroupAt, ModelAt
    <3>6. m \in DOMAIN cfg.models /\ ~ContextRejected(req, cfg.models[m])
      BY <3>5 DEF Usable
    <3>7. c.profile = cfg.models[m]
      BY <3>2, <3>5 DEF RosterCandidate, Candidate
    <3>8. MeetsFloor(req, cfg.models[m])
      BY <3>7 DEF Eligible
    <3>9. \E x \in Elements(cfg.models[m].runtimes) : Available(snaps, x)
      BY <3>5 DEF Places, Elements
    <3>10. g \in Elements(rosters) \cap DOMAIN cfg.groups /\ m \in Elements(cfg.groups[g].models)
      BY <3>3 DEF Elements
    <3> QED
      BY <1>3, <3>6, <3>8, <3>9, <3>10 DEF Runnable
  <2>3. ASSUME Runnable(cfg, req, snaps)
        PROVE  Eligible(cfg, req, snaps) # {}
    <3>1. PICK g \in Elements(rosters) \cap DOMAIN cfg.groups :
            \E m \in Elements(cfg.groups[g].models) \cap DOMAIN cfg.models :
              /\ \E x \in Elements(cfg.models[m].runtimes) : Available(snaps, x)
              /\ ~ContextRejected(req, cfg.models[m])
              /\ MeetsFloor(req, cfg.models[m])
      BY <1>3, <2>3 DEF Runnable
    <3>2. PICK m \in Elements(cfg.groups[g].models) \cap DOMAIN cfg.models :
            /\ \E x \in Elements(cfg.models[m].runtimes) : Available(snaps, x)
            /\ ~ContextRejected(req, cfg.models[m])
            /\ MeetsFloor(req, cfg.models[m])
      BY <3>1
    <3>3. PICK i \in DOMAIN rosters : rosters[i] = g
      BY DEF Elements
    <3>4. PICK j \in DOMAIN cfg.groups[g].models : cfg.groups[g].models[j] = m
      BY DEF Elements
    <3>5. PICK k \in DOMAIN cfg.models[m].runtimes : Available(snaps, cfg.models[m].runtimes[k])
      BY <3>2 DEF Elements
    <3> DEFINE s == <<i, j>>
    <3>6. s \in Slots(cfg, domain)
      BY <3>3, <3>4 DEF Slots
    <3>7. GroupAt(cfg, domain, s) = g /\ ModelAt(cfg, domain, s) = m
      BY <3>3, <3>4 DEF GroupAt, ModelAt
    <3>8. s \in U
      BY <3>2, <3>6, <3>7 DEF Usable
    <3>9. k \in Places(cfg, req, snaps, s)
      BY <3>5, <3>7 DEF Places
    <3>10. RosterCandidate(cfg, req, snaps, s, k) \in RosterCandidates(cfg, req, snaps)
      BY <3>8, <3>9 DEF RosterCandidates
    <3>11. RosterCandidate(cfg, req, snaps, s, k).profile = cfg.models[m]
      BY <3>7 DEF RosterCandidate, Candidate
    <3> QED
      BY <2>1, <3>2, <3>10, <3>11 DEF Eligible
  <2> QED
    BY <2>2, <2>3
<1> QED
  BY <1>2, <1>3

\* The three ways decide ends once candidates could be generated.
LEMMA DecideCases ==
  ASSUME NEW cfg, NEW req, NEW snaps, Decidable(cfg, req, snaps),
         NEW d, d = Decide(cfg, req, snaps)
  PROVE  \/ /\ Eligible(cfg, req, snaps) = {}
            /\ d.action = "deny" /\ d.model = None /\ d.runtime = None /\ d.background = None
         \/ /\ Eligible(cfg, req, snaps) # {}
            /\ d.action = "stage_background"
            /\ \E f \in Fallbacks(cfg, req, snaps) : \E cold \in ColdLarge(cfg, req, snaps) :
                 /\ d.model = f.model /\ d.runtime = f.runtime /\ d.background = cold.model
                 /\ WantsStage(cfg, req, cold) /\ ColocationAdmits(cold, f)
         \/ \E best \in Eligible(cfg, req, snaps) :
              /\ d.action = best.action /\ d.model = best.model /\ d.runtime = best.runtime
              /\ d.background = None
              /\ \A c \in Eligible(cfg, req, snaps) \ {best} : Ranks(cfg, req, best, c)
<1> DEFINE E == Eligible(cfg, req, snaps)
           F == Fallbacks(cfg, req, snaps)
           L == ColdLarge(cfg, req, snaps)
<1>1. ~GenerationFails(cfg, req, snaps)
  BY DEF Decidable
<1>2. /\ E \in SUBSET Candidates(cfg, req, snaps)
      /\ F \in SUBSET Candidates(cfg, req, snaps)
      /\ L \in SUBSET Candidates(cfg, req, snaps)
  BY DEF Eligible, Fallbacks, ColdLarge
<1>3. CASE E = {}
  <2>1. \E x : d = Deny(x)
    BY <1>1, <1>3 DEF Decide
  <2> QED
    BY <1>3, <2>1 DEF Deny
<1>4. CASE E # {} /\ Stages(cfg, req, snaps)
  <2> DEFINE f == First(cfg, req, F)
             cold == Largest(cfg, req, L)
  <2>1. L # {} /\ F # {} /\ WantsStage(cfg, req, cold) /\ ColocationAdmits(cold, f)
    BY <1>4 DEF Stages
  <2>2. f \in F
    <3> HIDE DEF F
    <3> QED
      BY <1>2, <2>1, FirstChosen
  <2>3. cold \in L
    <3> HIDE DEF L
    <3> QED
      BY <1>2, <2>1, LargestChosen
  <2>4. \E score, rejected : d = Decision("stage_background", f, cold.model, score, rejected)
    BY <1>1, <1>4 DEF Decide
  <2>5. /\ d.action = "stage_background" /\ d.model = f.model /\ d.runtime = f.runtime
        /\ d.background = cold.model
    <3> HIDE DEF f, cold
    <3> QED
      BY <2>4 DEF Decision
  <2> HIDE DEF f, cold
  <2> QED
    BY <1>4, <2>1, <2>2, <2>3, <2>5
<1>5. CASE E # {} /\ ~Stages(cfg, req, snaps)
  <2> DEFINE best == First(cfg, req, E)
  <2>1. best \in E /\ \A c \in E \ {best} : Ranks(cfg, req, best, c)
    <3> HIDE DEF E
    <3> QED
      BY <1>2, <1>5, FirstChosen
  <2>2. \E score, rejected : d = Decision(best.action, best, None, score, rejected)
    BY <1>1, <1>5 DEF Decide
  <2>3. /\ d.action = best.action /\ d.model = best.model /\ d.runtime = best.runtime
        /\ d.background = None
    <3> HIDE DEF best
    <3> QED
      BY <2>2 DEF Decision
  <2> HIDE DEF best
  <2> QED
    BY <2>1, <2>3
<1> QED
  BY <1>3, <1>4, <1>5

LEMMA DecideTyped ==
  ASSUME NEW cfg, NEW req, NEW snaps, Decidable(cfg, req, snaps)
  PROVE  LET d == Decide(cfg, req, snaps)
         IN  /\ d.action \in Action
             /\ d.action # "deny" => d.model \in Model /\ d.runtime \in Runtime
             /\ d.action = "deny" => d.model = None
             /\ d.action = "stage_background" => d.background \in Model
<1> DEFINE d == Decide(cfg, req, snaps)
<1>1. \A c \in Candidates(cfg, req, snaps) : Cand(c)
  BY CandidatesSound
<1>2. \A c \in Eligible(cfg, req, snaps) \cup Fallbacks(cfg, req, snaps)
               \cup ColdLarge(cfg, req, snaps) :
        /\ c.action \in {"reuse_hot", "promote_warm", "cold_load", "defer"}
        /\ c.model \in Model
        /\ c.runtime \in Runtime
  BY <1>1 DEF Eligible, Fallbacks, ColdLarge, Cand
<1> HIDE DEF d
<1>3. d = Decide(cfg, req, snaps)
  BY DEF d
<1>4. /\ d.action \in Action
      /\ d.action # "deny" => d.model \in Model /\ d.runtime \in Runtime
      /\ d.action = "deny" => d.model = None
      /\ d.action = "stage_background" => d.background \in Model
  BY <1>2, <1>3, DecideCases DEF Action
<1> QED
  BY <1>3, <1>4

\* On whole classes of up to 100 billions the code's value of a class is its size, so what
\* passes the code's floor is as large as the request asks (parameter_class_value).
LEMMA FloorMeansSize ==
  ASSUME NEW req, NEW profile, MeetsFloor(req, profile)
  PROVE  LargeEnough(req, profile)
<1> SUFFICES ASSUME Measured(profile.class), Measured(req.floor)
             PROVE  SizeOf(profile.class) >= SizeOf(req.floor)
  BY DEF LargeEnough
<1>1. \A label : Measured(label) =>
        ParameterClassValue(label) = SizeOf(label) /\ SizeOf(label) \in 1 .. 100
  BY DEF Measured, SizeOf, ParameterClassValue, Digits, Clamp
<1>2. CASE req.floor = None
  BY <1>1, <1>2 DEF SizeOf
<1>3. CASE req.floor # None
  BY <1>1, <1>3 DEF MeetsFloor, QualityScore
<1> QED
  BY <1>2, <1>3

\* The floor is hard for a model that is loaded or reused: one smaller than it answers only
\* while one that is large enough, and that takes longer to load than the request can wait,
\* is staged.  Classes with a point are left out, as in KeepsFloor.
THEOREM DecideKeepsFloor ==
  ASSUME NEW cfg, NEW req, NEW snaps, Decidable(cfg, req, snaps)
  PROVE  KeepsFloor(Decide(cfg, req, snaps), cfg, req, snaps)
<1> DEFINE d == Decide(cfg, req, snaps)
<1>1. \A c \in Candidates(cfg, req, snaps) :
        Cand(c) /\ Grounded(c, snaps) /\ c.profile = ProfileOf(cfg, req, c.model, c.runtime)
  BY CandidatesSound
<1> HIDE DEF d
<1>2. d = Decide(cfg, req, snaps)
  BY DEF d
<1>3. CASE d.model = None
  BY <1>2, <1>3 DEF KeepsFloor
<1>4. CASE \E best \in Eligible(cfg, req, snaps) : d.model = best.model /\ d.runtime = best.runtime
  <2>1. LargeEnough(req, ProfileOf(cfg, req, d.model, d.runtime))
    BY <1>1, <1>4, FloorMeansSize DEF Eligible
  <2> QED
    BY <1>2, <2>1 DEF KeepsFloor
<1>5. CASE /\ d.action = "stage_background"
           /\ \E cold \in ColdLarge(cfg, req, snaps) :
                d.background = cold.model /\ WantsStage(cfg, req, cold)
  <2>1. PICK cold \in ColdLarge(cfg, req, snaps) :
          d.background = cold.model /\ WantsStage(cfg, req, cold)
    BY <1>5
  <2>2. /\ cold \in Candidates(cfg, req, snaps) /\ MeetsFloor(req, cold.profile)
        /\ cold.action = "cold_load"
    BY DEF ColdLarge, Eligible
  <2>3. /\ cold.runtime \in DOMAIN snaps
        /\ cold.estimate = LoadEstimate("cold_load", cold.profile)
        /\ cold.estimate \in Nat
    BY <1>1, <2>2 DEF Grounded, Available, Cand
  <2>4. req.budget \in Nat /\ cold.estimate > req.budget
    BY <2>1, <2>3 DEF WantsStage, Decidable, Option
  <2>5. cold.profile = ProfileOf(cfg, req, d.background, cold.runtime)
    BY <1>1, <2>1, <2>2
  <2>6. /\ LargeEnough(req, ProfileOf(cfg, req, d.background, cold.runtime))
        /\ LoadEstimate("cold_load", ProfileOf(cfg, req, d.background, cold.runtime)) > req.budget
    BY <2>2, <2>3, <2>4, <2>5, FloorMeansSize
  <2> QED
    BY <1>2, <1>5, <2>3, <2>6 DEF KeepsFloor
<1>6. KeepsFloor(d, cfg, req, snaps)
  BY <1>2, <1>3, <1>4, <1>5, DecideCases
<1> QED
  BY <1>2, <1>6

\* Denied, when no model the domain reaches through its rosters, or its live roster, is on
\* a runtime that is up, fits the context and meets the floor; and only then.
THEOREM DecideDenies ==
  ASSUME NEW cfg, NEW req, NEW snaps, Decidable(cfg, req, snaps)
  PROVE  Decide(cfg, req, snaps).action = "deny" <=> ~Runnable(cfg, req, snaps)
<1> DEFINE d == Decide(cfg, req, snaps)
<1>1. \A c \in Eligible(cfg, req, snaps) : c.action # "deny"
  BY CandidatesSound DEF Eligible, Cand
<1> HIDE DEF d
<1>2. d = Decide(cfg, req, snaps)
  BY DEF d
<1>3. d.action = "deny" <=> Eligible(cfg, req, snaps) = {}
  BY <1>1, <1>2, DecideCases
<1> QED
  BY <1>2, <1>3, RunnableIsEligible

\* Whoever is told to wait for a staged model is answered meanwhile, by a model that is
\* there, and the staged one is cold on a runtime that is up and that it may run on.
THEOREM DecideAnswersMeanwhile ==
  ASSUME NEW cfg, NEW req, NEW snaps, Decidable(cfg, req, snaps)
  PROVE  AnswersMeanwhile(Decide(cfg, req, snaps), cfg, req, snaps)
<1> DEFINE d == Decide(cfg, req, snaps)
<1>1. \A c \in Candidates(cfg, req, snaps) :
        Cand(c) /\ Grounded(c, snaps) /\ c.profile = ProfileOf(cfg, req, c.model, c.runtime)
  BY CandidatesSound
<1> HIDE DEF d
<1>2. d = Decide(cfg, req, snaps)
  BY DEF d
<1>3. CASE d.action # "stage_background"
  BY <1>2, <1>3 DEF AnswersMeanwhile
<1>4. CASE \E f \in Fallbacks(cfg, req, snaps) : \E cold \in ColdLarge(cfg, req, snaps) :
             d.model = f.model /\ d.runtime = f.runtime /\ d.background = cold.model
  <2>1. PICK f \in Fallbacks(cfg, req, snaps) : \E cold \in ColdLarge(cfg, req, snaps) :
          d.model = f.model /\ d.runtime = f.runtime /\ d.background = cold.model
    BY <1>4
  <2>2. PICK cold \in ColdLarge(cfg, req, snaps) : d.background = cold.model
    BY <2>1
  <2>3. f \in Candidates(cfg, req, snaps) /\ f.action \in {"reuse_hot", "promote_warm"}
    BY DEF Fallbacks
  <2>4. cold \in Candidates(cfg, req, snaps) /\ cold.action = "cold_load"
    BY DEF ColdLarge, Eligible
  <2>5. /\ Available(snaps, d.runtime)
        /\ ActionFor(StateOn(snaps[d.runtime], d.model)) \in {"reuse_hot", "promote_warm"}
    BY <1>1, <2>1, <2>3 DEF Grounded
  <2>6. /\ cold.runtime \in DOMAIN snaps
        /\ Available(snaps, cold.runtime)
        /\ ActionFor(StateOn(snaps[cold.runtime], d.background)) = "cold_load"
        /\ cold.runtime \in Elements(ProfileOf(cfg, req, d.background, cold.runtime).runtimes)
    BY <1>1, <2>2, <2>4 DEF Grounded, Available
  <2> QED
    BY <1>2, <2>5, <2>6 DEF AnswersMeanwhile
<1>5. CASE \E best \in Eligible(cfg, req, snaps) : d.action = best.action
  <2>1. d.action # "stage_background"
    BY <1>1, <1>5 DEF Eligible, Cand
  <2> QED
    BY <1>3, <2>1
<1>6. AnswersMeanwhile(d, cfg, req, snaps)
  BY <1>2, <1>3, <1>4, <1>5, DecideCases
<1> QED
  BY <1>2, <1>6

\* Where a model is hotter it scores more, all else equal.
LEMMA HotterScoresMore ==
  ASSUME NEW cfg, NEW req, req.budget \in Option(Nat),
         NEW c, NEW d, Cand(c), Cand(d),
         c.profile = d.profile, c.keep_hot = d.keep_hot, c.active = d.active,
         c.action = ActionFor(c.state), d.action = ActionFor(d.state),
         c.estimate = LoadEstimate(c.action, c.profile),
         d.estimate = LoadEstimate(d.action, d.profile),
         Hotness(c.state) # 0, Hotness(d.state) > Hotness(c.state)
  PROVE  Score(cfg, req, d) > Score(cfg, req, c)
<1> DEFINE full == OrElse(c.profile.cold, 30000)
           warm == OrElse(c.profile.cold, 10000) \div 3
<1>1. full \in Nat /\ warm \in Nat /\ warm <= full
  <2>1. c.profile.cold \in Option(Nat)
    BY ProfileFields DEF Cand
  <2>2. CASE c.profile.cold = None
    BY <2>2 DEF OrElse
  <2>3. CASE c.profile.cold # None
    <3>1. c.profile.cold \in Nat
      BY <2>1, <2>3 DEF Option
    <3>2. full = c.profile.cold /\ warm = c.profile.cold \div 3
      BY <2>3 DEF OrElse
    <3> QED
      BY <3>1, <3>2
  <2> QED
    BY <2>2, <2>3
<1>2. d.state \in {"partial", "loading", "warm_cpu", "hot_gpu", "serving"}
  BY DEF Hotness
<1>3. c.state \in {"cold", "failed", "partial", "loading", "warm_cpu"}
  BY DEF Hotness
<1>4. /\ d.action # "cold_load"
      /\ ReuseBonus(d.state) > ReuseBonus(c.state)
      /\ ReuseBonus(d.state) \in Int /\ ReuseBonus(c.state) \in Int
  <2>1. d.action # "cold_load"
    BY <1>2 DEF ActionFor
  <2>2. ReuseBonus(c.state) = CASE c.state = "warm_cpu" -> 35
                                [] c.state \in {"partial", "loading"} -> 15
                                [] OTHER -> 0
    BY <1>3 DEF ReuseBonus
  <2>3. ReuseBonus(d.state) = CASE d.state = "warm_cpu" -> 35
                                [] d.state \in {"partial", "loading"} -> 15
                                [] OTHER -> 60
    BY <1>2 DEF ReuseBonus
  <2> QED
    BY <1>2, <1>3, <2>1, <2>2, <2>3 DEF Hotness
<1>5. d.estimate <= c.estimate
  <2>1. d.estimate \in {0, warm}
    BY <1>2 DEF ActionFor, LoadEstimate
  <2>2. c.estimate \in {full, warm}
    BY <1>3 DEF ActionFor, LoadEstimate
  <2> QED
    BY <1>1, <2>1, <2>2
<1>6. d.estimate \div 1000 <= c.estimate \div 1000
      /\ d.estimate \div 1000 \in Int /\ c.estimate \div 1000 \in Int
  BY <1>5 DEF Cand
<1>7. LatencyImpact(req, d) >= LatencyImpact(req, c)
      /\ LatencyImpact(req, d) \in Int /\ LatencyImpact(req, c) \in Int
  <2>1. c.estimate \in Nat /\ d.estimate \in Nat
    BY DEF Cand
  <2>2. CASE req.budget = None
    BY <2>2 DEF LatencyImpact
  <2>3. CASE req.budget # None
    <3>1. req.budget \in Nat
      BY <2>3 DEF Option
    <3> QED
      BY <1>5, <2>1, <2>3, <3>1 DEF LatencyImpact
  <2> QED
    BY <2>2, <2>3
<1>8. PressureImpact(d) >= PressureImpact(c)
      /\ PressureImpact(d) \in Int /\ PressureImpact(c) \in Int
  <2>1. \A total, used, required : DimensionImpact(d, total, used, required) = 0
    BY <1>4 DEF DimensionImpact
  <2>2. \A total, used, required : DimensionImpact(c, total, used, required) \in {0, 0 - 10, 0 - 25}
    BY DEF DimensionImpact
  <2>3. d.active = c.active /\ c.active \in Nat
    BY DEF Cand
  <2> QED
    BY <2>1, <2>2, <2>3 DEF PressureImpact
<1>9. QualityScore(c.profile) \in Int
  <2>1. c.profile.class \in Option(ParameterClass)
    BY ProfileFields DEF Cand
  <2>2. ParameterClassValue(c.profile.class) \in 1 .. 100
    BY <2>1, ClassValueRange
  <2> QED
    BY <2>2 DEF QualityScore
<1> QED
  BY <1>4, <1>6, <1>7, <1>8, <1>9 DEF Score

\* Of the runtimes that have a model, the one it is selected on is never the colder.
THEOREM DecideUndominated ==
  ASSUME NEW cfg, NEW req, NEW snaps, Decidable(cfg, req, snaps)
  PROVE  Undominated(Decide(cfg, req, snaps), cfg, req, snaps)
<1> DEFINE d == Decide(cfg, req, snaps)
<1>1. \A c \in Candidates(cfg, req, snaps) :
        Cand(c) /\ Grounded(c, snaps) /\ c.profile = ProfileOf(cfg, req, c.model, c.runtime)
  BY CandidatesSound
<1> HIDE DEF d
<1>2. d = Decide(cfg, req, snaps)
  BY DEF d
<1>3. SUFFICES ASSUME d.model # None, d.action # "stage_background",
                      LiveRuntime(cfg, req) = None,
                      NEW r \in Elements(cfg.models[d.model].runtimes), Available(snaps, r),
                      Hotness(StateOn(snaps[d.runtime], d.model)) # 0
               PROVE  Hotness(StateOn(snaps[r], d.model))
                        <= Hotness(StateOn(snaps[d.runtime], d.model))
  BY <1>2 DEF Undominated
<1>4. PICK best \in Eligible(cfg, req, snaps) :
        /\ d.model = best.model /\ d.runtime = best.runtime
        /\ \A c \in Eligible(cfg, req, snaps) \ {best} : Ranks(cfg, req, best, c)
  BY <1>2, <1>3, DecideCases
<1>5. best \in Candidates(cfg, req, snaps) /\ MeetsFloor(req, best.profile)
  BY DEF Eligible
<1>6. Candidates(cfg, req, snaps) = RosterCandidates(cfg, req, snaps)
  BY <1>3 DEF Candidates
<1> DEFINE U == {s \in Slots(cfg, req.domain) : Usable(cfg, req, s)}
<1>7. PICK s \in U : \E k \in Places(cfg, req, snaps, s) :
        best = RosterCandidate(cfg, req, snaps, s, k)
  BY <1>5, <1>6 DEF RosterCandidates
<1>8. PICK k \in Places(cfg, req, snaps, s) : best = RosterCandidate(cfg, req, snaps, s, k)
  BY <1>7
<1> DEFINE m == ModelAt(cfg, req.domain, s)
           group == GroupAt(cfg, req.domain, s)
<1>9. /\ best.model = m /\ best.profile = cfg.models[m]
      /\ best.keep_hot = cfg.groups[group].keep_hot
  BY <1>8 DEF RosterCandidate, Candidate
<1>10. PICK l \in DOMAIN cfg.models[m].runtimes : cfg.models[m].runtimes[l] = r
  BY <1>4, <1>9 DEF Elements
<1> DEFINE c == RosterCandidate(cfg, req, snaps, s, l)
<1>11. l \in Places(cfg, req, snaps, s)
  BY <1>3, <1>10 DEF Places
<1>12. c \in Candidates(cfg, req, snaps)
  BY <1>6, <1>11 DEF RosterCandidates
<1>13. /\ c.model = m /\ c.profile = cfg.models[m] /\ c.runtime = r
       /\ c.keep_hot = cfg.groups[group].keep_hot
  BY <1>10 DEF RosterCandidate, Candidate
<1> HIDE DEF c, m, group
<1>14. c \in Eligible(cfg, req, snaps)
  BY <1>5, <1>9, <1>12, <1>13 DEF Eligible
<1>15. /\ Cand(c) /\ Cand(best) /\ Grounded(c, snaps) /\ Grounded(best, snaps)
  BY <1>1, <1>5, <1>12
<1>16. /\ c.state = StateOn(snaps[r], d.model)
       /\ best.state = StateOn(snaps[d.runtime], d.model)
       /\ c.action = ActionFor(c.state) /\ best.action = ActionFor(best.state)
       /\ c.estimate = LoadEstimate(c.action, c.profile)
       /\ best.estimate = LoadEstimate(best.action, best.profile)
       /\ c.active = Len(snaps[r].requests) /\ best.active = Len(snaps[d.runtime].requests)
       /\ best.runtime \in DOMAIN snaps /\ r \in DOMAIN snaps
  BY <1>4, <1>9, <1>13, <1>15 DEF Grounded, Available
<1>17. c.active = best.active
  BY <1>4, <1>16 DEF Decidable, Snapshots
<1>18. req.budget \in Option(Nat)
  BY DEF Decidable
<1>19. ASSUME Hotness(c.state) > Hotness(best.state)
       PROVE  FALSE
  <2>1. c # best
    BY <1>19 DEF Hotness
  <2>2. Score(cfg, req, c) > Score(cfg, req, best)
    BY <1>3, <1>9, <1>13, <1>15, <1>16, <1>17, <1>18, <1>19, HotterScoresMore
  <2>3. Ranks(cfg, req, best, c)
    BY <1>4, <1>14, <2>1
  <2>4. Score(cfg, req, c) \in Int /\ Score(cfg, req, best) \in Int
    BY <1>15, <1>18, ScoreInt
  <2> QED
    BY <2>2, <2>3, <2>4 DEF Ranks
<1>20. Hotness(c.state) \in Int /\ Hotness(best.state) \in Int
  BY DEF Hotness
<1> QED
  BY <1>16, <1>19, <1>20

-----------------------------------------------------------------------------
(* The effective configuration.                                            *)

LEMMA MergedProfileTyped ==
  ASSUME NEW base \in ModelProfileConfig, NEW override \in ModelProfileOverride
  PROVE  MergeProfile(base, override) \in ModelProfileConfig
BY DEF MergeProfile, ModelProfileConfig, ModelProfileOverride, OrElse, Option

LEMMA InferredTyped ==
  ASSUME NEW m \in Model
  PROVE  Inferred(m) \in ModelProfileConfig
<1>1. IdLabel[m] \in Option(ParameterClass)
  BY SchedulerAssumption
<1>2. InferredClass(m) \in Option(ParameterClass)
  BY <1>1 DEF InferredClass, ExtractParameterClass, Option, ParameterClass
<1>3. <<>> \in Seq(Runtime)
  OBVIOUS
<1> QED
  BY <1>2, <1>3 DEF Inferred, ModelProfileConfig, Option

\* Overrides of their types on a configuration of its types leave one of its types.
LEMMA EffectiveTyped ==
  ASSUME NEW cfg, AnemoiConfig(cfg), NEW o, GovernanceOverrides(o)
  PROVE  AnemoiConfig(Effective(cfg, o))
<1> DEFINE e == Effective(cfg, o)
<1>1. /\ e.groups = MergedGroups(cfg, o) /\ e.domains = MergedDomains(cfg, o)
      /\ e.models = MergedModels(cfg, o) /\ e.runtimes = cfg.runtimes
      /\ e.continuity = cfg.continuity
  BY DEF Effective
<1> HIDE DEF e
<1>2. DOMAIN e.models \subseteq Model /\ \A m \in DOMAIN e.models : e.models[m] \in ModelProfileConfig
  <2>1. DOMAIN e.models = DOMAIN cfg.models \cup DOMAIN o.profiles
    BY <1>1 DEF MergedModels
  <2>2. DOMAIN e.models \subseteq Model
    BY <2>1 DEF AnemoiConfig, GovernanceOverrides
  <2>3. ASSUME NEW m \in DOMAIN e.models
        PROVE  e.models[m] \in ModelProfileConfig
    <3> DEFINE base == IF m \in DOMAIN cfg.models THEN cfg.models[m] ELSE Inferred(m)
    <3>1. base \in ModelProfileConfig
      BY <2>2, InferredTyped DEF AnemoiConfig
    <3>2. e.models[m] = IF m \in DOMAIN o.profiles THEN MergeProfile(base, o.profiles[m]) ELSE base
      BY <1>1, <2>1 DEF MergedModels
    <3>3. m \in DOMAIN o.profiles => o.profiles[m] \in ModelProfileOverride
      BY DEF GovernanceOverrides
    <3> HIDE DEF base
    <3> QED
      BY <3>1, <3>2, <3>3, MergedProfileTyped
  <2> QED
    BY <2>2, <2>3
<1>3. \A g \in DOMAIN e.groups : e.groups[g] \in ResidencyGroupConfig
  BY <1>1 DEF MergedGroups, AnemoiConfig, GovernanceOverrides
<1>4. \A d \in DOMAIN e.domains :
        e.domains[d].rosters \in Seq(STRING) /\ e.domains[d].live \in Option(Runtime)
  BY <1>1 DEF MergedDomains, AnemoiConfig, GovernanceOverrides
<1>5. AnemoiConfig(e)
  BY <1>1, <1>2, <1>3, <1>4 DEF AnemoiConfig
<1> QED
  BY <1>5 DEF e

LEMMA WorldSnapshots ==
  ASSUME NEW snaps \in World
  PROVE  /\ Snapshots(snaps)
         /\ \A r \in DOMAIN snaps :
              /\ DOMAIN snaps[r].residents \subseteq Model
              /\ \A m \in DOMAIN snaps[r].residents : snaps[r].idle[m] = None
<1>1. \A r \in DOMAIN snaps : r \in DOMAIN Baseline.runtimes /\ Reports(Baseline.runtimes[r], snaps[r])
  BY InputAssumption
<1>2. DOMAIN Baseline.runtimes \subseteq Runtime
  BY BaselineAssumption DEF AnemoiConfig
<1>3. \A r \in DOMAIN snaps :
        /\ snaps[r].configured \in Seq(Model) /\ snaps[r].requests = <<>>
        /\ DOMAIN snaps[r].residents \subseteq Model
        /\ \A m \in DOMAIN snaps[r].residents : snaps[r].idle[m] = None
  BY <1>1 DEF Reports, NothingOfUse
<1> QED
  BY <1>1, <1>2, <1>3 DEF Snapshots

-----------------------------------------------------------------------------
(* The daemon's invariant.                                                 *)

\* x is a handler record.
Shaped(x) ==
  x = [at |-> x.at, kind |-> x.kind, req |-> x.req, id |-> x.id, decision |-> x.decision,
       seen |-> x.seen, plan |-> x.plan]

\* A decision made by decide, not PolicyError.
DecisionOK(d) ==
  /\ d.action \in Action
  /\ d.action # "deny" => d.model \in Model /\ d.runtime \in Runtime
  /\ d.action = "stage_background" => d.background \in Model

\* What was just decided is what decide makes of what was seen.
SeenFaithfully(x) ==
  x.seen # None =>
    /\ Decidable(x.seen.cfg, x.req, x.seen.snaps)
    /\ x.decision = Decide(x.seen.cfg, x.req, x.seen.snaps)

Logged(x) == [id |-> x.id, decision |-> x.decision] \in log

\* The plan x executes is for the decision x made.
PlanFits(x) ==
  /\ x.plan.id = x.id
  /\ x.plan.kind \in {"load", "noop"}
  /\ x.plan.kind = "load" =>
       /\ x.plan.runtime = x.decision.runtime
       /\ x.plan.model \in {x.decision.model, x.decision.background}

HandlerOK(x) ==
  /\ Shaped(x)
  /\ x.at \in HandlerState
  /\ x.id \in Nat /\ x.id <= ids
  /\ x.at # "idle" =>
       x.id # 0 /\ x.kind \in {"decide", "execute", "chat"} /\ x.req.budget \in Option(Nat)
  /\ DecisionOK(x.decision)
  /\ SeenFaithfully(x)
  /\ x.at \in {"planning", "recording plan", "executing", "forwarding"} => Logged(x)
  /\ x.at \in {"recording plan", "executing"} => PlanFits(x)
  /\ x.at = "executing" => x.plan \in plans

IntentRecord ==
  [id : Nat \ {0}, background : Model, target_runtime : Runtime,
   state : {"blocked", "pending", "failed", "completed"}]

\* An eviction that is not forced spares what the baseline protects; one under execution has
\* something left to unload, of whose idle time, as of every resident's, nothing is known.
EvictionOK ==
  /\ eviction = [at |-> eviction.at, id |-> eviction.id, queue |-> eviction.queue,
                 force |-> eviction.force]
  /\ \A e \in eviction.queue :
       e.model \in Model /\ e.runtime \in Runtime /\ (eviction.force \/ ~Protected(e.model))
  /\ eviction.at = "planned" => eviction.queue # {}
  /\ \A e \in eviction.queue : e.idle = None

Inv ==
  /\ GovernanceOverrides(over)
  /\ live \in BOOLEAN
  /\ ids \in Nat /\ ids <= MaxIds
  /\ DOMAIN handler = Handler
  /\ \A h \in Handler : HandlerOK(handler[h])
  /\ intents \in Seq(IntentRecord)
  /\ \A i \in DOMAIN intents : intents[i].id <= ids
  /\ \A entry \in log : entry.id \in 1 .. ids /\ entry.decision.action \in Action
  /\ \A plan \in plans : plan.id \in 1 .. ids /\ plan.kind \in {"load", "noop"}
  /\ EvictionOK
  /\ NoHiddenMutation

LEMMA DenyDecided == DecisionOK(Deny({}))
BY DEF DecisionOK, Deny, Action

LEMMA IdleOK ==
  ASSUME ids \in Nat
  PROVE  HandlerOK(Idle)
BY DenyDecided DEF HandlerOK, Shaped, Idle, HandlerState, SeenFaithfully

\* A step that leaves a handler alone, and only adds ids, log entries and plans, leaves
\* what is known of the handler.
LEMMA HandlerKept ==
  ASSUME NEW x, HandlerOK(x), ids \in Nat, ids' \in Nat, ids <= ids',
         log \subseteq log', plans \subseteq plans'
  PROVE  HandlerOK(x)'
<1>1. x.id \in Nat /\ x.id <= ids'
  <2>1. x.id \in Nat /\ x.id <= ids
    BY DEF HandlerOK
  <2> QED
    BY <2>1
<1>2. Logged(x) => Logged(x)'
  BY DEF Logged
<1>3. x.plan \in plans => x.plan \in plans'
  OBVIOUS
<1>4. /\ Shaped(x)' <=> Shaped(x)
      /\ DecisionOK(x.decision)' <=> DecisionOK(x.decision)
      /\ PlanFits(x)' <=> PlanFits(x)
  BY DEF Shaped, DecisionOK, PlanFits
<1>5. SeenFaithfully(x)' <=> SeenFaithfully(x)
  BY DEF SeenFaithfully
<1> QED
  BY <1>1, <1>2, <1>3, <1>4, <1>5 DEF HandlerOK

\* Likewise for the calls already made.
LEMMA CallsKept ==
  ASSUME NoHiddenMutation, log \subseteq log', plans \subseteq plans', live' = live,
         intents \in Seq(IntentRecord), intents' \in Seq(IntentRecord),
         \A i \in DOMAIN intents :
           /\ i \in DOMAIN intents'
           /\ intents'[i].id = intents[i].id
           /\ intents'[i].background = intents[i].background
           /\ intents'[i].target_runtime = intents[i].target_runtime
           /\ intents[i].state # "pending" => intents'[i].state = intents[i].state,
         NEW c \in calls
  PROVE  (IsMock(c.runtime) \/ live') /\ Accounted(c)'
<1>1. (IsMock(c.runtime) \/ live) /\ Accounted(c)
  BY DEF NoHiddenMutation
<1>2. \A id : Decided(id) \subseteq Decided(id)'
  BY DEF Decided
<1>3. CASE c.by = "execute"
  BY <1>1, <1>2, <1>3 DEF Accounted
<1>4. CASE c.by = "staging"
  <2>1. PICK i \in 1 .. Len(intents) :
          /\ intents[i].id = c.id /\ intents[i].background = c.model
          /\ intents[i].target_runtime = c.runtime
          /\ intents[i].state \in {"failed", "completed"}
    BY <1>1, <1>4 DEF Accounted
  <2>2. i \in DOMAIN intents /\ DOMAIN intents' = 1 .. Len(intents')
    BY <2>1
  <2>3. /\ i \in 1 .. Len(intents')
        /\ intents'[i].id = c.id /\ intents'[i].background = c.model
        /\ intents'[i].target_runtime = c.runtime
        /\ intents'[i].state \in {"failed", "completed"}
    BY <2>1, <2>2
  <2> QED
    BY <1>1, <1>4, <2>3 DEF Accounted
<1>5. CASE c.by = "chat"
  BY <1>1, <1>2, <1>5 DEF Accounted
<1>6. CASE c.by \notin {"execute", "staging", "chat"}
  BY <1>1, <1>6 DEF Accounted
<1> QED
  BY <1>3, <1>4, <1>5, <1>6

\* What a step of a handler must show: its own record, and what it adds.
LEMMA ServeKeeps ==
  ASSUME Inv, NEW h \in Handler, HandlerOK(handler[h])',
         DOMAIN handler' = Handler, \A g \in Handler \ {h} : handler'[g] = handler[g],
         over' = over, live' = live, eviction' = eviction,
         ids' \in Nat, ids <= ids', ids' <= MaxIds,
         log \subseteq log',
         \A entry \in log' \ log : entry.id \in 1 .. ids' /\ entry.decision.action \in Action,
         plans \subseteq plans',
         \A plan \in plans' \ plans : plan.id \in 1 .. ids' /\ plan.kind \in {"load", "noop"},
         intents' = intents \/ \E i \in IntentRecord : i.id <= ids' /\ intents' = Append(intents, i),
         \A c \in calls' \ calls : (IsMock(c.runtime) \/ live) /\ Accounted(c)'
  PROVE  Inv'
<1>1. DOMAIN handler' = Handler /\ \A g \in Handler : HandlerOK(handler[g])'
  <2>1. DOMAIN handler' = Handler
    OBVIOUS
  <2>2. ASSUME NEW g \in Handler PROVE HandlerOK(handler[g])'
    <3>1. CASE g = h
      BY <3>1
    <3>2. CASE g # h
      <4>1. handler'[g] = handler[g]
        BY <3>2
      <4>2. \A x : HandlerOK(x) => HandlerOK(x)'
        BY HandlerKept DEF Inv
      <4>3. HandlerOK(handler[g])
        BY DEF Inv
      <4> QED
        BY <4>1, <4>2, <4>3
    <3> QED
      BY <3>1, <3>2
  <2> QED
    BY <2>1, <2>2
<1>2. /\ intents' \in Seq(IntentRecord)
      /\ \A i \in DOMAIN intents : i \in DOMAIN intents' /\ intents'[i] = intents[i]
      /\ \A i \in DOMAIN intents' : intents'[i].id <= ids'
  <2>1. intents \in Seq(IntentRecord) /\ \A i \in DOMAIN intents : intents[i].id <= ids
    BY DEF Inv
  <2>2. \A i \in DOMAIN intents : intents[i].id \in Nat
    <3>1. \A r \in IntentRecord : r.id \in Nat
      BY DEF IntentRecord
    <3> QED
      BY <2>1, <3>1
  <2>3. CASE intents' = intents
    BY <2>1, <2>2, <2>3 DEF Inv
  <2>4. ASSUME NEW r \in IntentRecord, r.id <= ids', intents' = Append(intents, r)
        PROVE  /\ intents' \in Seq(IntentRecord)
               /\ \A i \in DOMAIN intents : i \in DOMAIN intents' /\ intents'[i] = intents[i]
               /\ \A i \in DOMAIN intents' : intents'[i].id <= ids'
    <3>1. intents' \in Seq(IntentRecord) /\ Len(intents') = Len(intents) + 1
      BY <2>1, <2>4
    <3>2. \A i \in DOMAIN intents : i \in DOMAIN intents' /\ intents'[i] = intents[i]
      BY <2>1, <2>4
    <3>3. \A i \in DOMAIN intents' : i \in DOMAIN intents \/ intents'[i] = r
      BY <2>1, <2>4
    <3> QED
      BY <2>1, <2>2, <2>4, <3>1, <3>2, <3>3 DEF Inv
  <2> QED
    BY <2>3, <2>4
<1>3. NoHiddenMutation'
  <2>1. NoHiddenMutation /\ intents \in Seq(IntentRecord)
    BY DEF Inv
  <2>2. \A c \in calls : (IsMock(c.runtime) \/ live') /\ Accounted(c)'
    BY <1>2, <2>1, CallsKept
  <2> QED
    BY <2>2 DEF NoHiddenMutation
<1>4. EvictionOK'
  BY DEF Inv, EvictionOK
<1>5. /\ \A entry \in log' : entry.id \in 1 .. ids' /\ entry.decision.action \in Action
      /\ \A plan \in plans' : plan.id \in 1 .. ids' /\ plan.kind \in {"load", "noop"}
  <2>1. \A n \in 1 .. ids : n \in 1 .. ids'
    BY DEF Inv
  <2> QED
    BY <2>1 DEF Inv
<1>6. GovernanceOverrides(over)' /\ (live \in BOOLEAN)'
  BY DEF Inv
<1> QED
  BY <1>1, <1>2, <1>3, <1>4, <1>5, <1>6 DEF Inv

LEMMA IdsKept ==
  ASSUME Inv, ids' = ids
  PROVE  ids' \in Nat /\ ids <= ids' /\ ids' <= MaxIds
BY DEF Inv

\* A handler that goes on is what it was, at another place.
LEMMA GoesKeeps ==
  ASSUME Inv, NEW h \in Handler, handler[h].at # "idle", NEW at \in HandlerState \ {"idle"},
         Goes(h, at),
         UNCHANGED <<over, live, ids, intents, eviction, calls>>,
         log \subseteq log',
         \A entry \in log' \ log : entry.id \in 1 .. ids /\ entry.decision.action \in Action,
         plans \subseteq plans',
         \A plan \in plans' \ plans : plan.id \in 1 .. ids /\ plan.kind \in {"load", "noop"},
         at \in {"planning", "recording plan", "executing", "forwarding"} =>
           [id |-> handler[h].id, decision |-> handler[h].decision] \in log',
         at \in {"recording plan", "executing"} => PlanFits(handler[h]),
         at = "executing" => handler[h].plan \in plans'
  PROVE  Inv'
<1> DEFINE x == handler[h]
           y == handler'[h]
<1>1. HandlerOK(x)
  BY DEF Inv
<1>2. Shaped(x)
  BY <1>1 DEF HandlerOK
<1>3. /\ DOMAIN handler' = Handler /\ \A g \in Handler \ {h} : handler'[g] = handler[g]
      /\ y = [x EXCEPT !.at = at, !.seen = None]
  BY DEF Goes, Inv
<1>4. /\ Shaped(y) /\ y.at = at /\ y.seen = None /\ y.kind = x.kind
      /\ y.req = x.req /\ y.id = x.id /\ y.decision = x.decision /\ y.plan = x.plan
  <2> HIDE DEF x, y
  <2>1. y = [x EXCEPT !.at = at, !.seen = None]
    BY <1>3
  <2>2. y = [at |-> at, kind |-> x.kind, req |-> x.req, id |-> x.id, decision |-> x.decision,
             seen |-> None, plan |-> x.plan]
    BY <1>2, <2>1 DEF Shaped
  <2> QED
    BY <2>2 DEF Shaped
<1>5. HandlerOK(handler[h])'
  <2>1. /\ x.id \in Nat /\ x.id <= ids /\ x.id # 0
        /\ x.kind \in {"decide", "execute", "chat"} /\ x.req.budget \in Option(Nat)
        /\ DecisionOK(x.decision)
    BY <1>1 DEF HandlerOK
  <2>2. Shaped(y) /\ y.at \in HandlerState /\ DecisionOK(y.decision)
    BY <1>4, <2>1
  <2>3. SeenFaithfully(y)
    BY <1>4 DEF SeenFaithfully
  <2>4. /\ y.id \in Nat /\ y.id <= ids' /\ y.id # 0
        /\ y.kind \in {"decide", "execute", "chat"} /\ y.req.budget \in Option(Nat)
    BY <1>4, <2>1
  <2>5. y.at \in {"planning", "recording plan", "executing", "forwarding"} => Logged(handler[h])'
    BY <1>4 DEF Logged
  <2>6. y.at \in {"recording plan", "executing"} => PlanFits(y)
    BY <1>4 DEF PlanFits
  <2>7. y.at = "executing" => y.plan \in plans'
    BY <1>4
  <2> QED
    BY <2>2, <2>3, <2>4, <2>5, <2>6, <2>7 DEF HandlerOK
<1>6. over' = over /\ live' = live /\ eviction' = eviction /\ intents' = intents /\ calls' = calls
  OBVIOUS
<1>7. ids' \in Nat /\ ids <= ids' /\ ids' <= MaxIds
  BY IdsKept
<1> HIDE DEF x, y
<1> QED
  BY <1>3, <1>5, <1>6, <1>7, ServeKeeps

\* A handler that is done may have called a runtime on the way.
LEMMA AnswersKeeps ==
  ASSUME Inv, NEW h \in Handler, Answers(h),
         UNCHANGED <<over, live, ids, intents, eviction>>,
         log \subseteq log', plans' = plans,
         \A entry \in log' \ log : entry.id \in 1 .. ids /\ entry.decision.action \in Action,
         \A c \in calls' \ calls : (IsMock(c.runtime) \/ live) /\ Accounted(c)'
  PROVE  Inv'
<1>1. /\ DOMAIN handler' = Handler /\ \A g \in Handler \ {h} : handler'[g] = handler[g]
      /\ handler'[h] = Idle
  BY DEF Answers, Inv
<1>2. HandlerOK(handler[h])'
  <2>1. HandlerOK(Idle)
    BY IdleOK DEF Inv
  <2>2. HandlerOK(Idle)'
    BY <2>1, HandlerKept DEF Inv
  <2> QED
    BY <1>1, <2>2
<1>3. /\ over' = over /\ live' = live /\ eviction' = eviction /\ intents' = intents
      /\ ids' \in Nat /\ ids <= ids' /\ ids' <= MaxIds
  BY IdsKept
<1> QED
  BY <1>1, <1>2, <1>3, ServeKeeps

LEMMA StartKeeps ==
  ASSUME Inv, NEW h \in Handler, NEW kind \in {"decide", "execute", "chat"},
         NEW req, req.budget \in Option(Nat), Start(h, kind, req)
  PROVE  Inv'
<1> DEFINE y == handler'[h]
<1>1. /\ DOMAIN handler' = Handler /\ \A g \in Handler \ {h} : handler'[g] = handler[g]
      /\ y = [Idle EXCEPT !.at = "deciding", !.kind = kind, !.req = req, !.id = ids + 1]
  BY DEF Start, Inv
<1>2. y = [at |-> "deciding", kind |-> kind, req |-> req, id |-> ids + 1,
           decision |-> Deny({}), seen |-> None, plan |-> None]
  BY <1>1 DEF Idle
<1>3. /\ Shaped(y) /\ y.at = "deciding" /\ y.seen = None /\ y.kind = kind /\ y.req = req
      /\ y.id = ids + 1 /\ y.decision = Deny({})
  <2> HIDE DEF y
  <2> QED
    BY <1>2 DEF Shaped
<1>4. /\ ids \in Nat /\ ids' = ids + 1 /\ ids < MaxIds /\ MaxIds \in Nat
  BY InputAssumption DEF Start, Inv
<1>5. ids' \in Nat /\ ids <= ids' /\ ids' <= MaxIds /\ y.id \in Nat /\ y.id <= ids' /\ y.id # 0
  BY <1>3, <1>4
<1>6. HandlerOK(handler[h])'
  <2>1. SeenFaithfully(y)
    BY <1>3 DEF SeenFaithfully
  <2>2. DecisionOK(y.decision)
    BY <1>3, DenyDecided
  <2> HIDE DEF y
  <2>3. HandlerOK(handler[h])' <=>
          /\ Shaped(y) /\ y.at \in HandlerState /\ y.id \in Nat /\ y.id <= ids'
          /\ DecisionOK(y.decision) /\ SeenFaithfully(y)
    BY <1>3, <1>5 DEF HandlerOK, y
  <2> QED
    BY <1>3, <1>5, <2>1, <2>2, <2>3 DEF HandlerState
<1>7. /\ over' = over /\ live' = live /\ eviction' = eviction /\ intents' = intents
      /\ calls' = calls /\ log' = log /\ plans' = plans
  BY DEF Start
<1> HIDE DEF y
<1> QED
  BY <1>1, <1>5, <1>6, <1>7, ServeKeeps

LEMMA ReceiveKeeps ==
  ASSUME Inv, NEW h \in Handler, ReceiveDecide(h) \/ ReceiveExecute(h) \/ ReceiveChat(h)
  PROVE  Inv'
<1>1. CASE ReceiveDecide(h)
  <2>1. PICK req \in Request : Start(h, "decide", req)
    BY <1>1 DEF ReceiveDecide
  <2>2. req.budget \in Option(Nat)
    BY InputAssumption DEF InferenceRequest
  <2> QED
    BY <2>1, <2>2, StartKeeps
<1>2. CASE ReceiveExecute(h)
  <2>1. PICK req \in Request : Start(h, "execute", req)
    BY <1>2 DEF ReceiveExecute
  <2>2. req.budget \in Option(Nat)
    BY InputAssumption DEF InferenceRequest
  <2> QED
    BY <2>1, <2>2, StartKeeps
<1>3. CASE ReceiveChat(h)
  <2>1. PICK body \in Body : Start(h, "chat", GatewayRequest(body))
    BY <1>3 DEF ReceiveChat
  <2> DEFINE meta == OrElse(body.meta, NoMetadata)
             req == GatewayRequest(body)
  <2>2. meta.budget \in Option(Nat)
    BY InputAssumption DEF InferenceRequest
  <2>3. req.budget = OrElse(meta.budget, DefaultLatencyBudget)
    BY DEF GatewayRequest
  <2>4. req.budget \in Option(Nat)
    BY <2>2, <2>3 DEF OrElse, Option, DefaultLatencyBudget
  <2> HIDE DEF req
  <2> QED
    BY <2>1, <2>4, StartKeeps DEF req
<1> QED
  BY <1>1, <1>2, <1>3

LEMMA MakeDecisionKeeps ==
  ASSUME Inv, NEW h \in Handler, MakeDecision(h)
  PROVE  Inv'
<1> DEFINE x == handler[h]
           y == handler'[h]
<1>1. PICK snaps \in World :
        LET d == Decide(effective, x.req, snaps)
            staged == d.action = "stage_background"
        IN  /\ handler' = [handler EXCEPT ![h] =
                 IF Fails(d) THEN Idle
                 ELSE [@ EXCEPT !.at = IF staged THEN "recording status" ELSE "recording",
                                !.decision = d, !.seen = [cfg |-> effective, snaps |-> snaps]]]
            /\ intents' = IF staged THEN Append(intents, Intent(x.id, d)) ELSE intents
  BY DEF MakeDecision
<1> DEFINE d == Decide(effective, x.req, snaps)
           at == IF d.action = "stage_background" THEN "recording status" ELSE "recording"
           seen == [cfg |-> effective, snaps |-> snaps]
<1>2. UNCHANGED <<over, live, ids, log, plans, eviction, calls>> /\ x.at = "deciding"
  BY DEF MakeDecision
<1>3. /\ over' = over /\ live' = live /\ eviction' = eviction
      /\ calls' = calls /\ log' = log /\ plans' = plans
      /\ ids' \in Nat /\ ids <= ids' /\ ids' <= MaxIds
  BY <1>2, IdsKept
<1>4. HandlerOK(x) /\ DOMAIN handler = Handler
  BY DEF Inv
<1>5. /\ Shaped(x) /\ x.id \in Nat /\ x.id <= ids /\ x.id # 0
      /\ x.kind \in {"decide", "execute", "chat"} /\ x.req.budget \in Option(Nat)
  BY <1>2, <1>4 DEF HandlerOK
<1>6. DOMAIN handler' = Handler /\ \A g \in Handler \ {h} : handler'[g] = handler[g]
  BY <1>1, <1>4
<1>7. CASE Fails(d)
  <2>1. y = Idle /\ d.action = "error"
    BY <1>1, <1>4, <1>7 DEF Fails
  <2>2. intents' = intents
    BY <1>1, <2>1
  <2>3. HandlerOK(handler[h])'
    <3>1. HandlerOK(Idle)'
      BY <1>3, IdleOK, HandlerKept DEF Inv
    <3> QED
      BY <2>1, <3>1
  <2> HIDE DEF x, y, d
  <2> QED
    BY <1>3, <1>6, <2>2, <2>3, ServeKeeps
<1>8. CASE ~Fails(d)
  <2>1. y = [x EXCEPT !.at = at, !.decision = d, !.seen = seen]
    BY <1>1, <1>4, <1>8
  <2>2. y = [at |-> at, kind |-> x.kind, req |-> x.req, id |-> x.id, decision |-> d,
             seen |-> seen, plan |-> x.plan]
    <3> HIDE DEF x, y, d, at, seen
    <3> QED
      BY <1>5, <2>1 DEF Shaped
  <2>3. /\ Shaped(y) /\ y.at = at /\ y.seen = seen /\ y.kind = x.kind /\ y.req = x.req
        /\ y.id = x.id /\ y.decision = d
    <3> HIDE DEF x, y, d, at, seen
    <3> QED
      BY <2>2 DEF Shaped
  <2>4. Decidable(effective, x.req, snaps)
    <3>1. AnemoiConfig(effective)
      BY BaselineAssumption, EffectiveTyped DEF effective, Inv
    <3>2. Snapshots(snaps)
      BY WorldSnapshots
    <3>3. ~GenerationFails(effective, x.req, snaps)
      <4>1. GenerationFails(effective, x.req, snaps) => d = PolicyError
        BY DEF Decide
      <4> QED
        BY <1>8, <4>1 DEF Fails, PolicyError
    <3> QED
      BY <1>5, <3>1, <3>2, <3>3 DEF Decidable
  <2>5. DecisionOK(d)
    BY <2>4, DecideTyped DEF DecisionOK
  <2>6. SeenFaithfully(y)
    <3>1. seen.cfg = effective /\ seen.snaps = snaps
      OBVIOUS
    <3> HIDE DEF x, y, seen
    <3> QED
      BY <2>3, <2>4, <3>1 DEF SeenFaithfully, d
  <2>7. HandlerOK(handler[h])'
    <3>1. y.id \in Nat /\ y.id <= ids'
      BY <1>2, <1>5, <2>3
    <3>2. at \in {"recording status", "recording"}
      OBVIOUS
    <3> HIDE DEF x, y, d, seen, at
    <3>3. y.at \in {"recording status", "recording"} /\ y.at \in HandlerState
      BY <2>3, <3>2 DEF HandlerState
    <3>4. HandlerOK(handler[h])' <=>
            /\ Shaped(y) /\ y.at \in HandlerState /\ y.id \in Nat /\ y.id <= ids'
            /\ y.id # 0 /\ y.kind \in {"decide", "execute", "chat"} /\ y.req.budget \in Option(Nat)
            /\ DecisionOK(y.decision) /\ SeenFaithfully(y)
      BY <3>3 DEF HandlerOK, y
    <3> QED
      BY <1>5, <2>3, <2>5, <2>6, <3>1, <3>3, <3>4
  <2>8. intents' = intents \/ \E i \in IntentRecord : i.id <= ids' /\ intents' = Append(intents, i)
    <3>1. CASE d.action # "stage_background"
      BY <1>1, <3>1
    <3>2. CASE d.action = "stage_background"
      <4> DEFINE i == Intent(x.id, d)
      <4>1. intents' = Append(intents, i)
        BY <1>1, <3>2
      <4>2. d.background \in Model /\ d.runtime \in Runtime
        BY <2>5, <3>2 DEF DecisionOK
      <4>3. i \in IntentRecord /\ i.id = x.id
        <5> HIDE DEF x, d
        <5> QED
          BY <1>5, <4>2 DEF Intent, IntentRecord
      <4>4. i.id <= ids'
        BY <1>2, <1>5, <4>3
      <4> HIDE DEF i
      <4> QED
        BY <4>1, <4>3, <4>4
    <3> QED
      BY <3>1, <3>2
  <2> HIDE DEF x, y, d, at, seen
  <2> QED
    BY <1>3, <1>6, <2>7, <2>8, ServeKeeps
<1> QED
  BY <1>7, <1>8

\* What is known of a handler past its decision.
LEMMA Progress ==
  ASSUME Inv, NEW h \in Handler, handler[h].at # "idle"
  PROVE  /\ handler[h].id \in 1 .. ids
         /\ handler[h].kind \in {"decide", "execute", "chat"}
         /\ handler[h].decision.action \in Action
         /\ handler[h].at \in {"planning", "recording plan", "executing", "forwarding"} =>
              [id |-> handler[h].id, decision |-> handler[h].decision] \in log
         /\ handler[h].at \in {"recording plan", "executing"} => PlanFits(handler[h])
         /\ handler[h].at = "executing" => handler[h].plan \in plans
<1>1. HandlerOK(handler[h])
  BY DEF Inv
<1>2. /\ handler[h].id \in Nat /\ handler[h].id <= ids /\ handler[h].id # 0
      /\ handler[h].kind \in {"decide", "execute", "chat"}
  BY <1>1 DEF HandlerOK
<1>3. ids \in Nat
  BY DEF Inv
<1>4. handler[h].id \in 1 .. ids
  BY <1>2, <1>3
<1> QED
  BY <1>1, <1>2, <1>4 DEF HandlerOK, Logged, DecisionOK

LEMMA RecordDecisionKeeps ==
  ASSUME Inv, NEW h \in Handler, RecordDecision(h)
  PROVE  Inv'
<1> DEFINE entry == [id |-> handler[h].id, decision |-> handler[h].decision]
<1>1. /\ handler[h].at = "recording" /\ log' = log \cup {entry}
      /\ UNCHANGED <<over, live, ids, intents, plans, eviction, calls>>
  BY DEF RecordDecision
<1>2. /\ handler[h].id \in 1 .. ids /\ handler[h].decision.action \in Action
      /\ handler[h].kind \in {"decide", "execute", "chat"}
  BY <1>1, Progress
<1>3. /\ log \subseteq log' /\ entry \in log'
      /\ \A e \in log' \ log : e.id \in 1 .. ids /\ e.decision.action \in Action
  BY <1>1, <1>2
<1>4. CASE handler[h].kind = "decide"
  <2>1. Answers(h)
    BY <1>4 DEF RecordDecision
  <2> QED
    BY <1>1, <1>3, <2>1, AnswersKeeps
<1>5. CASE handler[h].kind = "execute"
  <2>1. Goes(h, "planning")
    BY <1>5 DEF RecordDecision
  <2>2. "planning" \in HandlerState \ {"idle"}
    BY DEF HandlerState
  <2> QED
    BY <1>1, <1>3, <2>1, <2>2, GoesKeeps
<1>6. CASE handler[h].kind = "chat"
  <2>1. Goes(h, "forwarding")
    BY <1>6 DEF RecordDecision
  <2>2. "forwarding" \in HandlerState \ {"idle"}
    BY DEF HandlerState
  <2> QED
    BY <1>1, <1>3, <2>1, <2>2, GoesKeeps
<1> QED
  BY <1>2, <1>4, <1>5, <1>6

\* The plan is for the decision, whatever the configuration now says.
LEMMA PlanMade ==
  ASSUME NEW id, NEW d, NEW cfg
  PROVE  LET p == ActionPlan(id, d, cfg)
         IN  /\ p.id = id /\ p.kind \in {"load", "noop"}
             /\ p.kind = "load" => p.runtime = d.runtime /\ p.model \in {d.model, d.background}
<1>1. CASE d.action \in {"promote_warm", "cold_load"}
  BY <1>1 DEF ActionPlan
<1>2. CASE d.action = "stage_background"
  BY <1>2 DEF ActionPlan
<1>3. CASE d.action \notin {"promote_warm", "cold_load", "stage_background"}
  BY <1>3 DEF ActionPlan
<1> QED
  BY <1>1, <1>2, <1>3

LEMMA GenerateActionPlanKeeps ==
  ASSUME Inv, NEW h \in Handler, GenerateActionPlan(h)
  PROVE  Inv'
<1> DEFINE x == handler[h]
           y == handler'[h]
           plan == ActionPlan(x.id, x.decision, effective)
<1>1. /\ x.at = "planning"
      /\ UNCHANGED <<over, live, ids, intents, log, plans, eviction, calls>>
  BY DEF GenerateActionPlan
<1>2. HandlerOK(x)
  BY DEF Inv
<1>3. /\ Shaped(x) /\ x.id \in Nat /\ x.id <= ids /\ x.id # 0
      /\ x.kind \in {"decide", "execute", "chat"} /\ x.req.budget \in Option(Nat)
      /\ DecisionOK(x.decision) /\ SeenFaithfully(x)
      /\ [id |-> x.id, decision |-> x.decision] \in log
  BY <1>1, <1>2 DEF HandlerOK, Logged
<1>4. /\ DOMAIN handler' = Handler /\ \A g \in Handler \ {h} : handler'[g] = handler[g]
      /\ y = [x EXCEPT !.at = "recording plan", !.plan = plan]
  BY DEF GenerateActionPlan, Inv
<1>5. /\ Shaped(y) /\ y.at = "recording plan" /\ y.seen = x.seen /\ y.kind = x.kind
      /\ y.req = x.req /\ y.id = x.id /\ y.decision = x.decision /\ y.plan = plan
  <2> HIDE DEF x, y, plan
  <2>1. y = [at |-> "recording plan", kind |-> x.kind, req |-> x.req, id |-> x.id,
             decision |-> x.decision, seen |-> x.seen, plan |-> plan]
    BY <1>3, <1>4 DEF Shaped
  <2> QED
    BY <2>1 DEF Shaped
<1>6. SeenFaithfully(y)
  <2> HIDE DEF x, y, plan
  <2> QED
    BY <1>3, <1>5 DEF SeenFaithfully
<1>7. PlanFits(y)
  <2>1. /\ plan.id = x.id /\ plan.kind \in {"load", "noop"}
        /\ plan.kind = "load" =>
             plan.runtime = x.decision.runtime /\ plan.model \in {x.decision.model, x.decision.background}
    BY PlanMade
  <2> HIDE DEF x, y, plan
  <2> QED
    BY <1>5, <2>1 DEF PlanFits
<1>8. Logged(handler[h])'
  BY <1>1, <1>3, <1>5 DEF Logged
<1>9. ids' = ids
  BY <1>1
<1>10. HandlerOK(handler[h])'
  <2> HIDE DEF x, plan
  <2>1. HandlerOK(handler[h])' <=>
          /\ Shaped(y) /\ y.at \in HandlerState /\ y.id \in Nat /\ y.id <= ids'
          /\ y.id # 0 /\ y.kind \in {"decide", "execute", "chat"} /\ y.req.budget \in Option(Nat)
          /\ DecisionOK(y.decision) /\ SeenFaithfully(y) /\ Logged(handler[h])' /\ PlanFits(y)
    BY <1>5 DEF HandlerOK
  <2> HIDE DEF y
  <2> QED
    BY <1>3, <1>5, <1>6, <1>7, <1>8, <1>9, <2>1 DEF HandlerState
<1>11. /\ over' = over /\ live' = live /\ eviction' = eviction /\ intents' = intents
       /\ calls' = calls /\ log' = log /\ plans' = plans
       /\ ids' \in Nat /\ ids <= ids' /\ ids' <= MaxIds
  BY <1>1, IdsKept
<1> HIDE DEF x, y, plan
<1> QED
  BY <1>4, <1>10, <1>11, ServeKeeps

LEMMA RecordActionPlanKeeps ==
  ASSUME Inv, NEW h \in Handler, RecordActionPlan(h)
  PROVE  Inv'
<1>1. /\ handler[h].at = "recording plan" /\ plans' = plans \cup {handler[h].plan}
      /\ Goes(h, "executing")
      /\ UNCHANGED <<over, live, ids, intents, log, eviction, calls>>
  BY DEF RecordActionPlan
<1>2. /\ handler[h].id \in 1 .. ids /\ PlanFits(handler[h])
      /\ [id |-> handler[h].id, decision |-> handler[h].decision] \in log
  BY <1>1, Progress
<1>3. handler[h].plan.id \in 1 .. ids /\ handler[h].plan.kind \in {"load", "noop"}
  BY <1>2 DEF PlanFits
<1>4. /\ plans \subseteq plans' /\ handler[h].plan \in plans' /\ log' = log
      /\ \A plan \in plans' \ plans : plan.id \in 1 .. ids /\ plan.kind \in {"load", "noop"}
  BY <1>1, <1>3
<1>5. "executing" \in HandlerState \ {"idle"}
  BY DEF HandlerState
<1> QED
  BY <1>1, <1>2, <1>4, <1>5, GoesKeeps

LEMMA ExecuteAccounted ==
  ASSUME NEW p, NEW d, NEW c, c = Call("load", "execute", p.id, p.model, p.runtime),
         p \in plans', p.kind = "load", p.runtime = d.runtime, p.model \in {d.model, d.background},
         [id |-> p.id, decision |-> d] \in log'
  PROVE  Accounted(c)'
<1>1. c.by = "execute" /\ c.id = p.id /\ c.model = p.model /\ c.runtime = p.runtime
  BY DEF Call
<1>2. d \in Decided(c.id)'
  <2>1. PICK entry \in log' : entry.id = c.id /\ entry.decision = d
    BY <1>1
  <2> QED
    BY <2>1 DEF Decided
<1> QED
  BY <1>1, <1>2 DEF Accounted

LEMMA ChatAccounted ==
  ASSUME NEW id, NEW d, NEW c, c = Call("forward", "chat", id, d.model, d.runtime),
         [id |-> id, decision |-> d] \in log'
  PROVE  Accounted(c)'
<1>1. c.by = "chat" /\ c.id = id /\ c.model = d.model /\ c.runtime = d.runtime
  BY DEF Call
<1>2. d \in Decided(c.id)'
  <2>1. PICK entry \in log' : entry.id = c.id /\ entry.decision = d
    BY <1>1
  <2> QED
    BY <2>1 DEF Decided
<1> QED
  BY <1>1, <1>2 DEF Accounted

LEMMA ExecuteKeeps ==
  ASSUME Inv, NEW h \in Handler, Execute(h)
  PROVE  Inv'
<1>1. PICK p, d : p = handler[h].plan /\ d = handler[h].decision
  OBVIOUS
<1>2. /\ handler[h].at = "executing" /\ Answers(h)
      /\ UNCHANGED <<over, live, ids, intents, log, plans, eviction>>
      /\ \/ calls' = calls
         \/ /\ p.kind = "load" /\ Gate(p.runtime)
            /\ calls' = calls \cup {Call("load", "execute", p.id, p.model, p.runtime)}
  BY <1>1 DEF Execute
<1>3. /\ p.id = handler[h].id /\ p \in plans
      /\ p.kind = "load" => p.runtime = d.runtime /\ p.model \in {d.model, d.background}
      /\ [id |-> p.id, decision |-> d] \in log
  BY <1>1, <1>2, Progress DEF PlanFits
<1>4. ASSUME NEW c \in calls' \ calls
      PROVE  (IsMock(c.runtime) \/ live) /\ Accounted(c)'
  <2>1. /\ p.kind = "load" /\ Gate(p.runtime)
        /\ c = Call("load", "execute", p.id, p.model, p.runtime)
    BY <1>2, <1>4
  <2>2. p \in plans' /\ [id |-> p.id, decision |-> d] \in log'
    BY <1>2, <1>3
  <2>3. Accounted(c)'
    BY <1>3, <2>1, <2>2, ExecuteAccounted
  <2>4. c.runtime = p.runtime
    BY <2>1 DEF Call
  <2> QED
    BY <2>1, <2>3, <2>4 DEF Gate
<1>5. /\ log \subseteq log' /\ plans' = plans
      /\ \A e \in log' \ log : e.id \in 1 .. ids /\ e.decision.action \in Action
  BY <1>2
<1> QED
  BY <1>2, <1>4, <1>5, AnswersKeeps

LEMMA ForwardKeeps ==
  ASSUME Inv, NEW h \in Handler, Forward(h)
  PROVE  Inv'
<1>1. PICK id, d : id = handler[h].id /\ d = handler[h].decision
  OBVIOUS
<1>2. /\ handler[h].at = "forwarding" /\ Answers(h) /\ Gate(d.runtime)
      /\ UNCHANGED <<over, live, ids, intents, log, plans, eviction>>
      /\ \/ calls' = calls
         \/ calls' = calls \cup {Call("forward", "chat", id, d.model, d.runtime)}
  BY <1>1 DEF Forward
<1>3. [id |-> id, decision |-> d] \in log'
  <2>1. [id |-> id, decision |-> d] \in log
    BY <1>1, <1>2, Progress
  <2> QED
    BY <1>2, <2>1
<1>4. ASSUME NEW c \in calls' \ calls
      PROVE  (IsMock(c.runtime) \/ live) /\ Accounted(c)'
  <2>1. c = Call("forward", "chat", id, d.model, d.runtime)
    BY <1>2, <1>4
  <2>2. Accounted(c)'
    BY <1>3, <2>1, ChatAccounted
  <2>3. c.runtime = d.runtime
    BY <2>1 DEF Call
  <2> QED
    BY <1>2, <2>2, <2>3 DEF Gate
<1>5. /\ log \subseteq log' /\ plans' = plans
      /\ \A e \in log' \ log : e.id \in 1 .. ids /\ e.decision.action \in Action
  BY <1>2
<1> QED
  BY <1>2, <1>4, <1>5, AnswersKeeps

LEMMA ServePreserves ==
  ASSUME Inv, NEW h \in Handler, Serve(h)
  PROVE  Inv'
<1>1. ASSUME Answers(h), UNCHANGED <<over, live, ids, intents, log, plans, eviction, calls>>
      PROVE  Inv'
  BY <1>1, AnswersKeeps
<1>2. CASE ReceiveDecide(h) \/ ReceiveExecute(h) \/ ReceiveChat(h)
  BY <1>2, ReceiveKeeps
<1>3. CASE MakeDecision(h)
  BY <1>3, MakeDecisionKeeps
<1>4. CASE RecordStagingStatus(h)
  <2>1. /\ handler[h].at # "idle" /\ Goes(h, "recording")
        /\ UNCHANGED <<over, live, ids, intents, log, plans, eviction, calls>>
    BY <1>4 DEF RecordStagingStatus
  <2>2. "recording" \in HandlerState \ {"idle"}
    BY DEF HandlerState
  <2>3. UNCHANGED <<over, live, ids, intents, eviction, calls>> /\ log' = log /\ plans' = plans
    BY <2>1
  <2> QED
    BY <2>1, <2>2, <2>3, GoesKeeps
<1>5. CASE RecordDecision(h)
  BY <1>5, RecordDecisionKeeps
<1>6. CASE RecordFails(h)
  BY <1>1, <1>6 DEF RecordFails
<1>7. CASE GenerateActionPlan(h)
  BY <1>7, GenerateActionPlanKeeps
<1>8. CASE RecordActionPlan(h)
  BY <1>8, RecordActionPlanKeeps
<1>9. CASE Execute(h)
  BY <1>9, ExecuteKeeps
<1>10. CASE Refuse(h)
  BY <1>1, <1>10 DEF Refuse
<1>11. CASE Forward(h)
  BY <1>11, ForwardKeeps
<1> QED
  BY <1>2, <1>3, <1>4, <1>5, <1>6, <1>7, <1>8, <1>9, <1>10, <1>11 DEF Serve

\* What a step that is not of a handler must show.
LEMMA RestKeeps ==
  ASSUME Inv, GovernanceOverrides(over)', live' = live, handler' = handler, log' = log,
         plans' = plans, ids' \in Nat, ids <= ids', ids' <= MaxIds, EvictionOK',
         intents \in Seq(IntentRecord), intents' \in Seq(IntentRecord),
         Len(intents') = Len(intents),
         \A i \in DOMAIN intents :
           /\ intents'[i].id = intents[i].id
           /\ intents'[i].background = intents[i].background
           /\ intents'[i].target_runtime = intents[i].target_runtime
           /\ intents[i].state # "pending" => intents'[i].state = intents[i].state,
         \A c \in calls' \ calls : (IsMock(c.runtime) \/ live) /\ Accounted(c)'
  PROVE  Inv'
<1>1. DOMAIN intents = 1 .. Len(intents) /\ DOMAIN intents' = 1 .. Len(intents)
  OBVIOUS
<1>2. \A i \in DOMAIN intents' : intents'[i].id <= ids'
  <2>1. \A i \in DOMAIN intents : intents[i].id <= ids /\ intents[i] \in IntentRecord
    BY DEF Inv
  <2>2. \A r \in IntentRecord : r.id \in Nat
    BY DEF IntentRecord
  <2>3. ids \in Nat
    BY DEF Inv
  <2> QED
    BY <1>1, <2>1, <2>2, <2>3
<1>3. DOMAIN handler' = Handler /\ \A g \in Handler : HandlerOK(handler[g])'
  <2>1. \A x : HandlerOK(x) => HandlerOK(x)'
    BY HandlerKept DEF Inv
  <2>2. DOMAIN handler' = Handler /\ \A g \in Handler : HandlerOK(handler[g]) /\ handler'[g] = handler[g]
    BY DEF Inv
  <2>3. ASSUME NEW g \in Handler PROVE HandlerOK(handler[g])'
    BY <2>1, <2>2
  <2> QED
    BY <2>2, <2>3
<1>4. NoHiddenMutation'
  <2>1. NoHiddenMutation
    BY DEF Inv
  <2>2. \A c \in calls : (IsMock(c.runtime) \/ live') /\ Accounted(c)'
    BY <1>1, <2>1, CallsKept
  <2> QED
    BY <2>2 DEF NoHiddenMutation
<1>5. /\ \A entry \in log' : entry.id \in 1 .. ids' /\ entry.decision.action \in Action
      /\ \A plan \in plans' : plan.id \in 1 .. ids' /\ plan.kind \in {"load", "noop"}
  <2>1. \A n \in 1 .. ids : n \in 1 .. ids'
    BY DEF Inv
  <2> QED
    BY <2>1 DEF Inv
<1>6. (live \in BOOLEAN)'
  BY DEF Inv
<1> QED
  BY <1>2, <1>3, <1>4, <1>5, <1>6 DEF Inv

LEMMA EditKeeps ==
  ASSUME Inv, Edit
  PROVE  Inv'
<1>1. GovernanceOverrides(over)'
  BY InputAssumption DEF Edit
<1>2. /\ live' = live /\ handler' = handler /\ ids' = ids /\ intents' = intents /\ log' = log
      /\ plans' = plans /\ calls' = calls /\ eviction' = eviction
  BY DEF Edit
<1>3. ids' \in Nat /\ ids <= ids' /\ ids' <= MaxIds
  BY <1>2, IdsKept
<1>4. EvictionOK' /\ intents \in Seq(IntentRecord)
  BY <1>2 DEF Inv, EvictionOK
<1> QED
  BY <1>1, <1>2, <1>3, <1>4, RestKeeps

LEMMA ReconcileReadyKeeps ==
  ASSUME Inv, ReconcileReady
  PROVE  Inv'
<1>1. PICK done \in SUBSET DOMAIN intents :
        /\ \A i \in done : intents[i].state = "pending"
        /\ intents' = [i \in DOMAIN intents |->
             IF i \in done THEN [intents[i] EXCEPT !.state = "completed"] ELSE intents[i]]
  BY DEF ReconcileReady
<1>2. /\ live' = live /\ handler' = handler /\ ids' = ids /\ log' = log
      /\ plans' = plans /\ calls' = calls /\ eviction' = eviction /\ over' = over
  BY DEF ReconcileReady
<1>3. ids' \in Nat /\ ids <= ids' /\ ids' <= MaxIds
  BY <1>2, IdsKept
<1>4. EvictionOK' /\ intents \in Seq(IntentRecord) /\ GovernanceOverrides(over)'
  BY <1>2 DEF Inv, EvictionOK
<1>5. \A r \in IntentRecord :
        LET s == [r EXCEPT !.state = "completed"]
        IN  s \in IntentRecord /\ s.id = r.id /\ s.background = r.background
            /\ s.target_runtime = r.target_runtime
  BY DEF IntentRecord
<1>6. \A i \in DOMAIN intents : intents[i] \in IntentRecord
  BY <1>4
<1>7. \A i \in DOMAIN intents :
        /\ intents'[i] \in IntentRecord
        /\ intents'[i].id = intents[i].id
        /\ intents'[i].background = intents[i].background
        /\ intents'[i].target_runtime = intents[i].target_runtime
        /\ intents[i].state # "pending" => intents'[i].state = intents[i].state
  BY <1>1, <1>5, <1>6
<1>8. intents' \in Seq(IntentRecord) /\ Len(intents') = Len(intents)
  BY <1>1, <1>4, <1>7
<1> QED
  BY <1>2, <1>3, <1>4, <1>7, <1>8, RestKeeps

LEMMA LoadStagedKeeps ==
  ASSUME Inv, NEW i \in DOMAIN intents, LoadStaged(i)
  PROVE  Inv'
<1> DEFINE config == Baseline.runtimes[intents[i].target_runtime]
<1>1. /\ intents[i].state = "pending" /\ Gate(intents[i].target_runtime)
      /\ live' = live /\ handler' = handler /\ ids' = ids /\ log' = log
      /\ plans' = plans /\ eviction' = eviction /\ over' = over
      /\ \E outcome \in LoadOutcomes(config) :
           intents' = [intents EXCEPT ![i] = [@ EXCEPT !.state = outcome]]
  BY DEF LoadStaged
<1>2. PICK outcome \in {"completed", "failed"} :
        intents' = [intents EXCEPT ![i] = [@ EXCEPT !.state = outcome]]
  <2>1. LoadOutcomes(config) \subseteq {"completed", "failed"}
    BY DEF LoadOutcomes
  <2> QED
    BY <1>1, <2>1
<1>3. ids' \in Nat /\ ids <= ids' /\ ids' <= MaxIds
  BY <1>1, IdsKept
<1>4. EvictionOK' /\ intents \in Seq(IntentRecord) /\ GovernanceOverrides(over)'
  BY <1>1 DEF Inv, EvictionOK
<1>5. \A r \in IntentRecord :
        LET s == [r EXCEPT !.state = outcome]
        IN  s \in IntentRecord /\ s.id = r.id /\ s.background = r.background
            /\ s.target_runtime = r.target_runtime /\ s.state = outcome
  BY DEF IntentRecord
<1>6. /\ intents[i] \in IntentRecord /\ intents'[i] = [intents[i] EXCEPT !.state = outcome]
      /\ \A j \in DOMAIN intents \ {i} : intents'[j] = intents[j]
  BY <1>2, <1>4
<1>7. /\ intents'[i] \in IntentRecord
      /\ intents'[i].id = intents[i].id
      /\ intents'[i].background = intents[i].background
      /\ intents'[i].target_runtime = intents[i].target_runtime
      /\ intents'[i].state = outcome
  BY <1>5, <1>6
<1>8. \A j \in DOMAIN intents :
        /\ intents'[j].id = intents[j].id
        /\ intents'[j].background = intents[j].background
        /\ intents'[j].target_runtime = intents[j].target_runtime
        /\ intents[j].state # "pending" => intents'[j].state = intents[j].state
  BY <1>1, <1>6, <1>7
<1>9. intents' \in Seq(IntentRecord) /\ Len(intents') = Len(intents)
  BY <1>2, <1>4, <1>7
<1>10. ASSUME NEW c \in calls' \ calls
       PROVE  (IsMock(c.runtime) \/ live) /\ Accounted(c)'
  <2>1. c = Call("load", "staging", intents[i].id, intents[i].background, intents[i].target_runtime)
    BY DEF LoadStaged
  <2>2. /\ c.by = "staging" /\ c.id = intents[i].id /\ c.model = intents[i].background
        /\ c.runtime = intents[i].target_runtime
    BY <2>1 DEF Call
  <2>3. i \in 1 .. Len(intents')
    BY <1>4, <1>9
  <2>4. Accounted(c)'
    BY <1>7, <2>2, <2>3 DEF Accounted
  <2> QED
    BY <1>1, <2>2, <2>4 DEF Gate
<1> HIDE DEF config
<1> QED
  BY <1>1, <1>3, <1>4, <1>8, <1>9, <1>10, RestKeeps

LEMMA PlanEvictionsKeeps ==
  ASSUME Inv, NEW force \in BOOLEAN, PlanEvictions(force)
  PROVE  Inv'
<1>1. PICK snaps \in World :
        /\ EvictionPlan(snaps, force) # {}
        /\ eviction' = [at |-> "planned", id |-> ids + 1, queue |-> EvictionPlan(snaps, force),
                        force |-> force]
  BY DEF PlanEvictions
<1>2. /\ ids < MaxIds /\ ids' = ids + 1
      /\ live' = live /\ handler' = handler /\ intents' = intents /\ log' = log
      /\ plans' = plans /\ calls' = calls /\ over' = over
  BY DEF PlanEvictions
<1>3. ids \in Nat /\ MaxIds \in Nat
  BY InputAssumption DEF Inv
<1>4. ids' \in Nat /\ ids <= ids' /\ ids' <= MaxIds
  BY <1>2, <1>3
<1>5. intents \in Seq(IntentRecord) /\ GovernanceOverrides(over)'
  BY <1>2 DEF Inv
<1>6. EvictionOK'
  <2>1. ASSUME NEW e \in EvictionPlan(snaps, force)
        PROVE  /\ e.model \in Model /\ e.runtime \in Runtime /\ (force \/ ~Protected(e.model))
               /\ e.idle = None
    <3>1. PICK r \in DOMAIN snaps : \E m \in DOMAIN snaps[r].residents :
            /\ force \/ ~Protected(m)
            /\ e = [model |-> m, runtime |-> r, idle |-> snaps[r].idle[m]]
      BY DEF EvictionPlan
    <3>2. PICK m \in DOMAIN snaps[r].residents :
            /\ force \/ ~Protected(m)
            /\ e = [model |-> m, runtime |-> r, idle |-> snaps[r].idle[m]]
      BY <3>1
    <3>3. e.model = m /\ e.runtime = r /\ e.idle = snaps[r].idle[m]
      BY <3>2
    <3>4. r \in Runtime /\ m \in Model /\ snaps[r].idle[m] = None
      BY WorldSnapshots DEF Snapshots
    <3> QED
      BY <3>2, <3>3, <3>4
  <2>2. PICK queue : queue = EvictionPlan(snaps, force)
    OBVIOUS
  <2>3. eviction' = [at |-> "planned", id |-> ids + 1, queue |-> queue, force |-> force]
    BY <1>1, <2>2
  <2>4. /\ queue # {}
        /\ \A e \in queue :
             /\ e.model \in Model /\ e.runtime \in Runtime /\ (force \/ ~Protected(e.model))
             /\ e.idle = None
    BY <1>1, <2>1, <2>2
  <2>5. /\ eviction' = [at |-> eviction'.at, id |-> eviction'.id, queue |-> eviction'.queue,
                        force |-> eviction'.force]
        /\ eviction'.queue = queue /\ eviction'.force = force
    BY <2>3
  <2>6. \A e : Protected(e)' = Protected(e)
    BY DEF Protected
  <2> QED
    BY <2>4, <2>5, <2>6 DEF EvictionOK
<1> QED
  BY <1>2, <1>4, <1>5, <1>6, RestKeeps

LEMMA EvictKeeps ==
  ASSUME Inv, NEW e \in eviction.queue, Evict(e)
  PROVE  Inv'
<1>1. /\ live' = live /\ handler' = handler /\ ids' = ids /\ intents' = intents /\ log' = log
      /\ plans' = plans /\ over' = over
  BY DEF Evict
<1>2. ids' \in Nat /\ ids <= ids' /\ ids' <= MaxIds
  BY <1>1, IdsKept
<1>3. /\ intents \in Seq(IntentRecord) /\ GovernanceOverrides(over)' /\ EvictionOK
  BY <1>1 DEF Inv
<1>4. \A m : Protected(m)' = Protected(m)
  BY DEF Protected
<1>5. EvictionOK'
  <2>1. \/ eviction' = NoEviction
        \/ eviction' = [eviction EXCEPT !.queue = @ \ {e}] /\ eviction.queue # {e}
    BY DEF Evict
  <2>2. CASE eviction' = NoEviction
    <3>1. /\ eviction' = [at |-> eviction'.at, id |-> eviction'.id, queue |-> eviction'.queue,
                          force |-> eviction'.force]
          /\ eviction'.queue = {} /\ eviction'.at # "planned"
      BY <2>2 DEF NoEviction
    <3> QED
      BY <3>1 DEF EvictionOK
  <2>3. CASE eviction' = [eviction EXCEPT !.queue = @ \ {e}] /\ eviction.queue # {e}
    <3>1. eviction' = [at |-> eviction.at, id |-> eviction.id, queue |-> eviction.queue \ {e},
                       force |-> eviction.force]
      BY <1>3, <2>3 DEF EvictionOK
    <3>2. /\ eviction' = [at |-> eviction'.at, id |-> eviction'.id, queue |-> eviction'.queue,
                          force |-> eviction'.force]
          /\ eviction'.queue = eviction.queue \ {e} /\ eviction'.force = eviction.force
      BY <3>1
    <3>3. eviction'.queue # {}
      BY <2>3, <3>2
    <3> QED
      BY <1>3, <1>4, <3>2, <3>3 DEF EvictionOK
  <2> QED
    BY <2>1, <2>2, <2>3
<1>6. ASSUME NEW c \in calls' \ calls
      PROVE  (IsMock(c.runtime) \/ live) /\ Accounted(c)'
  <2>1. /\ Gate(e.runtime)
        /\ c = Call(IF eviction.force THEN "force unload" ELSE "unload", "eviction", eviction.id,
                    e.model, e.runtime)
    BY DEF Evict
  <2>2. /\ c.kind = IF eviction.force THEN "force unload" ELSE "unload"
        /\ c.by = "eviction" /\ c.model = e.model /\ c.runtime = e.runtime
    BY <2>1 DEF Call
  <2>3. c.kind = "force unload" \/ ~Protected(c.model)
    BY <1>3, <2>2 DEF EvictionOK
  <2>4. Accounted(c)'
    BY <1>4, <2>2, <2>3 DEF Accounted
  <2> QED
    BY <2>1, <2>2, <2>4 DEF Gate
<1> QED
  BY <1>1, <1>2, <1>3, <1>5, <1>6, RestKeeps

LEMMA InitInv == Init => Inv
<1> SUFFICES ASSUME Init PROVE Inv
  OBVIOUS
<1> USE DEF Init
<1>1. GovernanceOverrides(over)
  BY DEF GovernanceOverrides
<1>2. ids \in Nat /\ ids <= MaxIds
  BY InputAssumption
<1>3. DOMAIN handler = Handler /\ \A h \in Handler : HandlerOK(handler[h])
  BY <1>2, IdleOK
<1>4. intents \in Seq(IntentRecord) /\ DOMAIN intents = {}
  OBVIOUS
<1>5. EvictionOK
  BY DEF EvictionOK, NoEviction
<1>6. NoHiddenMutation
  BY DEF NoHiddenMutation
<1> QED
  BY <1>1, <1>2, <1>3, <1>4, <1>5, <1>6 DEF Inv

LEMMA NextInv == Inv /\ [Next]_vars => Inv'
<1> SUFFICES ASSUME Inv, [Next]_vars PROVE Inv'
  OBVIOUS
<1>1. CASE Edit
  BY <1>1, EditKeeps
<1>2. CASE \E h \in Handler : Serve(h)
  BY <1>2, ServePreserves
<1>3. CASE ReconcileReady
  BY <1>3, ReconcileReadyKeeps
<1>4. CASE \E i \in DOMAIN intents : LoadStaged(i)
  BY <1>4, LoadStagedKeeps
<1>5. CASE \E force \in BOOLEAN : PlanEvictions(force)
  BY <1>5, PlanEvictionsKeeps
<1>6. CASE \E e \in eviction.queue : Evict(e)
  BY <1>6, EvictKeeps
<1>7. CASE UNCHANGED vars
  <2>1. /\ live' = live /\ handler' = handler /\ ids' = ids /\ intents' = intents /\ log' = log
        /\ plans' = plans /\ calls' = calls /\ eviction' = eviction /\ over' = over
    BY <1>7 DEF vars
  <2>2. ids' \in Nat /\ ids <= ids' /\ ids' <= MaxIds
    BY <2>1, IdsKept
  <2>3. EvictionOK' /\ intents \in Seq(IntentRecord) /\ GovernanceOverrides(over)'
    BY <2>1 DEF Inv, EvictionOK
  <2> QED
    BY <2>1, <2>2, <2>3, RestKeeps
<1> QED
  BY <1>1, <1>2, <1>3, <1>4, <1>5, <1>6, <1>7 DEF Next

LEMMA SpecInv == Spec => []Inv
<1> QED
  BY InitInv, NextInv, PTL DEF Spec

-----------------------------------------------------------------------------
(* Theorems.                                                               *)

\* In every reachable state the variables and the effective configuration have their types.
THEOREM DaemonTyped == Spec => []TypeOK
<1>1. Inv => TypeOK
  <2> SUFFICES ASSUME Inv PROVE TypeOK
    OBVIOUS
  <2>1. AnemoiConfig(effective)
    BY BaselineAssumption, EffectiveTyped DEF effective, Inv
  <2>2. ids \in 0 .. MaxIds
    BY InputAssumption DEF Inv
  <2>3. ASSUME NEW h \in Handler
        PROVE  handler[h].at \in HandlerState /\ handler[h].id \in 0 .. ids
               /\ handler[h].decision.action \in Action
    <3>1. HandlerOK(handler[h])
      BY DEF Inv
    <3>2. handler[h].id \in Nat /\ handler[h].id <= ids
      BY <3>1 DEF HandlerOK
    <3>3. handler[h].id \in 0 .. ids
      BY <2>2, <3>2
    <3> QED
      BY <3>1, <3>3 DEF HandlerOK, DecisionOK
  <2>4. ASSUME NEW i \in 1 .. Len(intents)
        PROVE  /\ intents[i].id \in 1 .. ids
               /\ intents[i].background \in Model
               /\ intents[i].target_runtime \in Runtime
               /\ intents[i].state \in {"blocked", "pending", "failed", "completed"}
    <3>1. intents[i] \in IntentRecord /\ intents[i].id <= ids
      BY DEF Inv
    <3>2. \A r \in IntentRecord :
            /\ r.id \in Nat /\ r.id # 0 /\ r.background \in Model /\ r.target_runtime \in Runtime
            /\ r.state \in {"blocked", "pending", "failed", "completed"}
      BY DEF IntentRecord
    <3>3. intents[i].id \in 1 .. ids
      BY <2>2, <3>1, <3>2
    <3> QED
      BY <3>1, <3>2, <3>3
  <2>5. \A e \in eviction.queue : e.model \in Model /\ e.runtime \in Runtime
    BY DEF Inv, EvictionOK
  <2> QED
    BY <2>1, <2>2, <2>3, <2>4, <2>5 DEF TypeOK, Inv
<1> QED
  BY <1>1, SpecInv, PTL

\* No call reaches a runtime that the flag, and something recorded before it, does not
\* account for, whoever edits the configuration meanwhile.
THEOREM CallsAccounted == Spec => []NoHiddenMutation
<1>1. Inv => NoHiddenMutation
  BY DEF Inv
<1> QED
  BY <1>1, SpecInv, PTL

\* A decision is made from a configuration of its types and snapshots such as adapters
\* report.
LEMMA JustDecidedSound ==
  ASSUME Inv, NEW x \in JustDecided
  PROVE  /\ Decidable(x.seen.cfg, x.req, x.seen.snaps)
         /\ x.decision = Decide(x.seen.cfg, x.req, x.seen.snaps)
<1>1. PICK h \in Handler : x = handler[h] /\ handler[h].seen # None
  BY DEF JustDecided
<1>2. SeenFaithfully(x)
  BY <1>1 DEF Inv, HandlerOK
<1> QED
  BY <1>1, <1>2 DEF SeenFaithfully

\* Every decision of the daemon keeps the floor, where classes are whole billions.
THEOREM FloorAlwaysHonoured == Spec => []FloorHonoured
<1>1. Inv => FloorHonoured
  BY JustDecidedSound, DecideKeepsFloor DEF FloorHonoured
<1> QED
  BY <1>1, SpecInv, PTL

\* No request is denied that some model could serve.
THEOREM DenialsJustified == Spec => []DenyOnlyIfNothingRunnable
<1>1. Inv => DenyOnlyIfNothingRunnable
  BY JustDecidedSound, DecideDenies DEF DenyOnlyIfNothingRunnable
<1> QED
  BY <1>1, SpecInv, PTL

\* Every staged decision answers meanwhile.
THEOREM StagesAnswer == Spec => []StagePreservesAnswer
<1>1. Inv => StagePreservesAnswer
  BY JustDecidedSound, DecideAnswersMeanwhile DEF StagePreservesAnswer
<1> QED
  BY <1>1, SpecInv, PTL

\* No decision takes the colder of two copies.
THEOREM ChoiceNeverDominated == Spec => []NoDominatedChoice
<1>1. Inv => NoDominatedChoice
  BY JustDecidedSound, DecideUndominated DEF NoDominatedChoice
<1> QED
  BY <1>1, SpecInv, PTL

\* Decide can be asked about a static domain that has rosters, every runtime up.
LEMMA PlainDecidable ==
  ASSUME GovernanceOverrides(over), NEW d \in DOMAIN effective.domains,
         effective.domains[d].live = None, effective.domains[d].rosters # <<>>
  PROVE  Decidable(effective, Plain(d), AllUp)
<1>1. AnemoiConfig(effective)
  BY BaselineAssumption, EffectiveTyped DEF effective
<1>2. ~GenerationFails(effective, Plain(d), AllUp)
  BY DEF GenerationFails, LiveRuntime, Plain
<1>3. Plain(d).budget \in Option(Nat)
  BY DEF Plain, Option
<1>4. Snapshots(AllUp)
  <2>1. DOMAIN AllUp \subseteq Runtime
    BY BaselineAssumption DEF AllUp, AnemoiConfig
  <2>2. \A r \in DOMAIN AllUp : AllUp[r].configured = <<>> /\ AllUp[r].requests = <<>>
    BY DEF AllUp, UnavailableSnapshot
  <2>3. <<>> \in Seq(Model)
    OBVIOUS
  <2> QED
    BY <2>1, <2>2, <2>3 DEF Snapshots
<1> QED
  BY <1>1, <1>2, <1>3, <1>4 DEF Decidable

LEMMA FirstElement ==
  ASSUME NEW S, NEW seq \in Seq(S), seq # <<>>
  PROVE  seq[1] \in Elements(seq)
<1>1. 1 \in DOMAIN seq
  OBVIOUS
<1> QED
  BY <1>1 DEF Elements

\* A roster model on a runtime of the baseline runs a plain request.
LEMMA PlainRunnable ==
  ASSUME NEW d, effective.domains[d].live = None,
         NEW g \in Elements(effective.domains[d].rosters) \cap DOMAIN effective.groups,
         NEW m \in Elements(effective.groups[g].models) \cap DOMAIN effective.models,
         NEW r \in Elements(effective.models[m].runtimes) \cap DOMAIN Baseline.runtimes
  PROVE  Runnable(effective, Plain(d), AllUp)
<1>1. Available(AllUp, r)
  BY DEF Available, AllUp, UnavailableSnapshot
<1>2. ~ContextRejected(Plain(d), effective.models[m]) /\ MeetsFloor(Plain(d), effective.models[m])
  BY DEF ContextRejected, WindowKnown, MeetsFloor, Plain
<1>3. Plain(d).domain = d
  BY DEF Plain
<1> HIDE DEF effective
<1> QED
  BY <1>1, <1>2, <1>3 DEF Runnable, LiveRuntime

\* No edit leaves a static domain with nothing to run, although its profiles name runtimes,
\* without a governance warning about the domain, one of its rosters or one of their models
\* (validate_governance).
THEOREM StrandedAlwaysWarned == Spec => []StrandedIsWarned
<1>1. Inv => StrandedIsWarned
  <2> SUFFICES ASSUME Inv, NEW d \in DOMAIN effective.domains,
                      effective.domains[d].live = None,
                      \A m \in RosterModels(effective, d) \cap DOMAIN effective.models :
                        Elements(effective.models[m].runtimes) \cap DOMAIN Baseline.runtimes # {},
                      Decide(effective, Plain(d), AllUp).action \in {"deny", "error"}
               PROVE  \E w \in ValidateGovernance(effective) :
                        w.target \in {d} \cup Elements(effective.domains[d].rosters)
                                         \cup RosterModels(effective, d)
    BY DEF StrandedIsWarned
  <2> DEFINE rosters == effective.domains[d].rosters
  <2>1. GovernanceOverrides(over) /\ AnemoiConfig(effective)
    BY BaselineAssumption, EffectiveTyped DEF effective, Inv
  <2>2. DomainWarnings(effective, d) \cup GroupWarnings(effective) \subseteq ValidateGovernance(effective)
    BY DEF ValidateGovernance
  <2> HIDE DEF effective
  <2>3. CASE rosters = <<>>
    <3>1. [code |-> "domain.no_roster", target |-> d] \in DomainWarnings(effective, d)
      BY <2>3 DEF DomainWarnings
    <3> QED
      BY <2>2, <3>1
  <2>4. CASE rosters # <<>>
    <3> DEFINE g == rosters[1]
    <3>1. rosters \in Seq(STRING)
      BY <2>1 DEF AnemoiConfig
    <3>2. g \in Elements(rosters)
      BY <2>4, <3>1, FirstElement
    <3>3. CASE g \notin DOMAIN effective.groups
      <4>1. [code |-> "domain.unknown_roster", target |-> d] \in DomainWarnings(effective, d)
        BY <2>4, <3>2, <3>3 DEF DomainWarnings
      <4> QED
        BY <2>2, <4>1
    <3>4. CASE g \in DOMAIN effective.groups /\ effective.groups[g].models = <<>>
      <4>1. [code |-> "roster.empty", target |-> g] \in GroupWarnings(effective)
        BY <3>4 DEF GroupWarnings
      <4> QED
        BY <2>2, <3>2, <4>1
    <3>5. CASE g \in DOMAIN effective.groups /\ effective.groups[g].models # <<>>
      <4> DEFINE m == effective.groups[g].models[1]
      <4>1. effective.groups[g].models \in Seq(Model)
        BY <2>1, <3>5 DEF AnemoiConfig, ResidencyGroupConfig
      <4>2. m \in Elements(effective.groups[g].models)
        BY <3>5, <4>1, FirstElement
      <4>3. m \in RosterModels(effective, d)
        BY <3>2, <3>5, <4>2 DEF RosterModels
      <4>4. CASE m \notin DOMAIN effective.models
        <5> HIDE DEF m, g
        <5> DEFINE Missing(x) == {[code |-> "model.missing_profile", target |-> n] :
                                    n \in Elements(effective.groups[x].models) \ DOMAIN effective.models}
        <5>1. [code |-> "model.missing_profile", target |-> m] \in Missing(g)
          BY <4>2, <4>4
        <5> HIDE DEF Missing
        <5>2. [code |-> "model.missing_profile", target |-> m] \in UNION {Missing(x) : x \in DOMAIN effective.groups}
          BY <3>5, <5>1
        <5>3. UNION {Missing(x) : x \in DOMAIN effective.groups} \subseteq GroupWarnings(effective)
          BY DEF GroupWarnings, Missing
        <5> QED
          BY <2>2, <4>3, <5>2, <5>3
      <4>5. CASE m \in DOMAIN effective.models
        <5> HIDE DEF m, g
        <5>1. PICK r : r \in Elements(effective.models[m].runtimes) \cap DOMAIN Baseline.runtimes
          BY <4>3, <4>5
        <5>2. Runnable(effective, Plain(d), AllUp)
          BY <3>2, <3>5, <4>2, <4>5, <5>1, PlainRunnable
        <5>3. Decidable(effective, Plain(d), AllUp)
          BY <2>1, <2>4, PlainDecidable
        <5>4. Decide(effective, Plain(d), AllUp).action # "deny"
          BY <5>2, <5>3, DecideDenies
        <5>5. Decide(effective, Plain(d), AllUp).action # "error"
          BY <5>3, DecideTyped DEF Action
        <5> QED
          BY <5>4, <5>5
      <4> QED
        BY <4>4, <4>5
    <3> QED
      BY <3>3, <3>4, <3>5
  <2> QED
    BY <2>3, <2>4
<1> QED
  BY <1>1, SpecInv, PTL

\* The comparator eviction candidates are sorted by is a strict weak order, so that the sort is
\* well defined and a known idle time never comes after an unknown one, whatever an adapter
\* reports (plan_evictions: sort_by).
THEOREM EvictionsOrdered ==
  ASSUME NEW S, \A e \in S : e.model \in Model /\ e.idle \in Option(Nat), None \notin Nat
  PROVE  /\ \A a \in S : ~EvictedBefore(a, a)
         /\ \A a, b, c \in S : EvictedBefore(a, b) /\ EvictedBefore(b, c) => EvictedBefore(a, c)
         /\ \A a, b, c \in S : EvictedBefore(a, b) => EvictedBefore(a, c) \/ EvictedBefore(c, b)
<1>1. \A e \in S : IdOrder[e.model] \in Nat
  BY SchedulerAssumption
<1>2. \A e \in S : e.idle = None \/ e.idle \in Nat
  BY DEF Option
<1>3. ASSUME NEW a \in S PROVE ~EvictedBefore(a, a)
  BY <1>1, <1>2 DEF EvictedBefore
<1>4. ASSUME NEW a \in S, NEW b \in S, NEW c \in S, EvictedBefore(a, b), EvictedBefore(b, c)
      PROVE  EvictedBefore(a, c)
  BY <1>1, <1>2, <1>4 DEF EvictedBefore
<1>5. ASSUME NEW a \in S, NEW b \in S, NEW c \in S, EvictedBefore(a, b)
      PROVE  EvictedBefore(a, c) \/ EvictedBefore(c, b)
  BY <1>1, <1>2, <1>5 DEF EvictedBefore
<1> QED
  BY <1>3, <1>4, <1>5

\* An eviction under execution never waits for a turn that does not come: one of the unloads
\* left is next (execute_eviction_plan, which takes them in the order of the plan).
THEOREM EvictionProceeds ==
  Spec => [](eviction.at = "planned" =>
               \E e \in eviction.queue : \A other \in eviction.queue : ~EvictedBefore(other, e))
<1>1. Inv => (eviction.at = "planned" =>
                \E e \in eviction.queue : \A other \in eviction.queue : ~EvictedBefore(other, e))
  <2> SUFFICES ASSUME Inv, eviction.at = "planned"
               PROVE  \E e \in eviction.queue :
                        \A other \in eviction.queue : ~EvictedBefore(other, e)
    OBVIOUS
  <2> DEFINE Orders == {IdOrder[e.model] : e \in eviction.queue}
  <2>1. eviction.queue # {} /\ \A e \in eviction.queue : e.model \in Model /\ e.idle = None
    BY DEF Inv, EvictionOK
  <2>2. Orders \in SUBSET Nat /\ Orders # {}
    BY <2>1, SchedulerAssumption
  <2>3. PICK place \in Orders : \A other \in Orders : ~(other < place)
    <3> HIDE DEF Orders
    <3>1. PICK place \in Orders : \A other \in Orders : <<other, place>> \notin OpToRel(<, Nat)
      BY <2>2, NatLessThanWellFounded, WFMin
    <3> QED
      BY <2>2, <3>1 DEF OpToRel
  <2>4. PICK e \in eviction.queue : place = IdOrder[e.model]
    BY <2>3
  <2>5. \A other \in eviction.queue : ~(IdOrder[other.model] < IdOrder[e.model])
    BY <2>3, <2>4
  <2> QED
    BY <2>1, <2>5 DEF EvictedBefore
<1> QED
  BY <1>1, SpecInv, PTL

=============================================================================

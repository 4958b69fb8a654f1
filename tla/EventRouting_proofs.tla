-------------------------- MODULE EventRouting_proofs --------------------------
(***************************************************************************)
(* Theorems about EventRouting and the SchemaLoading it extends, for any    *)
(* factories, texts and orders in which they are found, any services,       *)
(* replicas and events, and any bounds.                                     *)
(***************************************************************************)
EXTENDS EventRouting, FiniteSetTheorems, SequenceTheorems, WellFoundedInduction, TLAPS

(***************************************************************************)
(* The schemas: the inductive invariant, of one factory.                    *)
(***************************************************************************)

\* Every reference of a file is bound once, to a name the root has, and to none
\* outside the innermost scope in which the file itself declares it.
BindingFits(b, r) ==
  /\ b.text \in r.files /\ b.ref \in Schema[b.text].references
  /\ \E n \in Found(b.ref, Names(r)) :
       /\ b.to = Candidate(b.ref, n)
       /\ \A m \in Found(b.ref, Schema[b.text].types) : m <= n

PoolFits(r) ==
  /\ \A b \in r.bound : BindingFits(b, r)
  /\ \A t \in r.files : \A ref \in Schema[t].references : \E b \in r.bound : b.text = t /\ b.ref = ref
  /\ \A b, d \in r.bound : b.text = d.text /\ b.ref = d.ref => b.to = d.to

RootFits(f) == PoolFits(root[f]) /\ parsed[f] = root[f].files

\* What an init() at work has done, and has left to do: it loads nothing that is
\* not needed in every set that has all that can be loaded, and what it set aside
\* in a pass without progress still has to wait.
ClosedUnder(G, F, customs) ==
  \A t \in F :
    (\A ref \in Schema[t].references :
       Found(ref, (UNION {Schema[u].types : u \in G \cup {t}}) \cup {<<c>> : c \in customs}) # {})
    => t \in G

Least(r, want) ==
  \A G \in SUBSET want.files : ClosedUnder(G, want.files, want.customs) => r.files \subseteq G

Waiting(f) == \A t \in Range(load[f].remaining) : t \notin root[f].files /\ Unknown(t, root[f]) # {}

LoadFits(f) ==
  load[f].busy =>
    /\ wanted[f].files = root[f].files \cup Range(load[f].pending) \cup Range(load[f].remaining)
    /\ wanted[f].customs = Registered
    /\ {w[1] : w \in root[f].wrappers} = Registered
    /\ Least(root[f], wanted[f])
    /\ ~load[f].progressed => Waiting(f)

\* How the last init() ended, against what it loaded.
EndFits(f) ==
  /\ load[f].busy <=> told[f] = "loading"
  /\ initialized[f] \/ told[f] # "none" => inits[f] >= 1
  /\ initialized[f] /\ told[f] # "loaded" => inits[f] > 1
  /\ told[f] = "loaded" => wanted[f].files \subseteq root[f].files
  /\ told[f] = "unknown type" /\ ~initialized[f] =>
       /\ root[f].files = Loadable(wanted[f].files, wanted[f].customs)
       /\ root[f].files # wanted[f].files

CustomsFit(f) ==
  /\ \A w \in root[f].wrappers : w[2] = registry[w[1]]
  /\ root[f].built => \A c \in Registered : <<c>> \in Names(root[f]) \/ c \in late[f]

FactoryFits(f) == RootFits(f) /\ LoadFits(f) /\ EndFits(f) /\ CustomsFit(f)

Bindings == [text : Texts, ref : UNION {Schema[t].references : t \in Texts}, to : Seq(STRING)]
Roots == [files : SUBSET Texts, wrappers : SUBSET (CustomTypes \X Wires), bound : SUBSET Bindings,
          built : BOOLEAN]
Loads == [busy : BOOLEAN, pending : Seq(Texts), remaining : Seq(Texts), progressed : BOOLEAN]
Wants == [files : SUBSET Texts, customs : SUBSET CustomTypes]

SchemaTyped ==
  /\ registry \in [CustomTypes -> Wires \cup {NoWire}]
  /\ root \in [Factories -> Roots]
  /\ parsed \in [Factories -> SUBSET Texts]
  /\ initialized \in [Factories -> BOOLEAN]
  /\ load \in [Factories -> Loads]
  /\ told \in [Factories -> Results]
  /\ wanted \in [Factories -> Wants]
  /\ late \in [Factories -> SUBSET CustomTypes]
  /\ inits \in [Factories -> 0..MaxInits] /\ parses \in 0..MaxParses

\* init() is synchronous.
OneAtATime == \A f, g \in Factories : load[f].busy /\ load[g].busy => f = g

SchemaInv == SchemaTyped /\ OneAtATime /\ \A f \in Factories : FactoryFits(f)

--------------------------------------------------------------------------------
(* Names and references. *)

\* A set of bounded numbers that is not empty has a greatest one.
LEMMA Greatest ==
  ASSUME NEW n \in Nat, NEW T \in SUBSET (0..n), T # {}
  PROVE  \E m \in T : \A k \in T : k <= m
<1> DEFINE R == {p \in Nat \X Nat : p[1] < p[2]}
           Left == {n - k : k \in T}
<1>1. IsWellFoundedOn(R, Nat)
  BY NatLessThanWellFounded DEF OpToRel
<1>2. Left \subseteq Nat /\ Left # {}
  <2>1. \A k \in T : k \in Nat /\ n - k \in Nat
    OBVIOUS
  <2> QED BY <2>1
<1> HIDE DEF R
<1>3. PICK x \in Left : \A y \in Left : ~(<<y, x>> \in R)
  BY <1>1, <1>2, WFMin
<1>4. \A y \in Left : ~(y < x)
  BY <1>2, <1>3 DEF R
<1>5. PICK m \in T : x = n - m
  OBVIOUS
<1>6. ASSUME NEW k \in T PROVE k <= m
  <2>1. n - k \in Left /\ ~(n - k < n - m)
    BY <1>4, <1>5
  <2>2. k \in Nat /\ m \in Nat /\ n \in Nat
    OBVIOUS
  <2> HIDE DEF Left
  <2> QED BY <2>1, <2>2
<1> QED BY <1>6

LEMMA RefTyped ==
  ASSUME NEW t \in Texts, NEW ref \in Schema[t].references
  PROVE  ref.name \in Seq(STRING) /\ ref.scope \in Seq(STRING) /\ Len(ref.scope) \in Nat
  BY SchemaAssumption

LEMMA CandidateTyped ==
  ASSUME NEW t \in Texts, NEW ref \in Schema[t].references, NEW n \in 0..Len(ref.scope)
  PROVE  Candidate(ref, n) \in Seq(STRING) /\ Len(Candidate(ref, n)) = n + Len(ref.name)
<1>1. ref.name \in Seq(STRING) /\ ref.scope \in Seq(STRING)
  BY RefTyped
<1>2. \A i \in 1..n : ref.scope[i] \in STRING
  BY <1>1
<1>3. SubSeq(ref.scope, 1, n) \in Seq(STRING) /\ Len(SubSeq(ref.scope, 1, n)) = n
  BY <1>1, <1>2, SubSeqProperties
<1> DEFINE scope == SubSeq(ref.scope, 1, n)
<1>4. Candidate(ref, n) = scope \o ref.name
  BY DEF Candidate
<1> HIDE DEF scope
<1>5. scope \o ref.name \in Seq(STRING) /\ Len(scope \o ref.name) = Len(scope) + Len(ref.name)
  <2>1. scope \in Seq(STRING)
    BY <1>3 DEF scope
  <2> QED BY <2>1, <1>1, ConcatProperties
<1> QED BY <1>3, <1>4, <1>5 DEF scope

\* _resolve_name: a reference that is found anywhere is bound to the innermost of
\* its candidates.
LEMMA TargetIsInnermost ==
  ASSUME NEW t \in Texts, NEW ref \in Schema[t].references, NEW names, Found(ref,
         names) # {}
  PROVE  /\ \E n \in Found(ref, names) :
              Target(ref, names) = Candidate(ref, n) /\ \A m \in Found(ref, names) : m <= n
         /\ Target(ref, names) \in Seq(STRING)
<1>1. Len(ref.scope) \in Nat /\ Found(ref, names) \in SUBSET (0..Len(ref.scope))
  BY RefTyped DEF Found
<1>2. PICK k \in Found(ref, names) : \A m \in Found(ref, names) : m <= k
  BY <1>1, Greatest
<1> DEFINE n == CHOOSE n \in Found(ref, names) : \A m \in Found(ref, names) : m <= n
<1>3. n \in Found(ref, names) /\ \A m \in Found(ref, names) : m <= n
  BY <1>2
<1>4. Target(ref, names) = Candidate(ref, n)
  BY DEF Target
<1> HIDE DEF n
<1>5. Candidate(ref, n) \in Seq(STRING)
  BY <1>1, <1>3, CandidateTyped
<1> QED BY <1>3, <1>4, <1>5

\* More names leave a reference found where it was.
LEMMA FoundGrows ==
  ASSUME NEW ref, NEW A, NEW B, A \subseteq B
  PROVE  Found(ref, A) \subseteq Found(ref, B)
  BY DEF Found

LEMMA NamesGrow ==
  ASSUME NEW r, NEW q, r.files \subseteq q.files, r.wrappers \subseteq q.wrappers
  PROVE  Names(r) \subseteq Names(q)
  BY DEF Names

LEMMA BindingKept ==
  ASSUME NEW r, NEW q, r.files \subseteq q.files, r.wrappers \subseteq q.wrappers,
         NEW b, BindingFits(b, r)
  PROVE  BindingFits(b, q)
<1>1. Found(b.ref, Names(r)) \subseteq Found(b.ref, Names(q))
  BY NamesGrow, FoundGrows
<1> QED BY <1>1 DEF BindingFits

\* A wrapper message more, of the same files.
LEMMA PoolKept ==
  ASSUME NEW r, NEW q, PoolFits(r), q.files = r.files, q.bound = r.bound,
         r.wrappers \subseteq q.wrappers
  PROVE  PoolFits(q)
<1>1. \A b \in q.bound : BindingFits(b, q)
  BY BindingKept DEF PoolFits
<1> QED BY <1>1 DEF PoolFits

\* add_proto, of a text that is new and that the pool does not refuse.
LEMMA AddedFits ==
  ASSUME NEW r \in Roots, PoolFits(r), NEW t \in Texts, t \notin r.files, ~Refused(t, r)
  PROVE  /\ Added(t, r) \in Roots /\ PoolFits(Added(t, r))
         /\ Added(t, r).files = r.files \cup {t} /\ Added(t, r).wrappers = r.wrappers
         /\ Added(t, r).built = r.built
<1> DEFINE q == Added(t, r)
           new == {[text |-> t, ref |-> ref, to |-> Target(ref, Visible(t, r))] :
                   ref \in Schema[t].references}
<1>1. new \subseteq Bindings
  <2> SUFFICES ASSUME NEW ref \in Schema[t].references
               PROVE  [text |-> t, ref |-> ref, to |-> Target(ref, Visible(t, r))] \in Bindings
    OBVIOUS
  <2>1. Target(ref, Visible(t, r)) \in Seq(STRING)
    BY TargetIsInnermost DEF Refused
  <2> QED BY <2>1 DEF Bindings
<1>2. /\ q \in Roots /\ q.files = r.files \cup {t} /\ q.wrappers = r.wrappers
      /\ q.bound = r.bound \cup new /\ q.built = r.built
  <2>1. q = [r EXCEPT !.files = @ \cup {t}, !.bound = @ \cup new]
    BY DEF Added
  <2> HIDE DEF q, new
  <2> QED BY <1>1, <2>1 DEF Roots
<1> HIDE DEF q
<1>3. Visible(t, r) = Names(q)
  BY <1>2 DEF Visible, Names
<1>4. ASSUME NEW b \in new
      PROVE  BindingFits(b, q)
  <2>1. PICK ref \in Schema[t].references :
               b = [text |-> t, ref |-> ref, to |-> Target(ref, Visible(t, r))]
    OBVIOUS
  <2>2. Found(ref, Visible(t, r)) # {}
    BY DEF Refused
  <2>3. PICK n \in Found(ref, Visible(t, r)) :
               Target(ref, Visible(t, r)) = Candidate(ref, n)
               /\ \A m \in Found(ref, Visible(t, r)) : m <= n
    BY <2>2, TargetIsInnermost
  <2>4. Found(ref, Schema[t].types) \subseteq Found(ref, Visible(t, r))
    BY FoundGrows DEF Visible
  <2> QED BY <2>1, <2>3, <2>4, <1>2, <1>3 DEF BindingFits
<1>5. \A b \in q.bound : BindingFits(b, q)
  <2>1. \A b \in r.bound : BindingFits(b, q)
    BY <1>2, BindingKept DEF PoolFits
  <2> HIDE DEF new
  <2> QED BY <2>1, <1>2, <1>4
<1>6. ASSUME NEW u \in q.files, NEW ref \in Schema[u].references
      PROVE  \E b \in q.bound : b.text = u /\ b.ref = ref
  <2>1. CASE u \in r.files
    BY <2>1, <1>2 DEF PoolFits
  <2>2. CASE u = t
    <3>1. [text |-> t, ref |-> ref, to |-> Target(ref, Visible(t, r))] \in new
      BY <2>2
    <3> QED BY <3>1, <2>2, <1>2
  <2> QED BY <2>1, <2>2, <1>2
<1>7. ASSUME NEW b \in q.bound, NEW d \in q.bound, b.text = d.text, b.ref = d.ref
      PROVE  b.to = d.to
  <2>1. \A x \in r.bound : x.text # t
    BY DEF PoolFits, BindingFits
  <2>2. \A x \in new : x.text = t /\ x.to = Target(x.ref, Visible(t, r))
    OBVIOUS
  <2>3. CASE b.text = t
    BY <2>1, <2>2, <2>3, <1>2, <1>7
  <2>4. CASE b.text # t
    <3>1. b \in r.bound /\ d \in r.bound
      BY <2>2, <2>4, <1>2, <1>7
    <3> QED BY <3>1, <1>7 DEF PoolFits
  <2> QED BY <2>3, <2>4
<1>8. PoolFits(q)
  BY <1>5, <1>6, <1>7 DEF PoolFits
<1> QED BY <1>2, <1>8 DEF q

--------------------------------------------------------------------------------
(* Each step of SchemaLoading preserves the invariant. *)

Untouched(f) ==
  /\ root'[f] = root[f] /\ parsed'[f] = parsed[f] /\ initialized'[f] = initialized[f]
  /\ load'[f] = load[f] /\ told'[f] = told[f] /\ wanted'[f] = wanted[f] /\ late'[f] = late[f]
  /\ inits'[f] = inits[f]

LEMMA FactoryKept ==
  ASSUME NEW f, FactoryFits(f), Untouched(f), registry' = registry
  PROVE  FactoryFits(f)'
<1>1. Registered' = Registered
  BY DEF Registered
<1>2. \A t, r : Unknown(t, r)' = Unknown(t, r)
  BY <1>1 DEF Unknown
<1>3. RootFits(f)'
  BY DEF FactoryFits, RootFits, Untouched
<1>4. LoadFits(f)'
  <2>1. Waiting(f) => Waiting(f)'
    BY <1>2 DEF Waiting, Untouched
  <2> QED BY <2>1, <1>1 DEF FactoryFits, LoadFits, Untouched
<1>5. EndFits(f)'
  BY DEF FactoryFits, EndFits, Untouched
<1>6. CustomsFit(f)'
  BY <1>1 DEF FactoryFits, CustomsFit, Untouched
<1> QED BY <1>3, <1>4, <1>5, <1>6 DEF FactoryFits

LEMMA SchemaInitHolds == SchemaInit => SchemaInv
<1> SUFFICES ASSUME SchemaInit PROVE SchemaInv
  OBVIOUS
<1>1. SchemaTyped
  <2>1. Idle \in Loads /\ NoRoot \in Roots
    BY DEF Idle, Loads, NoRoot, Roots
  <2>2. [files |-> {}, customs |-> {}] \in Wants
    BY DEF Wants
  <2> QED BY <2>1, <2>2, SchemaBounds DEF SchemaInit, SchemaTyped, Results
<1>2. \A f \in Factories : ~load[f].busy
  BY DEF SchemaInit, Idle
<1>3. ASSUME NEW f \in Factories PROVE FactoryFits(f)
  <2>1. root[f] = NoRoot /\ parsed[f] = {} /\ ~load[f].busy /\ ~initialized[f] /\ told[f] = "none"
    BY <1>2 DEF SchemaInit
  <2>2. PoolFits(NoRoot)
    BY DEF PoolFits, NoRoot
  <2> QED BY <2>1, <2>2 DEF FactoryFits, RootFits, LoadFits, EndFits, CustomsFit, NoRoot
<1> QED BY <1>1, <1>2, <1>3 DEF SchemaInv, OneAtATime

LEMMA WrapperNames ==
  ASSUME NEW r, NEW w \in r.wrappers
  PROVE  <<w[1]>> \in Names(r)
<1>1. <<w[1]>> \in {<<v[1]>> : v \in r.wrappers}
  OBVIOUS
<1>2. {<<v[1]>> : v \in r.wrappers} \subseteq Names(r)
  BY DEF Names
<1> QED BY <1>1, <1>2

\* What a fresh root and a fresh load are.
LEMMA FreshRoot ==
  ASSUME NEW W \in SUBSET (CustomTypes \X Wires), NEW r,
         r = [NoRoot EXCEPT !.built = TRUE, !.wrappers = W]
  PROVE  r \in Roots /\ r.files = {} /\ r.wrappers = W /\ r.bound = {} /\ r.built
<1>1. NoRoot \in Roots /\ NoRoot.files = {} /\ NoRoot.bound = {}
  BY DEF NoRoot, Roots
<1>2. /\ r \in Roots /\ r.files = NoRoot.files /\ r.wrappers = W
      /\ r.bound = NoRoot.bound /\ r.built = TRUE
  BY <1>1 DEF Roots
<1> QED BY <1>1, <1>2

LEMMA FreshLoad ==
  ASSUME NEW files \in Seq(Texts), NEW l, l = [Idle EXCEPT !.busy = TRUE,
         !.pending = files]
  PROVE  l \in Loads /\ l.busy /\ l.pending = files /\ l.remaining = <<>> /\ ~l.progressed
<1>1. Idle \in Loads /\ Idle.remaining = <<>> /\ Idle.progressed = FALSE
  BY DEF Idle, Loads
<1>2. /\ l \in Loads /\ l.busy = TRUE /\ l.pending = files
      /\ l.remaining = Idle.remaining /\ l.progressed = Idle.progressed
  BY <1>1 DEF Loads
<1> QED BY <1>1, <1>2

\* _ensure_root and the files as they are found.
LEMMA StartInitKeeps ==
  ASSUME SchemaInv, NEW f \in Factories, StartInit(f)
  PROVE  SchemaInv'
<1>1. PICK files \in Locations :
        /\ load' = [load EXCEPT ![f] = [Idle EXCEPT !.busy = TRUE, !.pending = files]]
        /\ wanted' = [wanted EXCEPT ![f] = [files |-> Range(files), customs |-> Registered]]
  BY DEF StartInit
<1> DEFINE l == [Idle EXCEPT !.busy = TRUE, !.pending = files]
           W == {<<c, registry[c]>> : c \in Registered}
           r == [NoRoot EXCEPT !.built = TRUE, !.wrappers = W]
           w == [files |-> Range(files), customs |-> Registered]
<1>2. /\ load' = [load EXCEPT ![f] = l] /\ root' = [root EXCEPT ![f] = r]
      /\ wanted' = [wanted EXCEPT ![f] = w]
      /\ parsed' = [parsed EXCEPT ![f] = {}] /\ late' = [late EXCEPT ![f] = {}]
      /\ told' = [told EXCEPT ![f] = "loading"] /\ inits' = [inits EXCEPT ![f] = @ + 1]
      /\ registry' = registry /\ initialized' = initialized /\ parses' = parses
      /\ inits[f] < MaxInits /\ \A g \in Factories : ~load[g].busy
  BY <1>1 DEF StartInit, Free
<1>3. Registered' = Registered /\ \A c \in Registered : registry[c] \in Wires /\ c \in CustomTypes
  BY <1>2 DEF Registered, SchemaInv, SchemaTyped
<1>4. W \in SUBSET (CustomTypes \X Wires)
  BY <1>3
<1>5. files \in Seq(Texts) /\ Range(files) \subseteq Texts
  BY SchemaAssumption, RangeOfSeq
<1>6. l \in Loads /\ l.busy /\ l.pending = files /\ l.remaining = <<>> /\ ~l.progressed
  <2> HIDE DEF l
  <2> QED BY <1>5, FreshLoad DEF l
<1> HIDE DEF W
<1>7. r \in Roots /\ r.files = {} /\ r.wrappers = W /\ r.bound = {} /\ r.built
  <2> HIDE DEF r
  <2> QED BY <1>4, FreshRoot DEF r
<1>8. w \in Wants /\ w.files = Range(files) /\ w.customs = Registered
  BY <1>3, <1>5 DEF Wants
<1> HIDE DEF l, r, w
<1>9. SchemaTyped'
  <2>1. inits' \in [Factories -> 0..MaxInits]
    BY <1>2, SchemaBounds DEF SchemaInv, SchemaTyped
  <2> QED BY <2>1, <1>2, <1>6, <1>7, <1>8 DEF SchemaInv, SchemaTyped, Results
<1>10. /\ load'[f] = l /\ root'[f] = r /\ parsed'[f] = {} /\ told'[f] = "loading" /\ wanted'[f] = w
       /\ inits'[f] = inits[f] + 1 /\ initialized'[f] = initialized[f] /\ inits[f] \in Nat
  BY <1>2, SchemaBounds DEF SchemaInv, SchemaTyped
<1>11. \A g \in Factories \ {f} : Untouched(g)
  BY <1>2 DEF SchemaInv, SchemaTyped, Untouched
<1>12. OneAtATime'
  BY <1>2, <1>11 DEF OneAtATime, Untouched
<1>13. FactoryFits(f)'
  <2>1. RootFits(f)'
    BY <1>7, <1>10 DEF RootFits, PoolFits
  <2>2. LoadFits(f)'
    <3>1. {v[1] : v \in r.wrappers} = Registered
      <4>1. ASSUME NEW c \in Registered PROVE c \in {v[1] : v \in r.wrappers}
        <5>1. <<c, registry[c]>> \in r.wrappers /\ <<c, registry[c]>>[1] = c
          BY <1>7 DEF W
        <5> QED BY <5>1
      <4>2. \A v \in r.wrappers : v[1] \in Registered
        BY <1>7 DEF W
      <4> QED BY <4>1, <4>2
    <3>2. Range(l.remaining) = {}
      BY <1>6 DEF Range
    <3>3. Least(r, w)
      BY <1>7 DEF Least
    <3>4. Waiting(f)'
      BY <3>2, <1>10 DEF Waiting
    <3> QED BY <3>1, <3>2, <3>3, <3>4, <1>3, <1>6, <1>7, <1>8, <1>10 DEF LoadFits
  <2>3. EndFits(f)'
    <3>1. inits'[f] >= 1 /\ (initialized'[f] => inits'[f] > 1)
      <4>1. initialized[f] => inits[f] >= 1
        BY DEF SchemaInv, FactoryFits, EndFits
      <4>2. inits'[f] >= 1
        BY <1>10
      <4> QED BY <4>1, <4>2, <1>10
    <3> QED BY <3>1, <1>6, <1>10 DEF EndFits
  <2>4. CustomsFit(f)'
    <3>1. \A c \in Registered : <<c>> \in Names(r)
      <4> SUFFICES ASSUME NEW c \in Registered PROVE <<c>> \in Names(r)
        OBVIOUS
      <4>1. <<c, registry[c]>> \in r.wrappers /\ <<c, registry[c]>>[1] = c
        BY <1>7 DEF W
      <4> QED BY <4>1, WrapperNames
    <3>2. \A v \in r.wrappers : v[2] = registry[v[1]]
      BY <1>7 DEF W
    <3> QED BY <3>1, <3>2, <1>2, <1>3, <1>10 DEF CustomsFit
  <2> QED BY <2>1, <2>2, <2>3, <2>4 DEF FactoryFits
<1>14. \A g \in Factories : FactoryFits(g)'
  BY <1>2, <1>11, <1>13, FactoryKept DEF SchemaInv
<1> QED BY <1>9, <1>12, <1>14 DEF SchemaInv

LEMMA Loadables ==
  ASSUME NEW F, NEW customs
  PROVE  Loadable(F, customs) = {t \in F : \A G \in SUBSET F : ClosedUnder(G, F, customs) => t \in G}
  BY DEF Loadable, ClosedUnder

\* What the parser can see of a factory at work, the closure can.
LEMMA VisibleIsClosed ==
  ASSUME NEW t, NEW r, NEW G, NEW customs, r.files \subseteq G,
         {w[1] : w \in r.wrappers} = customs
  PROVE  Visible(t, r) \subseteq
           (UNION {Schema[u].types : u \in G \cup {t}}) \cup {<<c>> : c \in customs}
<1>1. \A w \in r.wrappers : <<w[1]>> \in {<<c>> : c \in customs}
  OBVIOUS
<1>2. Schema[t].types \subseteq UNION {Schema[u].types : u \in G \cup {t}}
  OBVIOUS
<1>3. UNION {Schema[u].types : u \in r.files} \subseteq UNION {Schema[u].types : u \in G \cup {t}}
  OBVIOUS
<1> QED BY <1>1, <1>2, <1>3 DEF Visible, Names

LEMMA AddedIsLeast ==
  ASSUME NEW t, NEW r, NEW want, Least(r, want), t \in want.files, ~Refused(t, r),
         {w[1] : w \in r.wrappers} = want.customs, NEW q, q.files = r.files \cup {t}
  PROVE  Least(q, want)
<1> SUFFICES ASSUME NEW G \in SUBSET want.files, ClosedUnder(G, want.files, want.customs)
             PROVE  t \in G
  BY DEF Least
<1>1. r.files \subseteq G
  BY DEF Least
<1> DEFINE names == (UNION {Schema[u].types : u \in G \cup {t}}) \cup {<<c>> : c \in want.customs}
<1>2. Visible(t, r) \subseteq names
  BY <1>1, VisibleIsClosed
<1>3. \A ref \in Schema[t].references : Found(ref, names) # {}
  <2> HIDE DEF names
  <2> SUFFICES ASSUME NEW ref \in Schema[t].references PROVE Found(ref, names) # {}
    OBVIOUS
  <2>1. Found(ref, Visible(t, r)) \subseteq Found(ref, names)
    BY <1>2, FoundGrows
  <2> QED BY <2>1 DEF Refused
<1> QED BY <1>3 DEF ClosedUnder

\* A text that waits for another one is in no set whose references all resolve...
LEMMA StuckIsClosed ==
  ASSUME NEW r, NEW want, r.files \subseteq want.files, Registered = want.customs,
         {w[1] : w \in r.wrappers} = want.customs,
         \A t \in want.files \ r.files : Unknown(t, r) # {}
  PROVE  ClosedUnder(r.files, want.files, want.customs)
<1> SUFFICES ASSUME NEW t \in want.files, t \notin r.files
             PROVE  \E ref \in Schema[t].references :
                      Found(ref, (UNION {Schema[u].types : u \in r.files \cup {t}})
                                 \cup {<<c>> : c \in want.customs}) = {}
  BY DEF ClosedUnder
<1>1. PICK ref \in Schema[t].references : Found(ref, Visible(t, r)) = {}
  BY DEF Unknown
<1> DEFINE names == (UNION {Schema[u].types : u \in r.files \cup {t}}) \cup {<<c>> : c \in want.customs}
<1>2. names \subseteq Visible(t, r)
  <2>1. ASSUME NEW c \in want.customs PROVE <<c>> \in Names(r)
    <3>1. PICK w \in r.wrappers : w[1] = c
      OBVIOUS
    <3> QED BY <3>1, WrapperNames
  <2>2. UNION {Schema[u].types : u \in r.files \cup {t}} \subseteq Visible(t, r)
    BY DEF Visible, Names
  <2> QED BY <2>1, <2>2 DEF Visible
<1>3. Found(ref, names) = {}
  <2> HIDE DEF names
  <2> QED BY <1>1, <1>2, FoundGrows
<1> QED BY <1>3

LEMMA Listing ==
  ASSUME NEW S, NEW s \in Seq(S)
  PROVE  /\ Range(s) \subseteq S /\ Range(s \o <<>>) = Range(s) /\ s \o <<>> \in Seq(S)
         /\ \A x \in S : Range(s \o <<x>>) = Range(s) \cup {x} /\ s \o <<x>> \in Seq(S)
         /\ s # <<>> => /\ Head(s) \in S /\ Tail(s) \in Seq(S)
                        /\ Range(s) = {Head(s)} \cup Range(Tail(s))
<1>1. <<>> \in Seq(S) /\ Range(<<>>) = {}
  BY DEF Range
<1>2. ASSUME NEW x \in S PROVE <<x>> \in Seq(S) /\ Range(<<x>>) = {x}
  BY DEF Range
<1>3. Range(s) \subseteq S
  BY RangeOfSeq
<1>4. Range(s \o <<>>) = Range(s) /\ s \o <<>> \in Seq(S)
  BY <1>1, RangeConcatenation, ConcatProperties
<1>5. ASSUME NEW x \in S PROVE Range(s \o <<x>>) = Range(s) \cup {x} /\ s \o <<x>> \in Seq(S)
  <2> DEFINE u == <<x>>
  <2>1. u \in Seq(S) /\ Range(u) = {x}
    BY <1>2
  <2> HIDE DEF u
  <2>2. Range(s \o u) = Range(s) \cup Range(u) /\ s \o u \in Seq(S)
    BY <2>1, RangeConcatenation, ConcatProperties
  <2> QED BY <2>1, <2>2 DEF u
<1>6. ASSUME s # <<>>
      PROVE  Head(s) \in S /\ Tail(s) \in Seq(S) /\ Range(s) = {Head(s)} \cup Range(Tail(s))
  <2>1. Head(s) \in S /\ Tail(s) \in Seq(S) /\ Len(Tail(s)) = Len(s) - 1 /\ Len(s) \in Nat \ {0}
    BY <1>6
  <2>2. Head(s) = s[1] /\ \A i \in 1..Len(Tail(s)) : Tail(s)[i] = s[i + 1]
    BY <1>6
  <2>3. Range(s) = {s[i] : i \in 1..Len(s)} /\ Range(Tail(s)) = {Tail(s)[i] : i \in 1..Len(Tail(s))}
    BY <2>1, RangeEquality
  <2> DEFINE u == Tail(s) n == Len(s)
  <2> HIDE DEF u, n
  <2>4. ASSUME NEW i \in 1..n PROVE s[i] \in {s[1]} \cup {u[j] : j \in 1..Len(u)}
    <3>1. CASE i = 1
      BY <3>1
    <3>2. CASE i # 1
      <4>1. i - 1 \in 1..Len(u) /\ (i - 1) + 1 = i
        BY <3>2, <2>1 DEF u, n
      <4>2. u[i - 1] = s[i]
        BY <4>1, <2>2 DEF u
      <4> QED BY <4>1, <4>2
    <3> QED BY <3>1, <3>2
  <2>5. ASSUME NEW j \in 1..Len(u) PROVE u[j] \in {s[i] : i \in 1..n}
    <3>1. j + 1 \in 1..n /\ u[j] = s[j + 1]
      BY <2>1, <2>2 DEF u, n
    <3> QED BY <3>1
  <2>6. s[1] \in {s[i] : i \in 1..n}
    <3>1. 1 \in 1..n
      BY <2>1 DEF n
    <3> QED BY <3>1
  <2>7. {s[i] : i \in 1..n} = {s[1]} \cup {u[j] : j \in 1..Len(u)}
    BY <2>4, <2>5, <2>6
  <2> QED BY <2>1, <2>2, <2>3, <2>7 DEF u, n
<1> QED BY <1>3, <1>4, <1>5, <1>6

\* What a pass does to the loop's lists, with the text it takes and what it sets aside.
Takes(f, aside, progress) ==
  load' = [load EXCEPT ![f].pending = Tail(@), ![f].remaining = @ \o aside,
                       ![f].progressed = @ \/ progress]

LEMMA TakesOne ==
  ASSUME SchemaTyped, NEW f \in Factories, load[f].pending # <<>>,
         NEW aside, load[f].remaining \o aside \in Seq(Texts), NEW progress \in BOOLEAN,
         Takes(f, aside, progress)
  PROVE  /\ load' \in [Factories -> Loads] /\ \A g \in Factories \ {f} : load'[g] = load[g]
         /\ load'[f].pending = Tail(load[f].pending)
         /\ load'[f].remaining = load[f].remaining \o aside
         /\ load'[f].busy = load[f].busy
         /\ load'[f].progressed = (load[f].progressed \/ progress)
<1> DEFINE l == load[f]
           joined == l.remaining \o aside
           a == [l EXCEPT !.pending = Tail(@)]
           b == [a EXCEPT !.remaining = joined]
           c == [b EXCEPT !.progressed = @ \/ progress]
<1>1. l \in Loads /\ Tail(l.pending) \in Seq(Texts) /\ joined \in Seq(Texts)
  BY DEF SchemaTyped, Loads
<1>2. load' = [load EXCEPT ![f] = c]
  BY DEF Takes, SchemaTyped, Loads
<1> HIDE DEF l, joined
<1>3. /\ a \in Loads /\ a.pending = Tail(l.pending) /\ a.remaining = l.remaining
      /\ a.busy = l.busy /\ a.progressed = l.progressed
  BY <1>1 DEF Loads
<1> HIDE DEF a
<1>4. /\ b \in Loads /\ b.pending = a.pending /\ b.remaining = joined
      /\ b.busy = l.busy /\ b.progressed = l.progressed
  BY <1>1, <1>3 DEF Loads
<1> HIDE DEF b
<1>5. /\ c \in Loads /\ c.pending = b.pending /\ c.remaining = b.remaining
      /\ c.busy = l.busy /\ c.progressed = (l.progressed \/ progress)
  BY <1>4 DEF Loads
<1> HIDE DEF c
<1> QED BY <1>2, <1>3, <1>4, <1>5 DEF SchemaTyped, l, joined

LEMMA LoadFileKeeps ==
  ASSUME SchemaInv, NEW f \in Factories, LoadFile(f)
  PROVE  SchemaInv'
<1> DEFINE t == Head(load[f].pending)
           r == root[f]
           rest == load[f].remaining
<1>1. /\ load[f].busy /\ load[f].pending # <<>>
      /\ registry' = registry /\ initialized' = initialized /\ wanted' = wanted /\ late' = late
      /\ inits' = inits /\ parses' = parses
  BY DEF LoadFile
<1>2. SchemaTyped /\ RootFits(f) /\ LoadFits(f) /\ EndFits(f) /\ CustomsFit(f)
  BY DEF SchemaInv, FactoryFits
<1>3. load[f] \in Loads /\ r \in Roots /\ wanted[f] \in Wants
  BY <1>2 DEF SchemaTyped
<1>4. load[f].pending \in Seq(Texts) /\ rest \in Seq(Texts)
  BY <1>3 DEF Loads
<1>5. t \in Texts /\ Range(load[f].pending) = {t} \cup Range(Tail(load[f].pending))
  BY <1>1, <1>4, Listing
<1>6. /\ Range(rest \o <<>>) = Range(rest) /\ rest \o <<>> \in Seq(Texts)
      /\ Range(rest \o <<t>>) = Range(rest) \cup {t} /\ rest \o <<t>> \in Seq(Texts)
  BY <1>4, <1>5, Listing
<1>7. /\ wanted[f].files = r.files \cup Range(load[f].pending) \cup Range(rest)
      /\ wanted[f].customs = Registered /\ {w[1] : w \in r.wrappers} = Registered
      /\ Least(r, wanted[f]) /\ (~load[f].progressed => Waiting(f))
      /\ told[f] = "loading" /\ parsed[f] = r.files /\ PoolFits(r)
  BY <1>1, <1>2 DEF LoadFits, EndFits, RootFits
<1>8. Registered' = Registered
  BY <1>1 DEF Registered
<1>9. \A u, q : Unknown(u, q)' = Unknown(u, q)
  BY <1>8 DEF Unknown
<1>10. \/ /\ t \in r.files /\ Takes(f, <<>>, TRUE)
          /\ root' = root /\ parsed' = parsed /\ told' = told
       \/ /\ t \notin r.files /\ Unknown(t, r) # {} /\ Takes(f, <<t>>, FALSE)
          /\ root' = root /\ parsed' = parsed /\ told' = told
       \/ /\ Raised(f, "refused") /\ root' = root /\ parsed' = parsed
       \/ /\ t \notin r.files /\ ~Refused(t, r) /\ Takes(f, <<>>, TRUE)
          /\ root' = [root EXCEPT ![f] = Added(t, @)] /\ parsed' = [parsed EXCEPT ![f] = @ \cup {t}]
          /\ told' = told
  BY <1>7 DEF LoadFile, Takes
<1> HIDE DEF t, r, rest
<1>11. CASE /\ t \in r.files /\ Takes(f, <<>>, TRUE)
            /\ root' = root /\ parsed' = parsed /\ told' = told
  <2>1. /\ load' \in [Factories -> Loads] /\ \A g \in Factories \ {f} : load'[g] = load[g]
        /\ load'[f].pending = Tail(load[f].pending) /\ load'[f].remaining = rest \o <<>>
        /\ load'[f].busy /\ load'[f].progressed
    BY <1>1, <1>2, <1>6, <1>11, TakesOne DEF rest
  <2>2. LoadFits(f)'
    BY <2>1, <1>1, <1>5, <1>6, <1>7, <1>8, <1>11 DEF LoadFits, r
  <2>3. RootFits(f)' /\ EndFits(f)' /\ CustomsFit(f)'
    BY <2>1, <1>1, <1>2, <1>8, <1>11 DEF RootFits, EndFits, CustomsFit
  <2>4. SchemaTyped'
    BY <2>1, <1>1, <1>2, <1>11 DEF SchemaTyped
  <2>5. OneAtATime'
    BY <2>1, <1>1 DEF SchemaInv, OneAtATime
  <2>6. \A g \in Factories \ {f} : FactoryFits(g)'
    BY <2>1, <1>1, <1>11, FactoryKept DEF SchemaInv, Untouched
  <2> QED BY <2>2, <2>3, <2>4, <2>5, <2>6 DEF SchemaInv, FactoryFits
<1>12. CASE /\ t \notin r.files /\ Unknown(t, r) # {} /\ Takes(f, <<t>>, FALSE)
            /\ root' = root /\ parsed' = parsed /\ told' = told
  <2>1. /\ load' \in [Factories -> Loads] /\ \A g \in Factories \ {f} : load'[g] = load[g]
        /\ load'[f].pending = Tail(load[f].pending) /\ load'[f].remaining = rest \o <<t>>
        /\ load'[f].busy /\ load'[f].progressed = load[f].progressed
    BY <1>1, <1>2, <1>3, <1>6, <1>12, TakesOne DEF rest, Loads
  <2>2. ~load[f].progressed => Waiting(f)'
    BY <2>1, <1>6, <1>7, <1>9, <1>12 DEF Waiting, r, rest
  <2>3. LoadFits(f)'
    BY <2>1, <2>2, <1>1, <1>5, <1>6, <1>7, <1>8, <1>12 DEF LoadFits, r
  <2>4. RootFits(f)' /\ EndFits(f)' /\ CustomsFit(f)'
    BY <2>1, <1>1, <1>2, <1>8, <1>12 DEF RootFits, EndFits, CustomsFit
  <2>5. SchemaTyped'
    BY <2>1, <1>1, <1>2, <1>12 DEF SchemaTyped
  <2>6. OneAtATime'
    BY <2>1, <1>1 DEF SchemaInv, OneAtATime
  <2>7. \A g \in Factories \ {f} : FactoryFits(g)'
    BY <2>1, <1>1, <1>12, FactoryKept DEF SchemaInv, Untouched
  <2> QED BY <2>3, <2>4, <2>5, <2>6, <2>7 DEF SchemaInv, FactoryFits
<1>13. CASE Raised(f, "refused") /\ root' = root /\ parsed' = parsed
  <2>1. Idle \in Loads /\ ~Idle.busy
    BY DEF Idle, Loads
  <2>2. /\ load' = [load EXCEPT ![f] = Idle] /\ told' = [told EXCEPT ![f] = "refused"]
    BY <1>13 DEF Raised
  <2>3. SchemaTyped'
    BY <2>1, <2>2, <1>1, <1>2, <1>13 DEF SchemaTyped, Results
  <2>4. load'[f] = Idle /\ told'[f] = "refused"
    BY <2>2, <1>2 DEF SchemaTyped
  <2>5. \A g \in Factories \ {f} : Untouched(g)
    BY <2>2, <1>1, <1>2, <1>13 DEF SchemaTyped, Untouched
  <2>6. FactoryFits(f)'
    <3>1. LoadFits(f)'
      BY <2>1, <2>4 DEF LoadFits
    <3>2. EndFits(f)'
      BY <2>1, <2>4, <1>1, <1>2, <1>7 DEF EndFits
    <3>3. RootFits(f)' /\ CustomsFit(f)'
      BY <1>1, <1>2, <1>8, <1>13 DEF RootFits, CustomsFit
    <3> QED BY <3>1, <3>2, <3>3 DEF FactoryFits
  <2>7. OneAtATime'
    BY <2>1, <2>4, <2>5 DEF SchemaInv, OneAtATime, Untouched
  <2>8. \A g \in Factories \ {f} : FactoryFits(g)'
    BY <2>5, <1>1, FactoryKept DEF SchemaInv
  <2> QED BY <2>3, <2>6, <2>7, <2>8 DEF SchemaInv
<1>14. CASE /\ t \notin r.files /\ ~Refused(t, r) /\ Takes(f, <<>>, TRUE)
            /\ root' = [root EXCEPT ![f] = Added(t, @)] /\ parsed' = [parsed EXCEPT ![f] = @ \cup {t}]
            /\ told' = told
  <2> DEFINE q == Added(t, r)
  <2>1. /\ load' \in [Factories -> Loads] /\ \A g \in Factories \ {f} : load'[g] = load[g]
        /\ load'[f].pending = Tail(load[f].pending) /\ load'[f].remaining = rest \o <<>>
        /\ load'[f].busy /\ load'[f].progressed
    BY <1>1, <1>2, <1>6, <1>14, TakesOne DEF rest
  <2>2. /\ q \in Roots /\ PoolFits(q) /\ q.files = r.files \cup {t}
        /\ q.wrappers = r.wrappers /\ q.built = r.built
    BY <1>3, <1>5, <1>7, <1>14, AddedFits
  <2> HIDE DEF q
  <2>3. root' = [root EXCEPT ![f] = q]
    BY <1>14 DEF q, r
  <2>4. root'[f] = q /\ parsed'[f] = parsed[f] \cup {t}
    BY <2>3, <1>2, <1>14 DEF SchemaTyped
  <2>5. \A g \in Factories \ {f} : Untouched(g)
    BY <2>1, <2>3, <1>1, <1>2, <1>14 DEF SchemaTyped, Untouched
  <2>6. SchemaTyped'
    BY <2>1, <2>2, <2>3, <1>1, <1>2, <1>5, <1>14 DEF SchemaTyped
  <2>7. LoadFits(f)'
    <3>1. Least(q, wanted[f])
      BY <2>2, <1>5, <1>7, <1>14, AddedIsLeast
    <3> QED BY <3>1, <2>1, <2>2, <2>4, <1>1, <1>5, <1>6, <1>7, <1>8 DEF LoadFits
  <2>8. RootFits(f)'
    BY <2>2, <2>4, <1>7 DEF RootFits
  <2>9. EndFits(f)'
    BY <2>1, <1>1, <1>2, <1>7, <1>14 DEF EndFits
  <2>10. CustomsFit(f)'
    <3>1. Names(r) \subseteq Names(q)
      BY <2>2, NamesGrow
    <3> QED BY <3>1, <2>2, <2>4, <1>1, <1>2, <1>8 DEF CustomsFit, r
  <2>11. OneAtATime'
    BY <2>1, <1>1 DEF SchemaInv, OneAtATime
  <2>12. \A g \in Factories \ {f} : FactoryFits(g)'
    BY <2>5, <1>1, FactoryKept DEF SchemaInv
  <2> QED BY <2>6, <2>7, <2>8, <2>9, <2>10, <2>11, <2>12 DEF SchemaInv, FactoryFits
<1> QED BY <1>10, <1>11, <1>12, <1>13, <1>14

\* The end of a pass.
LEMMA NextPassKeeps ==
  ASSUME SchemaInv, NEW f \in Factories, NextPass(f)
  PROVE  SchemaInv'
<1> DEFINE r == root[f]
           want == wanted[f]
           rest == load[f].remaining
<1>1. /\ load[f].busy /\ load[f].pending = <<>>
      /\ registry' = registry /\ root' = root /\ parsed' = parsed /\ wanted' = wanted /\ late' = late
      /\ inits' = inits /\ parses' = parses
  BY DEF NextPass
<1>2. SchemaTyped /\ RootFits(f) /\ LoadFits(f) /\ EndFits(f) /\ CustomsFit(f)
  BY DEF SchemaInv, FactoryFits
<1>3. rest \in Seq(Texts) /\ Range(<<>>) = {}
  BY <1>2 DEF SchemaTyped, Loads, Range
<1>4. /\ want.files = r.files \cup Range(rest)
      /\ want.customs = Registered /\ {w[1] : w \in r.wrappers} = Registered
      /\ Least(r, want) /\ (~load[f].progressed => Waiting(f))
      /\ told[f] = "loading" /\ inits[f] >= 1 /\ (initialized[f] => inits[f] > 1)
  BY <1>1, <1>2, <1>3 DEF LoadFits, EndFits
<1>5. Registered' = Registered
  BY <1>1 DEF Registered
<1>6. RootFits(f)' /\ CustomsFit(f)'
  BY <1>1, <1>2, <1>5 DEF RootFits, CustomsFit
<1>7. Idle \in Loads /\ ~Idle.busy
  BY DEF Idle, Loads
\* How it ends matters to this factory alone.
<1>8. ASSUME NEW l \in Loads, load' = [load EXCEPT ![f] = l],
             \E how \in Results : told' = [told EXCEPT ![f] = how],
             \E yes \in BOOLEAN : initialized' = [initialized EXCEPT ![f] = yes],
             LoadFits(f)', EndFits(f)'
      PROVE  SchemaInv'
  <2>1. SchemaTyped'
    BY <1>1, <1>2, <1>8 DEF SchemaTyped
  <2>2. \A g \in Factories \ {f} : Untouched(g)
    BY <1>1, <1>2, <1>8 DEF SchemaTyped, Untouched
  <2>3. OneAtATime'
    BY <2>2, <1>1 DEF SchemaInv, OneAtATime, Untouched
  <2>4. \A g \in Factories \ {f} : FactoryFits(g)'
    BY <2>2, <1>1, FactoryKept DEF SchemaInv
  <2> QED BY <2>1, <2>3, <2>4, <1>6, <1>8 DEF SchemaInv, FactoryFits
<1> HIDE DEF r, want, rest
<1>9. CASE rest = <<>>
  <2>1. /\ load' = [load EXCEPT ![f] = Idle] /\ told' = [told EXCEPT ![f] = "loaded"]
        /\ initialized' = [initialized EXCEPT ![f] = TRUE]
    BY <1>9 DEF NextPass, Raised, rest
  <2>2. load'[f] = Idle /\ told'[f] = "loaded"
    BY <2>1, <1>2 DEF SchemaTyped
  <2>3. LoadFits(f)'
    BY <2>2, <1>7 DEF LoadFits
  <2>4. want.files \subseteq r.files
    BY <1>3, <1>4, <1>9
  <2>5. EndFits(f)'
    BY <2>2, <2>4, <1>1, <1>4, <1>7 DEF EndFits, r, want
  <2> QED BY <2>1, <2>3, <2>5, <1>7, <1>8 DEF Results
<1>10. CASE rest # <<>> /\ load[f].progressed
  <2> DEFINE l == [Idle EXCEPT !.busy = TRUE, !.pending = rest]
  <2>1. load' = [load EXCEPT ![f] = l] /\ told' = told /\ initialized' = initialized
    BY <1>10 DEF NextPass, rest
  <2>2. l \in Loads /\ l.busy /\ l.pending = rest /\ l.remaining = <<>> /\ ~l.progressed
    <3> HIDE DEF l
    <3> QED BY <1>3, FreshLoad DEF l
  <2> HIDE DEF l
  <2>3. load'[f] = l
    BY <2>1, <1>2 DEF SchemaTyped
  <2>4. LoadFits(f)'
    <3>1. Waiting(f)'
      BY <2>2, <2>3, <1>3 DEF Waiting
    <3> QED BY <3>1, <2>2, <2>3, <1>1, <1>3, <1>4, <1>5 DEF LoadFits, r, want
  <2>5. EndFits(f)'
    BY <2>1, <2>2, <2>3, <1>1, <1>2, <1>4 DEF EndFits
  <2>6. /\ told' = [told EXCEPT ![f] = told[f]] /\ told[f] \in Results
        /\ initialized' = [initialized EXCEPT ![f] = initialized[f]] /\ initialized[f] \in BOOLEAN
    BY <2>1, <1>2 DEF SchemaTyped
  <2> QED BY <2>1, <2>2, <2>4, <2>5, <2>6, <1>8
<1>11. CASE rest # <<>> /\ ~load[f].progressed
  <2>1. /\ load' = [load EXCEPT ![f] = Idle] /\ told' = [told EXCEPT ![f] = "unknown type"]
        /\ initialized' = initialized
    BY <1>11 DEF NextPass, Raised, rest
  <2>2. load'[f] = Idle /\ told'[f] = "unknown type"
    BY <2>1, <1>2 DEF SchemaTyped
  <2>3. LoadFits(f)'
    BY <2>2, <1>7 DEF LoadFits
  <2>4. \A t \in want.files \ r.files : Unknown(t, r) # {}
    BY <1>4, <1>11 DEF Waiting, r, rest
  <2>5. ClosedUnder(r.files, want.files, want.customs)
    BY <2>4, <1>4, StuckIsClosed
  <2>6. r.files = Loadable(want.files, want.customs)
    <3>1. \A t \in r.files : \A G \in SUBSET want.files :
             ClosedUnder(G, want.files, want.customs) => t \in G
      BY <1>4 DEF Least
    <3>2. r.files \in SUBSET want.files
      BY <1>4
    <3>3. \A t \in want.files :
             (\A G \in SUBSET want.files : ClosedUnder(G, want.files, want.customs) => t \in G)
             => t \in r.files
      BY <2>5, <3>2
    <3>4. Loadable(want.files, want.customs) =
            {t \in want.files :
               \A G \in SUBSET want.files : ClosedUnder(G, want.files, want.customs) => t \in G}
      BY Loadables
    <3> QED BY <3>1, <3>2, <3>3, <3>4
  <2>7. r.files # want.files
    <3>1. Head(rest) \in Range(rest)
      BY <1>3, <1>11, Listing
    <3> QED BY <3>1, <1>4, <1>11 DEF Waiting, r, rest
  <2>8. EndFits(f)'
    BY <2>1, <2>2, <2>6, <2>7, <1>1, <1>4, <1>7 DEF EndFits, r, want
  <2>9. initialized' = [initialized EXCEPT ![f] = initialized[f]] /\ initialized[f] \in BOOLEAN
    BY <2>1, <1>2 DEF SchemaTyped
  <2> QED BY <2>1, <2>3, <2>8, <2>9, <1>7, <1>8 DEF Results
<1> QED BY <1>9, <1>10, <1>11

\* parse() of a further text.
LEMMA ParseKeeps ==
  ASSUME SchemaInv, NEW f \in Factories, Parse(f)
  PROVE  SchemaInv'
<1>1. PICK t \in Texts :
        /\ t \notin parsed[f] /\ ~Refused(t, root[f])
        /\ root' = [root EXCEPT ![f] = Added(t, @)]
        /\ parsed' = [parsed EXCEPT ![f] = @ \cup {t}]
  BY DEF Parse
<1>2. /\ registry' = registry /\ initialized' = initialized /\ load' = load /\ told' = told
      /\ wanted' = wanted /\ late' = late /\ inits' = inits
      /\ parses < MaxParses /\ parses' = parses + 1
      /\ initialized[f] /\ \A g \in Factories : ~load[g].busy
  BY DEF Parse, Free
<1> DEFINE r == root[f]
           q == Added(t, r)
<1>3. SchemaTyped /\ RootFits(f) /\ EndFits(f) /\ CustomsFit(f)
  BY DEF SchemaInv, FactoryFits
<1>4. r \in Roots /\ PoolFits(r) /\ parsed[f] = r.files
  BY <1>3 DEF SchemaTyped, RootFits
<1>5. /\ q \in Roots /\ PoolFits(q) /\ q.files = r.files \cup {t}
      /\ q.wrappers = r.wrappers /\ q.built = r.built
  BY <1>1, <1>4, AddedFits
<1>6. root' = [root EXCEPT ![f] = q]
  BY <1>1
<1> HIDE DEF q, r
<1>7. root'[f] = q /\ parsed'[f] = parsed[f] \cup {t}
  BY <1>1, <1>3, <1>6 DEF SchemaTyped
<1>8. \A g \in Factories \ {f} : Untouched(g)
  BY <1>1, <1>2, <1>3, <1>6 DEF SchemaTyped, Untouched
<1>9. SchemaTyped'
  <2>1. parses' \in 0..MaxParses
    BY <1>2, <1>3, SchemaBounds DEF SchemaTyped
  <2> QED BY <2>1, <1>1, <1>2, <1>3, <1>5, <1>6 DEF SchemaTyped
<1>10. RootFits(f)'
  BY <1>4, <1>5, <1>7 DEF RootFits
<1>11. LoadFits(f)'
  BY <1>2 DEF LoadFits
<1>12. EndFits(f)'
  BY <1>2, <1>3, <1>5, <1>7 DEF EndFits, r
<1>13. CustomsFit(f)'
  <2>1. Names(r) \subseteq Names(q)
    BY <1>5, NamesGrow
  <2>2. Registered' = Registered
    BY <1>2 DEF Registered
  <2> QED BY <2>1, <2>2, <1>2, <1>3, <1>5, <1>7 DEF CustomsFit, r
<1>14. \A g \in Factories \ {f} : FactoryFits(g)'
  BY <1>2, <1>8, FactoryKept DEF SchemaInv
<1>15. OneAtATime'
  BY <1>2 DEF SchemaInv, OneAtATime
<1> QED BY <1>9, <1>10, <1>11, <1>12, <1>13, <1>14, <1>15 DEF SchemaInv, FactoryFits

\* register_custom_type and refresh_custom_type_codec.
LEMMA RegisterTypeKeeps ==
  ASSUME SchemaInv, NEW f \in Factories, RegisterType(f)
  PROVE  SchemaInv'
<1>1. PICK c \in CustomTypes, wire \in Wires :
        /\ Register(f, c, wire)
        /\ late' = [g \in Factories |->
                      IF g = f THEN late[g] \ {c}
                      ELSE IF registry[c] = NoWire /\ root[g].built THEN late[g] \cup {c}
                      ELSE late[g]]
  BY DEF RegisterType
<1>2. /\ parsed' = parsed /\ initialized' = initialized /\ load' = load /\ told' = told
      /\ wanted' = wanted /\ inits' = inits
      /\ parses < MaxParses /\ parses' = parses + 1 /\ \A g \in Factories : ~load[g].busy
  BY DEF RegisterType, Free
<1>3. SchemaTyped /\ \A g \in Factories : RootFits(g) /\ EndFits(g) /\ CustomsFit(g)
  BY DEF SchemaInv, FactoryFits
<1>4. wire # NoWire /\ registry[c] \in {NoWire, wire} /\ registry' = [registry EXCEPT ![c] = wire]
  BY <1>1, SchemaAssumption DEF Register
<1>5. registry'[c] = wire /\ \A d \in CustomTypes \ {c} : registry'[d] = registry[d]
  BY <1>3, <1>4 DEF SchemaTyped
<1> DEFINE r == root[f]
           q == [r EXCEPT !.wrappers = @ \cup {<<c, wire>>}]
<1>6. r \in Roots
  BY <1>3 DEF SchemaTyped
<1>7. /\ q \in Roots /\ q.files = r.files /\ q.bound = r.bound /\ q.built = r.built
      /\ q.wrappers = r.wrappers \cup {<<c, wire>>}
  <2> HIDE DEF r
  <2>1. <<c, wire>> \in CustomTypes \X Wires
    OBVIOUS
  <2> QED BY <2>1, <1>6 DEF Roots
<1>8. root' = IF r.built /\ <<c>> \notin Names(r) THEN [root EXCEPT ![f] = q] ELSE root
  BY <1>1 DEF Register
<1> HIDE DEF q
<1>9. /\ root' \in [Factories -> Roots] /\ \A g \in Factories \ {f} : root'[g] = root[g]
      /\ root'[f] \in {r, q} /\ (r.built => <<c>> \in Names(root'[f]))
  <2>1. <<c>> \in Names(q)
    <3>1. <<c, wire>> \in q.wrappers /\ <<c, wire>>[1] = c
      BY <1>7
    <3> QED BY <3>1, WrapperNames
  <2>2. CASE r.built /\ <<c>> \notin Names(r)
    <3>1. root' = [root EXCEPT ![f] = q]
      BY <2>2, <1>8
    <3>2. root'[f] = q
      BY <3>1, <1>3 DEF SchemaTyped
    <3> QED BY <3>1, <3>2, <2>1, <1>3, <1>7 DEF SchemaTyped
  <2>3. CASE ~(r.built /\ <<c>> \notin Names(r))
    BY <2>3, <1>3, <1>8 DEF SchemaTyped
  <2> QED BY <2>2, <2>3
<1>10. ASSUME NEW g \in Factories
       PROVE  /\ root'[g].files = root[g].files /\ root'[g].bound = root[g].bound
              /\ root'[g].built = root[g].built /\ root[g].wrappers \subseteq root'[g].wrappers
              /\ root'[g].wrappers \subseteq root[g].wrappers \cup {<<c, wire>>}
              /\ g # f => root'[g] = root[g]
  BY <1>7, <1>9
<1> HIDE DEF r
<1>11. SchemaTyped'
  <2>1. parses' \in 0..MaxParses
    BY <1>2, <1>3, SchemaBounds DEF SchemaTyped
  <2>2. late' \in [Factories -> SUBSET CustomTypes]
    BY <1>1, <1>3 DEF SchemaTyped
  <2>3. registry' \in [CustomTypes -> Wires \cup {NoWire}]
    BY <1>3, <1>4 DEF SchemaTyped
  <2> QED BY <2>1, <2>2, <2>3, <1>2, <1>3, <1>9 DEF SchemaTyped
<1>12. ASSUME NEW g \in Factories PROVE FactoryFits(g)'
  <2>1. RootFits(g)'
    <3>1. PoolFits(root[g]) /\ parsed[g] = root[g].files
      BY <1>3 DEF RootFits
    <3>2. PoolFits(root'[g])
      BY <3>1, <1>10, PoolKept
    <3> QED BY <3>1, <3>2, <1>2, <1>10 DEF RootFits
  <2>2. LoadFits(g)'
    BY <1>2 DEF LoadFits
  <2>3. EndFits(g)'
    BY <1>2, <1>3, <1>10 DEF EndFits
  <2>4. ASSUME NEW w \in root'[g].wrappers PROVE w[2] = registry'[w[1]]
    <3>1. CASE w = <<c, wire>>
      BY <3>1, <1>5
    <3>2. CASE w \in root[g].wrappers
      <4>1. root[g] \in Roots
        BY <1>3 DEF SchemaTyped
      <4>2. w[2] = registry[w[1]] /\ w[1] \in CustomTypes /\ w[2] \in Wires
        BY <3>2, <4>1, <1>3 DEF CustomsFit, Roots
      <4>3. w[2] # NoWire
        BY <4>2, SchemaAssumption
      <4> QED BY <4>2, <4>3, <1>4, <1>5
    <3> QED BY <3>1, <3>2, <1>10
  <2>5. ASSUME root'[g].built, NEW d \in Registered'
        PROVE  <<d>> \in Names(root'[g]) \/ d \in late'[g]
    <3>1. d \in CustomTypes
      BY DEF Registered
    <3>2. Names(root[g]) \subseteq Names(root'[g])
      BY <1>10, NamesGrow
    <3>3. ASSUME d \in Registered PROVE <<d>> \in Names(root'[g]) \/ d \in late[g]
      BY <3>2, <3>3, <2>5, <1>3, <1>10 DEF CustomsFit
    <3>4. CASE d # c
      <4>1. d \in Registered
        BY <3>1, <3>4, <1>5 DEF Registered
      <4>2. d \in late[g] => d \in late'[g]
        BY <3>4, <1>1
      <4> QED BY <4>1, <4>2, <3>3
    <3>5. CASE d = c /\ g = f
      BY <3>5, <2>5, <1>9, <1>10 DEF r
    <3>6. CASE d = c /\ g # f /\ registry[c] = NoWire
      BY <3>6, <2>5, <1>1, <1>10
    <3>7. CASE d = c /\ g # f /\ registry[c] # NoWire
      <4>1. d \in Registered /\ late'[g] = late[g]
        BY <3>1, <3>7, <1>1 DEF Registered
      <4> QED BY <4>1, <3>3
    <3> QED BY <3>4, <3>5, <3>6, <3>7
  <2>6. CustomsFit(g)'
    BY <2>4, <2>5 DEF CustomsFit
  <2> QED BY <2>1, <2>2, <2>3, <2>6 DEF FactoryFits
<1>13. OneAtATime'
  BY <1>2 DEF OneAtATime
<1> QED BY <1>11, <1>12, <1>13 DEF SchemaInv

LEMMA SchemaNextKeeps == SchemaInv /\ SchemaNext => SchemaInv'
  BY StartInitKeeps, LoadFileKeeps, NextPassKeeps, ParseKeeps,
     RegisterTypeKeeps DEF SchemaNext

LEMMA SchemaStutters == SchemaInv /\ UNCHANGED schemaVars => SchemaInv'
<1> SUFFICES ASSUME SchemaInv, UNCHANGED schemaVars PROVE SchemaInv'
  OBVIOUS
<1>1. /\ registry' = registry /\ root' = root /\ parsed' = parsed /\ initialized' = initialized
      /\ load' = load /\ told' = told /\ wanted' = wanted /\ late' = late /\ inits' = inits
      /\ parses' = parses
  BY DEF schemaVars
<1>2. SchemaTyped' /\ OneAtATime'
  BY <1>1 DEF SchemaInv, SchemaTyped, OneAtATime
<1>3. \A f \in Factories : FactoryFits(f)'
  BY <1>1, FactoryKept DEF SchemaInv, Untouched
<1> QED BY <1>2, <1>3 DEF SchemaInv

LEMMA SchemaInvHolds == Spec => []SchemaInv
<1>1. SchemaInv /\ [Next]_vars => SchemaInv'
  BY SchemaNextKeeps, SchemaStutters DEF Next, vars
<1>2. Init => SchemaInv
  BY SchemaInitHolds DEF Init
<1> QED BY <1>1, <1>2, PTL DEF Spec

--------------------------------------------------------------------------------
(* What the invariant says of the schemas. *)

LEMMA WholeTypes == SchemaInv => SchemaTypeOK
<1> SUFFICES ASSUME SchemaInv PROVE SchemaTypeOK
  OBVIOUS
<1>1. ASSUME NEW f \in Factories
      PROVE  /\ root[f].files \subseteq Texts /\ root[f].wrappers \subseteq CustomTypes \X Wires
             /\ Range(load[f].pending) \cup Range(load[f].remaining) \subseteq Texts
  <2>1. root[f] \in Roots /\ load[f] \in Loads
    BY DEF SchemaInv, SchemaTyped
  <2>2. load[f].pending \in Seq(Texts) /\ load[f].remaining \in Seq(Texts)
    BY <2>1 DEF Loads
  <2>3. Range(load[f].pending) \subseteq Texts /\ Range(load[f].remaining) \subseteq Texts
    BY <2>2, RangeOfSeq
  <2> QED BY <2>1, <2>3 DEF Roots
<1> QED BY <1>1 DEF SchemaInv, SchemaTyped, SchemaTypeOK

LEMMA WholePool == SchemaInv => PoolIsClosed
<1> SUFFICES ASSUME SchemaInv, NEW f \in Factories, NEW t \in root[f].files,
                    NEW ref \in Schema[t].references
             PROVE  LET ends == {b.to : b \in {b \in root[f].bound : b.text = t /\ b.ref = ref}}
                    IN  /\ Cardinality(ends) = 1 /\ ends \subseteq Names(root[f])
                        /\ \A n \in Found(ref, Schema[t].types) :
                             \A to \in ends : Len(to) >= Len(Candidate(ref, n))
  BY DEF PoolIsClosed
<1> DEFINE ends == {b.to : b \in {b \in root[f].bound : b.text = t /\ b.ref = ref}}
<1>1. PoolFits(root[f]) /\ root[f].files \subseteq Texts
  BY DEF SchemaInv, FactoryFits, RootFits, SchemaTyped, Roots
<1>2. PICK b \in root[f].bound : b.text = t /\ b.ref = ref
  BY <1>1 DEF PoolFits
<1>3. \A d \in root[f].bound : d.text = t /\ d.ref = ref => d.to = b.to
  BY <1>1, <1>2 DEF PoolFits
<1>4. ends = {b.to}
  BY <1>2, <1>3
<1>5. PICK n \in Found(ref, Names(root[f])) :
            b.to = Candidate(ref, n) /\ \A m \in Found(ref, Schema[t].types) : m <= n
  BY <1>1, <1>2 DEF PoolFits, BindingFits
<1>6. t \in Texts /\ Len(ref.scope) \in Nat /\ Len(ref.name) \in Nat
  BY <1>1, RefTyped
<1>7. b.to \in Names(root[f]) /\ n \in 0..Len(ref.scope)
  BY <1>5 DEF Found
<1>8. ASSUME NEW m \in Found(ref, Schema[t].types)
      PROVE  Len(b.to) >= Len(Candidate(ref, m))
  <2>1. m \in 0..Len(ref.scope) /\ m <= n
    BY <1>5 DEF Found
  <2>2. /\ Len(Candidate(ref, m)) = m + Len(ref.name)
        /\ Len(Candidate(ref, n)) = n + Len(ref.name)
    BY <2>1, <1>6, <1>7, CandidateTyped
  <2> QED BY <2>1, <2>2, <1>5, <1>6, <1>7
<1>9. Cardinality(ends) = 1
  BY <1>4, FS_Singleton
<1> QED BY <1>4, <1>7, <1>8, <1>9

LEMMA WholeOrder == SchemaInv => OrderDoesNotMatter
<1> SUFFICES ASSUME SchemaInv, NEW f \in Factories, NEW g \in Factories,
                    NEW b \in root[f].bound, NEW d \in root[g].bound, b.text = d.text, b.ref = d.ref,
                    Cardinality(Found(b.ref, Names(root[f]) \cup Names(root[g]))) = 1
             PROVE  b.to = d.to
  BY DEF OrderDoesNotMatter
<1> DEFINE both == Found(b.ref, Names(root[f]) \cup Names(root[g]))
<1>1. BindingFits(b, root[f]) /\ BindingFits(d, root[g])
  BY DEF SchemaInv, FactoryFits, RootFits, PoolFits
<1>2. PICK n \in Found(b.ref, Names(root[f])) : b.to = Candidate(b.ref, n)
  BY <1>1 DEF BindingFits
<1>3. PICK m \in Found(b.ref, Names(root[g])) : d.to = Candidate(b.ref, m)
  BY <1>1 DEF BindingFits
<1>4. n \in both /\ m \in both
  BY <1>2, <1>3 DEF Found
<1>5. IsFiniteSet(both)
  <2>1. b.text \in Texts /\ b.ref \in Schema[b.text].references
    BY <1>1 DEF BindingFits, SchemaInv, SchemaTyped, Roots
  <2>2. Len(b.ref.scope) \in Nat
    BY <2>1, RefTyped
  <2>3. both \subseteq 0..Len(b.ref.scope)
    BY DEF Found
  <2> DEFINE k == Len(b.ref.scope)
  <2> HIDE DEF k
  <2>4. IsFiniteSet(0..k)
    <3>1. k \in Nat /\ 0 \in Int /\ k \in Int
      BY <2>2 DEF k
    <3> QED BY <3>1, FS_Interval
  <2>5. both \subseteq 0..k
    BY <2>3 DEF k
  <2> HIDE DEF both
  <2> QED BY <2>4, <2>5, FS_Subset
<1> HIDE DEF both
<1>6. \E x : both = {x}
  BY <1>5, FS_Singleton DEF both
<1> QED BY <1>2, <1>3, <1>4, <1>6

\* What init(), parse() and register_type() do to the schemas of a process is sound,
\* whatever texts refer to whatever and in whatever order each factory finds them:
\* everything that can be loaded is, references are bound once and inside the pool,
\* and a custom type is one thing to all factories (message_factory.py).
THEOREM SchemasStayWhole == Spec => []SchemasAreWhole
<1>1. SchemaInv => SchemasAreWhole
  <2> SUFFICES ASSUME SchemaInv PROVE SchemasAreWhole
    OBVIOUS
  <2>1. LoadIsComplete /\ ReadyMeansLoaded
    BY DEF SchemaInv, FactoryFits, EndFits, LoadIsComplete, ReadyMeansLoaded
  <2>2. CustomTypesAgree
    BY DEF SchemaInv, FactoryFits, CustomsFit, CustomTypesAgree
  <2> QED BY <2>1, <2>2, WholeTypes, WholePool, WholeOrder DEF SchemasAreWhole
<1> QED BY <1>1, SchemaInvHolds, PTL

(***************************************************************************)
(* Events: the inductive invariant, of the queues of one service.           *)
(***************************************************************************)

\* The copies a service still has to do with.
Held(s) == {work[r].copy : r \in {r \in Replicas : ServiceOf[r] = s /\ work[r] # NoWork}}
Here(s) == queue[s] \cup parked[s] \cup dead[s] \cup Held(s)

At(c, k) == [c EXCEPT !.retry = k]

\* Each of its attempts so far failed here, and the first was routed here.
Earned(c, s) ==
  /\ c.retry <= MaxRetries[s]
  /\ At(c, 0) \in routed[s] /\ \A k \in 0..c.retry - 1 : At(c, k) \in failed[s]

QueuesFit(s) ==
  /\ \A c \in Here(s) : Earned(c, s)
  /\ \A c \in dead[s] : c \in failed[s] /\ c.retry = MaxRetries[s]

IsWork(w) == w = [copy |-> w.copy, todo |-> w.todo, known |-> w.known, matched |-> w.matched]

Queues == [Subscribers -> SUBSET Copies]

EventTyped ==
  /\ stage \in [Events -> {"idle", "first", "second", "done", "raised"}]
  /\ queue \in Queues /\ parked \in Queues /\ dead \in Queues /\ routed \in Queues
  /\ failed \in Queues /\ dropped \in Queues /\ missed \in Queues
  /\ work = [r \in Replicas |-> work[r]]
  /\ \A r \in Replicas : IsWork(work[r]) /\ (work[r] # NoWork => work[r].copy \in Copies)
  /\ router = [r \in Replicas |-> router[r]]
  /\ \A r \in Replicas :
       /\ \E n \in 0..Len(Subscriptions[ServiceOf[r]]) :
            router[r] = SubSeq(Subscriptions[ServiceOf[r]], 1, n)
       /\ r \notin up => router[r] = <<>>
  /\ faults \in 0..MaxFaults /\ losses \in 0..MaxLosses /\ crashes \in 0..MaxCrashes

EventInv == EventTyped /\ \A s \in Subscribers : QueuesFit(s)

--------------------------------------------------------------------------------
(* Attempts. *)

LEMMA Attempts ==
  ASSUME NEW c \in Copies, NEW k \in Nat
  PROVE  /\ At(c, k) \in Copies /\ At(c, k).retry = k /\ c.retry \in Nat
         /\ At(c, c.retry) = c
         /\ \A j \in Nat : At(At(c, k), j) = At(c, j)
  BY DEF At, Copies

\* Whatever stays, or comes back from where it was held, has earned its place.
LEMMA QueuesKept ==
  ASSUME NEW s, QueuesFit(s), Here(s)' \subseteq Here(s), dead'[s] \subseteq dead[s],
         routed[s] \subseteq routed'[s], failed[s] \subseteq failed'[s]
  PROVE  QueuesFit(s)'
  BY DEF QueuesFit, Earned

LEMMA HeldKept ==
  ASSUME NEW s,
         \A r \in Replicas : work'[r] # NoWork /\ ServiceOf[r] = s =>
                              work[r] # NoWork /\ work'[r].copy = work[r].copy
  PROVE  Held(s)' \subseteq Held(s)
  BY DEF Held

\* A delivery goes on with other handlers to run.
LEMMA GoesOn ==
  ASSUME EventTyped, NEW r \in Replicas, work[r] # NoWork, NEW w, IsWork(w),
         w.copy = work[r].copy,
         work' = [work EXCEPT ![r] = w]
  PROVE  /\ work' = [x \in Replicas |-> work'[x]]
         /\ \A x \in Replicas : IsWork(work'[x]) /\ (work'[x] # NoWork => work'[x].copy \in Copies)
         /\ \A s : Held(s)' \subseteq Held(s)
<1>1. work'[r] = w /\ \A x \in Replicas \ {r} : work'[x] = work[x]
  BY DEF EventTyped
<1>2. work' = [x \in Replicas |-> work'[x]]
  BY DEF EventTyped
<1>3. \A x \in Replicas : IsWork(work'[x]) /\ (work'[x] # NoWork => work'[x].copy \in Copies)
  BY <1>1 DEF EventTyped
<1> QED BY <1>1, <1>2, <1>3, HeldKept

LEMMA WorkSet ==
  ASSUME NEW w, IsWork(w), NEW x
  PROVE  /\ IsWork([w EXCEPT !.todo = x]) /\ [w EXCEPT !.todo = x].copy = w.copy
         /\ IsWork([w EXCEPT !.matched = x]) /\ [w EXCEPT !.matched = x].copy = w.copy
<1> DEFINE a == w.copy b == w.todo c == w.known d == w.matched
<1>1. w = [copy |-> a, todo |-> b, known |-> c, matched |-> d]
  BY DEF IsWork
<1> HIDE DEF a, b, c, d
<1>2. [w EXCEPT !.todo = x] = [copy |-> a, todo |-> x, known |-> c, matched |-> d]
  BY <1>1
<1>3. [w EXCEPT !.matched = x] = [copy |-> a, todo |-> b, known |-> c, matched |-> x]
  BY <1>1
<1> QED BY <1>2, <1>3 DEF IsWork, a

\* A delivery ends, however it ended.
LEMMA Finishes ==
  ASSUME EventTyped, NEW r \in Replicas, work' = [work EXCEPT ![r] = NoWork]
  PROVE  /\ work' = [x \in Replicas |-> work'[x]]
         /\ \A x \in Replicas : IsWork(work'[x]) /\ (work'[x] # NoWork => work'[x].copy \in Copies)
         /\ \A s : Held(s)' \subseteq Held(s)
<1>1. work'[r] = NoWork /\ \A x \in Replicas \ {r} : work'[x] = work[x]
  BY DEF EventTyped
<1>2. work' = [x \in Replicas |-> work'[x]]
  BY DEF EventTyped
<1>3. IsWork(NoWork)
  BY DEF IsWork, NoWork
<1>4. \A x \in Replicas : IsWork(work'[x]) /\ (work'[x] # NoWork => work'[x].copy \in Copies)
  BY <1>1, <1>3 DEF EventTyped
<1> QED BY <1>1, <1>2, <1>4, HeldKept

--------------------------------------------------------------------------------
(* Each step of EventRouting preserves the invariant. *)

\* A step that leaves the queues and the work alone.
LEMMA OnlyPublisher ==
  ASSUME EventInv, UNCHANGED <<queue, parked, dead, routed, failed, work>>
  PROVE  \A s \in Subscribers : QueuesFit(s)'
<1> SUFFICES ASSUME NEW s \in Subscribers PROVE QueuesFit(s)'
  OBVIOUS
<1>1. Here(s)' = Here(s)
  BY DEF Here, Held
<1> QED BY <1>1, QueuesKept DEF EventInv

LEMMA PublishKeeps ==
  ASSUME EventInv, NEW e \in Events, Publish(e)
  PROVE  EventInv'
<1>1. EventTyped'
  BY DEF Publish, EventInv, EventTyped
<1> QED BY <1>1, OnlyPublisher DEF Publish, EventInv

LEMMA AttemptKeeps ==
  ASSUME EventInv, NEW e \in Events, Attempt(e)
  PROVE  EventInv'
<1>1. PICK taken \in BOOLEAN :
        LET copy == [event |-> e, n |-> IF stage[e] = "first" THEN 1 ELSE 2, retry |-> 0]
            Put(f) == [s \in Subscribers |-> IF taken /\ Receives(s, e) THEN f[s] \cup {copy} ELSE f[s]]
        IN  Outcome(e, taken) /\ queue' = Put(queue) /\ routed' = Put(routed)
  BY DEF Attempt
<1>2. PICK copy \in Copies :
        copy = [event |-> e, n |-> IF stage[e] = "first" THEN 1 ELSE 2, retry |-> 0] /\ copy.retry = 0
  <2> DEFINE new == [event |-> e, n |-> IF stage[e] = "first" THEN 1 ELSE 2, retry |-> 0]
  <2>1. new \in Copies /\ new.retry = 0
    BY DEF Copies
  <2> HIDE DEF new
  <2>2. \E copy \in Copies : copy = new /\ copy.retry = 0
    BY <2>1
  <2> QED BY <2>2 DEF new
<1>3. /\ queue' = [s \in Subscribers |-> IF taken /\ Receives(s, e) THEN queue[s] \cup {copy} ELSE queue[s]]
      /\ routed' = [s \in Subscribers |-> IF taken /\ Receives(s, e) THEN routed[s] \cup {copy} ELSE routed[s]]
      /\ UNCHANGED <<parked, dead, router, up, work, failed, dropped, missed, faults, crashes>>
  BY <1>1, <1>2 DEF Attempt
<1>4. queue' \in Queues /\ routed' \in Queues
  BY <1>2, <1>3 DEF EventInv, EventTyped, Queues
<1>5. /\ stage' \in [Events -> {"idle", "first", "second", "done", "raised"}]
      /\ losses' \in 0..MaxLosses
  <2>1. CASE stage' = [stage EXCEPT ![e] = "done"] /\ UNCHANGED losses
    BY <2>1 DEF EventInv, EventTyped
  <2>2. CASE /\ losses < MaxLosses /\ losses' = losses + 1
             /\ \E next \in {"second", "raised"} : stage' = [stage EXCEPT ![e] = next]
    BY <2>2, EventAssumption DEF EventInv, EventTyped
  <2> QED BY <2>1, <2>2, <1>1 DEF Outcome
<1>6. EventTyped'
  BY <1>3, <1>4, <1>5 DEF EventInv, EventTyped
<1>7. ASSUME NEW s \in Subscribers PROVE QueuesFit(s)'
  <2>1. Here(s)' \subseteq Here(s) \/ (Here(s)' \subseteq Here(s) \cup {copy} /\ copy \in routed'[s])
    BY <1>3 DEF Here, Held
  <2>2. routed[s] \subseteq routed'[s] /\ failed'[s] = failed[s] /\ dead'[s] = dead[s]
    BY <1>3
  <2>3. ASSUME copy \in routed'[s] PROVE Earned(copy, s)'
    <3>1. At(copy, 0) = copy
      BY <1>2, Attempts
    <3>2. MaxRetries[s] \in Nat
      BY EventAssumption
    <3> QED BY <3>1, <3>2, <2>3, <1>2 DEF Earned
  <2>4. \A c : Earned(c, s) => Earned(c, s)'
    BY <2>2 DEF Earned
  <2>5. \A c \in Here(s)' : Earned(c, s)'
    BY <2>1, <2>3, <2>4 DEF EventInv, QueuesFit
  <2>6. \A c \in dead'[s] : c \in failed'[s] /\ c.retry = MaxRetries[s]
    BY <2>2 DEF EventInv, QueuesFit
  <2> QED BY <2>5, <2>6 DEF QueuesFit
<1> QED BY <1>6, <1>7 DEF EventInv

LEMMA StartKeeps ==
  ASSUME EventInv, NEW r \in Replicas, Start(r)
  PROVE  EventInv'
<1>1. EventTyped'
  BY DEF Start, EventInv, EventTyped
<1> QED BY <1>1, OnlyPublisher DEF Start, EventInv

LEMMA SubscribeKeeps ==
  ASSUME EventInv, NEW r \in Replicas, Subscribe(r)
  PROVE  EventInv'
<1> DEFINE subs == Subscriptions[ServiceOf[r]]
           S == Range(subs)
<1>1. /\ r \in up /\ Len(router[r]) < Len(subs)
      /\ router' = [router EXCEPT ![r] = Append(@, subs[Len(@) + 1])]
      /\ UNCHANGED <<stage, queue, parked, dead, up, work, routed, failed, dropped, missed, faults,
                     crashes, losses>>
  BY DEF Subscribe
<1>2. PICK n \in 0..Len(subs) : router[r] = SubSeq(subs, 1, n)
  BY DEF EventInv, EventTyped
<1>3. subs \in Seq(S)
  BY EventAssumption
<1> HIDE DEF subs, S
<1>4. Len(SubSeq(subs, 1, n)) = n /\ SubSeq(subs, 1, n) \in Seq(S)
  <2>1. \A i \in 1..n : subs[i] \in S
    BY <1>3
  <2> QED BY <2>1, <1>2, SubSeqProperties
<1>5. n + 1 \in 1..Len(subs) /\ subs[n + 1] \in S
  BY <1>1, <1>2, <1>3, <1>4
<1>6. Append(router[r], subs[Len(router[r]) + 1]) = SubSeq(subs, 1, n + 1)
  <2>1. SubSeq(subs, 1, n + 1) = SubSeq(subs, 1, n) \o <<subs[n + 1]>>
    <3>1. SubSeq(subs, 1, n + 1) = SubSeq(subs, 1, (n + 1) - 1) \o <<subs[n + 1]>>
      BY <1>3, <1>5, SubSeqRecursiveSecond
    <3>2. (n + 1) - 1 = n
      OBVIOUS
    <3> QED BY <3>1, <3>2
  <2>2. Append(SubSeq(subs, 1, n), subs[n + 1]) = SubSeq(subs, 1, n) \o <<subs[n + 1]>>
    BY <1>4, <1>5, AppendIsConcat
  <2> QED BY <2>1, <2>2, <1>2, <1>4
<1>7. /\ router' = [x \in Replicas |-> router'[x]]
      /\ router'[r] = SubSeq(subs, 1, n + 1) /\ \A x \in Replicas \ {r} : router'[x] = router[x]
  BY <1>1, <1>6 DEF EventInv, EventTyped
<1>8. \A x \in Replicas :
        /\ \E m \in 0..Len(Subscriptions[ServiceOf[x]]) :
             router'[x] = SubSeq(Subscriptions[ServiceOf[x]], 1, m)
        /\ x \notin up' => router'[x] = <<>>
  <2>1. n + 1 \in 0..Len(subs)
    BY <1>3, <1>5
  <2>2. /\ \E m \in 0..Len(Subscriptions[ServiceOf[r]]) :
             router'[r] = SubSeq(Subscriptions[ServiceOf[r]], 1, m)
        /\ r \in up'
    BY <2>1, <1>1, <1>7 DEF subs
  <2> QED BY <2>2, <1>1, <1>7 DEF EventInv, EventTyped
<1>9. EventTyped'
  BY <1>1, <1>7, <1>8 DEF EventInv, EventTyped
<1> QED BY <1>1, <1>9, OnlyPublisher DEF EventInv

LEMMA DeliverKeeps ==
  ASSUME EventInv, NEW r \in Replicas, Deliver(r)
  PROVE  EventInv'
<1> DEFINE s == ServiceOf[r]
<1>1. PICK c \in queue[s] :
        /\ work[r] = NoWork
        /\ queue' = [queue EXCEPT ![s] = @ \ {c}]
        /\ work' = [work EXCEPT ![r] =
             [copy |-> c, known |-> Known(FactoryOf[r], event[c.event].type),
              todo |-> IF AllHandler(r) = <<>> THEN Route(r, c.event) ELSE AllHandler(r),
              matched |-> AllHandler(r) = <<>>]]
        /\ missed' = IF router[r] = Subscriptions[s] THEN missed ELSE [missed EXCEPT ![s] = @ \cup {c}]
        /\ UNCHANGED <<stage, parked, dead, router, up, routed, failed, dropped, faults, crashes, losses>>
  BY DEF Deliver
<1> DEFINE w == [copy |-> c, known |-> Known(FactoryOf[r], event[c.event].type),
                 todo |-> IF AllHandler(r) = <<>> THEN Route(r, c.event) ELSE AllHandler(r),
                 matched |-> AllHandler(r) = <<>>]
<1>2. s \in Subscribers /\ c \in Copies
  BY <1>1, EventAssumption DEF EventInv, EventTyped, Queues
<1>3. IsWork(w) /\ w.copy = c /\ work' = [work EXCEPT ![r] = w]
  BY <1>1 DEF IsWork
<1> HIDE DEF w, s
<1>4. /\ work' = [x \in Replicas |-> work'[x]] /\ work'[r] = w
      /\ \A x \in Replicas \ {r} : work'[x] = work[x]
  BY <1>3 DEF EventInv, EventTyped
<1>5. queue' \in Queues /\ queue'[s] \subseteq queue[s]
      /\ \A t \in Subscribers \ {s} : queue'[t] = queue[t]
  BY <1>1, <1>2 DEF EventInv, EventTyped, Queues
<1>6. missed' \in Queues
  BY <1>1, <1>2 DEF EventInv, EventTyped, Queues
<1>7. \A x \in Replicas : IsWork(work'[x]) /\ (work'[x] # NoWork => work'[x].copy \in Copies)
  BY <1>2, <1>3, <1>4 DEF EventInv, EventTyped
<1>8. EventTyped'
  BY <1>1, <1>4, <1>5, <1>6, <1>7 DEF EventInv, EventTyped
<1>9. ASSUME NEW t \in Subscribers PROVE QueuesFit(t)'
  <2>1. Held(t)' \subseteq Held(t) \cup queue[t]
    <3> SUFFICES ASSUME NEW x \in Replicas, ServiceOf[x] = t, work'[x] # NoWork
                 PROVE  work'[x].copy \in Held(t) \cup queue[t]
      BY DEF Held
    <3>1. CASE x = r
      BY <3>1, <1>1, <1>3, <1>4 DEF s
    <3>2. CASE x # r
      BY <3>2, <1>4 DEF Held
    <3> QED BY <3>1, <3>2
  <2>2. Here(t)' \subseteq Here(t)
    BY <2>1, <1>1, <1>5 DEF Here
  <2> QED BY <2>2, <1>1, QueuesKept DEF EventInv
<1> QED BY <1>8, <1>9 DEF EventInv

\* The handlers go on: of all events first, then of the topic, one by one.
LEMMA HandlersKeep ==
  ASSUME EventInv, NEW r \in Replicas, work[r] # NoWork, NEW w, IsWork(w),
         w.copy = work[r].copy,
         work' = [work EXCEPT ![r] = w],
         UNCHANGED <<stage, queue, parked, dead, router, up, routed, failed, dropped, missed, faults,
                     crashes, losses>>
  PROVE  EventInv'
<1>1. EventTyped
  BY DEF EventInv
<1>2. EventTyped'
  BY <1>1, GoesOn DEF EventTyped
<1>3. ASSUME NEW s \in Subscribers PROVE QueuesFit(s)'
  <2>1. Here(s)' \subseteq Here(s)
    BY <1>1, GoesOn DEF Here
  <2> QED BY <2>1, QueuesKept DEF EventInv
<1> QED BY <1>2, <1>3 DEF EventInv

LEMMA LookUpKeeps ==
  ASSUME EventInv, NEW r \in Replicas, LookUp(r)
  PROVE  EventInv'
<1> DEFINE v == [work[r] EXCEPT !.todo = Route(r, work[r].copy.event)]
           w == [v EXCEPT !.matched = TRUE]
<1>1. IsWork(work[r]) /\ work = [x \in Replicas |-> work[x]]
  BY DEF EventInv, EventTyped
<1>2. IsWork(v) /\ v.copy = work[r].copy
  BY <1>1, WorkSet
<1>3. IsWork(w) /\ w.copy = work[r].copy
  <2> HIDE DEF v
  <2> QED BY <1>2, WorkSet
<1>4. work' = [work EXCEPT ![r] = w]
  BY <1>1 DEF LookUp
<1> HIDE DEF w
<1> QED BY <1>3, <1>4, HandlersKeep DEF LookUp

\* The end of a delivery that failed.
LEMMA SettleKeeps ==
  ASSUME EventInv, NEW r \in Replicas, work[r] # NoWork, NEW error, Settle(r, error),
         faults' \in 0..MaxFaults,
         UNCHANGED <<stage, queue, router, up, routed, missed, crashes, losses>>
  PROVE  EventInv'
<1> DEFINE s == ServiceOf[r]
           climbs == MaxRetries[s] > 0 /\ error # "handled"
<1>1. PICK c \in Copies : c = work[r].copy
  BY DEF EventInv, EventTyped
<1>2. s \in Subscribers /\ MaxRetries[s] \in Nat
  BY EventAssumption
<1> DEFINE next == At(c, c.retry + 1)
<1>3. /\ work' = [work EXCEPT ![r] = NoWork]
      /\ failed' = [failed EXCEPT ![s] = @ \cup {c}]
      /\ parked' = IF climbs /\ c.retry < MaxRetries[s] THEN [parked EXCEPT ![s] = @ \cup {next}] ELSE parked
      /\ dead' = IF climbs /\ c.retry = MaxRetries[s] THEN [dead EXCEPT ![s] = @ \cup {c}] ELSE dead
      /\ dropped' = IF ~climbs THEN [dropped EXCEPT ![s] = @ \cup {c}] ELSE dropped
  BY <1>1 DEF Settle, At
<1>4. next \in Copies /\ next.retry = c.retry + 1 /\ c.retry \in Nat
  BY Attempts
<1>5. c \in Here(s)
  BY <1>1 DEF Here, Held
<1>6. Earned(c, s)
  BY <1>2, <1>5 DEF EventInv, QueuesFit
<1> HIDE DEF next, climbs, s
<1>7. /\ failed' \in Queues /\ failed'[s] = failed[s] \cup {c}
      /\ \A t \in Subscribers \ {s} : failed'[t] = failed[t]
  BY <1>2, <1>3 DEF EventInv, EventTyped, Queues
<1>8. /\ parked' \in Queues /\ \A t \in Subscribers \ {s} : parked'[t] = parked[t]
      /\ parked'[s] = parked[s] \/ (parked'[s] = parked[s] \cup {next} /\ c.retry < MaxRetries[s])
  BY <1>2, <1>3, <1>4 DEF EventInv, EventTyped, Queues
<1>9. /\ dead' \in Queues /\ \A t \in Subscribers \ {s} : dead'[t] = dead[t]
      /\ dead'[s] = dead[s] \/ (dead'[s] = dead[s] \cup {c} /\ c.retry = MaxRetries[s])
  BY <1>2, <1>3 DEF EventInv, EventTyped, Queues
<1>10. dropped' \in Queues
  BY <1>2, <1>3 DEF EventInv, EventTyped, Queues
<1>11. EventTyped'
  BY <1>3, <1>7, <1>8, <1>9, <1>10, Finishes DEF EventInv, EventTyped
<1>12. ASSUME NEW t \in Subscribers, t # s PROVE QueuesFit(t)'
  <2>1. Here(t)' \subseteq Here(t)
    BY <1>3, <1>8, <1>9, <1>12, Finishes DEF Here, EventInv
  <2> QED BY <2>1, <1>7, <1>9, <1>12, QueuesKept DEF EventInv
<1>13. QueuesFit(s)'
  <2>1. \A d : Earned(d, s) => Earned(d, s)'
    BY <1>7 DEF Earned
  <2>2. c.retry < MaxRetries[s] => Earned(next, s)'
    <3> SUFFICES ASSUME c.retry < MaxRetries[s] PROVE Earned(next, s)'
      OBVIOUS
    <3>1. next.retry <= MaxRetries[s]
      BY <1>2, <1>4
    <3>2. \A k \in Nat : At(next, k) = At(c, k)
      BY <1>4, Attempts DEF next
    <3>3. At(c, 0) \in routed'[s]
      BY <1>6 DEF Earned
    <3>4. ASSUME NEW k \in 0..next.retry - 1 PROVE At(c, k) \in failed'[s]
      <4>1. CASE k = c.retry
        BY <4>1, <1>4, <1>7, Attempts
      <4>2. CASE k # c.retry
        <5>1. k \in 0..c.retry - 1
          BY <4>2, <1>4
        <5> QED BY <5>1, <1>6, <1>7 DEF Earned
      <4> QED BY <4>1, <4>2
    <3>5. \A k \in 0..next.retry - 1 : k \in Nat
      OBVIOUS
    <3>6. At(next, 0) \in routed'[s] /\ \A k \in 0..next.retry - 1 : At(next, k) \in failed'[s]
      BY <3>2, <3>3, <3>4, <3>5
    <3> QED BY <3>1, <3>6 DEF Earned, next
  <2>3. Held(s)' \subseteq Held(s)
    BY <1>3, Finishes DEF EventInv
  <2>4. \A d \in Here(s)' : Earned(d, s)'
    <3> SUFFICES ASSUME NEW d \in Here(s)' PROVE Earned(d, s)'
      OBVIOUS
    <3>1. d \in Here(s) \/ (d = next /\ c.retry < MaxRetries[s])
      BY <2>3, <1>5, <1>8, <1>9 DEF Here
    <3> QED BY <3>1, <2>1, <2>2, <1>2 DEF EventInv, QueuesFit
  <2>5. \A d \in dead'[s] : d \in failed'[s] /\ d.retry = MaxRetries[s]
    BY <1>2, <1>7, <1>9 DEF EventInv, QueuesFit
  <2> QED BY <2>4, <2>5 DEF QueuesFit
<1> QED BY <1>11, <1>12, <1>13 DEF EventInv

LEMMA RunHandlerKeeps ==
  ASSUME EventInv, NEW r \in Replicas, RunHandler(r)
  PROVE  EventInv'
<1> DEFINE w == [work[r] EXCEPT !.todo = Tail(@)]
<1>1. IsWork(work[r]) /\ work = [x \in Replicas |-> work[x]] /\ faults \in 0..MaxFaults
  BY DEF EventInv, EventTyped
<1>2. CASE /\ work' = [work EXCEPT ![r].todo = Tail(@)]
           /\ UNCHANGED <<parked, dead, failed, dropped, faults>>
  <2>1. IsWork(w) /\ w.copy = work[r].copy
    BY <1>1, WorkSet
  <2>2. work' = [work EXCEPT ![r] = w]
    BY <1>1, <1>2
  <2> HIDE DEF w
  <2> QED BY <2>1, <2>2, <1>2, HandlersKeep DEF RunHandler
<1>3. CASE /\ faults < MaxFaults /\ faults' = faults + 1
           /\ \E error \in {"handled", "other"} : Settle(r, error)
  <2>1. faults' \in 0..MaxFaults
    BY <1>1, <1>3, EventAssumption
  <2> QED BY <2>1, <1>3, SettleKeeps DEF RunHandler
<1> QED BY <1>2, <1>3 DEF RunHandler

LEMMA FailToDecodeKeeps ==
  ASSUME EventInv, NEW r \in Replicas, FailToDecode(r)
  PROVE  EventInv'
<1>1. faults' \in 0..MaxFaults
  BY DEF FailToDecode, EventInv, EventTyped
<1> QED BY <1>1, SettleKeeps DEF FailToDecode

LEMMA AckKeeps ==
  ASSUME EventInv, NEW r \in Replicas, Ack(r)
  PROVE  EventInv'
<1>1. EventTyped'
  BY Finishes DEF Ack, EventInv, EventTyped
<1>2. ASSUME NEW s \in Subscribers PROVE QueuesFit(s)'
  <2>1. Here(s)' \subseteq Here(s)
    BY Finishes DEF Ack, Here, EventInv
  <2> QED BY <2>1, QueuesKept DEF Ack, EventInv
<1> QED BY <1>1, <1>2 DEF EventInv

LEMMA RedeliverKeeps ==
  ASSUME EventInv, NEW s \in Subscribers, Redeliver(s)
  PROVE  EventInv'
<1>1. PICK c \in parked[s] : /\ parked' = [parked EXCEPT ![s] = @ \ {c}]
                             /\ queue' = [queue EXCEPT ![s] = @ \cup {c}]
  BY DEF Redeliver
<1>2. c \in Copies
  BY DEF EventInv, EventTyped, Queues
<1>3. parked' \in Queues /\ queue' \in Queues
  BY <1>1, <1>2 DEF EventInv, EventTyped, Queues
<1>4. EventTyped'
  BY <1>3 DEF Redeliver, EventInv, EventTyped
<1>5. ASSUME NEW t \in Subscribers PROVE QueuesFit(t)'
  <2>1. Here(t)' \subseteq Here(t)
    <3>1. Held(t)' = Held(t) /\ dead' = dead
      BY DEF Redeliver, Held
    <3>2. queue'[t] \cup parked'[t] \subseteq queue[t] \cup parked[t]
      BY <1>1 DEF EventInv, EventTyped, Queues
    <3> QED BY <3>1, <3>2 DEF Here
  <2> QED BY <2>1, QueuesKept DEF Redeliver, EventInv
<1> QED BY <1>4, <1>5 DEF EventInv

LEMMA CrashKeeps ==
  ASSUME EventInv, NEW r \in Replicas, Crash(r)
  PROVE  EventInv'
<1> DEFINE s == ServiceOf[r]
<1>1. /\ crashes < MaxCrashes /\ crashes' = crashes + 1
      /\ up' = up \ {r} /\ router' = [router EXCEPT ![r] = <<>>]
      /\ work' = [work EXCEPT ![r] = NoWork]
      /\ queue' = IF work[r] = NoWork THEN queue ELSE [queue EXCEPT ![s] = @ \cup {work[r].copy}]
      /\ UNCHANGED <<stage, parked, dead, routed, failed, dropped, missed, faults, losses>>
  BY DEF Crash
<1>2. s \in Subscribers /\ Subscriptions[s] \in Seq(Range(Subscriptions[s]))
  BY EventAssumption
<1>3. router' = [x \in Replicas |-> router'[x]]
      /\ router'[r] = <<>> /\ \A x \in Replicas \ {r} : router'[x] = router[x]
  BY <1>1 DEF EventInv, EventTyped
<1>4. /\ 0 \in 0..Len(Subscriptions[s]) /\ SubSeq(Subscriptions[s], 1, 0) = <<>>
  BY <1>2, SubSeqEmpty
<1>5. \A x \in Replicas :
        /\ \E n \in 0..Len(Subscriptions[ServiceOf[x]]) :
             router'[x] = SubSeq(Subscriptions[ServiceOf[x]], 1, n)
        /\ x \notin up' => router'[x] = <<>>
  BY <1>1, <1>3, <1>4 DEF EventInv, EventTyped
<1> HIDE DEF s
<1>6. /\ queue' \in Queues /\ \A t \in Subscribers \ {s} : queue'[t] = queue[t]
      /\ queue'[s] = queue[s] \/ (queue'[s] = queue[s] \cup {work[r].copy} /\ work[r] # NoWork)
  BY <1>1, <1>2 DEF EventInv, EventTyped, Queues
<1>7. crashes' \in 0..MaxCrashes
  BY <1>1, EventAssumption DEF EventInv, EventTyped
<1>8. EventTyped'
  BY <1>1, <1>3, <1>5, <1>6, <1>7, Finishes DEF EventInv, EventTyped
<1>9. ASSUME NEW t \in Subscribers PROVE QueuesFit(t)'
  <2>1. work[r] # NoWork => work[r].copy \in Held(s)
    BY DEF Held, s
  <2>2. Here(t)' \subseteq Here(t)
    BY <2>1, <1>1, <1>6, Finishes DEF Here, EventInv
  <2> QED BY <2>2, <1>1, QueuesKept DEF EventInv
<1> QED BY <1>8, <1>9 DEF EventInv

LEMMA EventInitHolds == Init => EventInv
<1> SUFFICES ASSUME Init PROVE EventInv
  OBVIOUS
<1>1. /\ queue = [s \in Subscribers |-> {}] /\ parked = queue /\ dead = queue
      /\ routed = queue /\ failed = queue /\ dropped = queue /\ missed = queue
      /\ router = [r \in Replicas |-> <<>>] /\ up = {} /\ work = [r \in Replicas |-> NoWork]
      /\ stage = [e \in Events |-> "idle"] /\ faults = 0 /\ crashes = 0 /\ losses = 0
  BY DEF Init
<1>2. IsWork(NoWork)
  BY DEF IsWork, NoWork
<1>3. ASSUME NEW r \in Replicas
      PROVE  \E n \in 0..Len(Subscriptions[ServiceOf[r]]) :
               router[r] = SubSeq(Subscriptions[ServiceOf[r]], 1, n)
  <2> DEFINE subs == Subscriptions[ServiceOf[r]]
  <2>1. subs \in Seq(Range(subs))
    BY EventAssumption
  <2> HIDE DEF subs
  <2>2. 0 \in 0..Len(subs) /\ SubSeq(subs, 1, 0) = <<>>
    BY <2>1, SubSeqEmpty
  <2>3. router[r] = SubSeq(subs, 1, 0)
    BY <2>2, <1>1
  <2> QED BY <2>2, <2>3 DEF subs
<1>4. EventTyped
  <2>1. queue \in Queues
    BY <1>1 DEF Queues
  <2>2. stage \in [Events -> {"idle", "first", "second", "done", "raised"}]
    BY <1>1
  <2>3. work = [r \in Replicas |-> work[r]] /\ router = [r \in Replicas |-> router[r]]
    BY <1>1
  <2>4. \A r \in Replicas : work[r] = NoWork /\ router[r] = <<>>
    BY <1>1
  <2>5. faults \in 0..MaxFaults /\ losses \in 0..MaxLosses /\ crashes \in 0..MaxCrashes
    BY <1>1, EventAssumption
  <2> QED BY <2>1, <2>2, <2>3, <2>4, <2>5, <1>1, <1>2, <1>3 DEF EventTyped
<1>5. \A s \in Subscribers : Held(s) = {} /\ dead[s] = {} /\ Here(s) = {}
  BY <1>1 DEF Held, Here
<1> QED BY <1>4, <1>5 DEF EventInv, QueuesFit

LEMMA EventNextKeeps == EventInv /\ [Next]_vars => EventInv'
<1> SUFFICES ASSUME EventInv, [Next]_vars PROVE EventInv'
  OBVIOUS
<1>1. CASE EventNext
  BY <1>1, PublishKeeps, AttemptKeeps, StartKeeps, SubscribeKeeps, DeliverKeeps,
     LookUpKeeps,
     RunHandlerKeeps, FailToDecodeKeeps, AckKeeps, CrashKeeps, RedeliverKeeps DEF EventNext
<1>2. CASE UNCHANGED eventVars
  <2>1. EventTyped'
    BY <1>2 DEF eventVars, EventInv, EventTyped
  <2> QED BY <2>1, <1>2, OnlyPublisher DEF eventVars, EventInv
<1> QED BY <1>1, <1>2 DEF Next, vars

LEMMA EventInvHolds == Spec => []EventInv
  BY EventInitHolds, EventNextKeeps, PTL DEF Spec

\* The retry of an event concerns the service whose handler failed and no other: what
\* a queue has was routed to it, every attempt after the first follows failures of its
\* own replicas, and its DLQ holds what failed at every attempt (consume, over the
\* topology of setup_retry_topology).
THEOREM RetriesNeverSpread == Spec => []RetriesStayHome
<1>1. EventInv => RetriesStayHome
  BY DEF EventInv, QueuesFit, Earned, Here, Held, At, RetriesStayHome
<1> QED BY <1>1, EventInvHolds, PTL

LEMMA EventTypesAre == EventInv => EventTypeOK
<1> SUFFICES ASSUME EventInv PROVE EventTypeOK
  OBVIOUS
<1>1. ASSUME NEW s \in Subscribers
      PROVE  /\ queue[s] \cup parked[s] \cup dead[s] \cup failed[s] \cup dropped[s] \cup missed[s] \subseteq Copies
             /\ \A c \in queue[s] \cup parked[s] \cup dead[s] : c.retry <= MaxRetries[s]
  BY DEF EventInv, EventTyped, Queues, QueuesFit, Here, Earned
<1>2. ASSUME NEW r \in Replicas
      PROVE  IsPrefix(router[r], Subscriptions[ServiceOf[r]])
  <2> DEFINE subs == Subscriptions[ServiceOf[r]]
  <2>1. subs \in Seq(Range(subs))
    BY EventAssumption
  <2>2. PICK n \in 0..Len(subs) : router[r] = SubSeq(subs, 1, n)
    BY DEF EventInv, EventTyped
  <2> HIDE DEF subs
  <2>3. \A i \in 1..n : subs[i] \in Range(subs)
    BY <2>1
  <2>4. router[r] \in Seq(Range(subs)) /\ Len(router[r]) = n
    BY <2>2, <2>3, SubSeqProperties
  <2>5. SubSeq(router[r], 1, Len(router[r])) = router[r]
    BY <2>4, SubSeqFull
  <2> QED BY <2>1, <2>2, <2>4, <2>5 DEF IsPrefix, subs
<1> QED BY <1>1, <1>2 DEF EventInv, EventTyped, EventTypeOK

\* The state of the event routing keeps its types; no copy in a queue has climbed
\* higher than max_retries, and a replica's subscriptions are a prefix of its service's.
THEOREM EventTypesHold == Spec => []EventTypeOK
  BY EventInvHolds, EventTypesAre, PTL

(***************************************************************************)
(* The trie.  match_topic walks from node to node and _collect keeps each   *)
(* handler once; both are folds and recursive functions, so the first facts *)
(* are what a fold does, step by step, and that a recursive function over   *)
(* nodes is defined because the depth of the trie is bounded.               *)
(***************************************************************************)

\* Induction, on a set of numbers.
LEMMA Climbs ==
  ASSUME NEW T, 0 \in T, \A m \in Nat : m \in T => m + 1 \in T
  PROVE  \A m \in Nat : m \in T
<1> SUFFICES ASSUME NEW n \in Nat, n \notin T PROVE FALSE
  OBVIOUS
<1> DEFINE R == {p \in Nat \X Nat : p[1] < p[2]}
           Left == Nat \ T
<1>1. IsWellFoundedOn(R, Nat)
  BY NatLessThanWellFounded DEF OpToRel
<1> HIDE DEF R
<1>2. PICK x \in Left : \A y \in Left : ~(<<y, x>> \in R)
  BY <1>1, WFMin
<1>3. x # 0 /\ x - 1 \in Nat
  OBVIOUS
<1>4. x - 1 \in T
  <2>1. x - 1 < x /\ x \in Nat
    BY <1>3
  <2>2. <<x - 1, x>> \in R
    BY <1>3, <2>1 DEF R
  <2> QED
    BY <1>2, <1>3, <2>2
<1> QED
  BY <1>3, <1>4

LEMMA MaxOf ==
  ASSUME NEW n \in Nat, NEW d \in SUBSET (1..n), d # {}
  PROVE  Max(d) \in d /\ \A k \in d : k <= Max(d)
<1>1. PICK m \in d : \A k \in d : k <= m
  <2>1. d \in SUBSET (0..n)
    OBVIOUS
  <2> QED BY <2>1, Greatest
<1>2. Max(d) \in d /\ \A k \in d : Max(d) >= k
  <2>1. \A k \in d : m >= k
    BY <1>1
  <2> QED BY <2>1 DEF Max
<1> QED BY <1>2

LEMMA UpTo ==
  ASSUME NEW n \in Nat, NEW i \in 1..n
  PROVE  /\ 1..i \in SUBSET (1..n) /\ 1..i # {}
         /\ Max(1..i) = i /\ (1..i) \ {i} = 1..(i - 1)
<1>1. i \in 1..i /\ 1..i \in SUBSET (1..n) /\ (1..i) \ {i} = 1..(i - 1)
  OBVIOUS
<1>2. Max(1..i) \in 1..i /\ i <= Max(1..i)
  BY <1>1, MaxOf
<1> QED BY <1>1, <1>2

\* f accumulates in Q what g does with the elements of s, over sets of its indices.
Folds(f, Q, base, g, s) ==
  /\ f \in [SUBSET (1..Len(s)) -> Q]
  /\ \A d \in SUBSET (1..Len(s)) :
       f[d] = IF d = {} THEN base ELSE g[<<f[d \ {Max(d)}], s[Max(d)]>>]

LEMMA FoldDefined ==
  ASSUME NEW Q, NEW base \in Q, NEW X, NEW s \in Seq(X), NEW g \in [Q \X X -> Q]
  PROVE  \E f : Folds(f, Q, base, g, s)
<1> DEFINE D == SUBSET (1..Len(s))
           Next1(f, d) == IF d = {} THEN base ELSE g[<<f[d \ {Max(d)}], s[Max(d)]>>]
           T == {m \in Nat : \E f \in [D -> Q] : \A d \in D : d \subseteq 1..m => f[d] = Next1(f, d)}
<1>1. 0 \in T
  <2> DEFINE f == [d \in D |-> base]
  <2>1. f \in [D -> Q] /\ \A d \in D : d \subseteq 1..0 => f[d] = Next1(f, d)
    OBVIOUS
  <2> HIDE DEF f
  <2> QED
    BY <2>1
<1>2. ASSUME NEW m \in Nat, m \in T PROVE m + 1 \in T
  <2>1. PICK f \in [D -> Q] : \A d \in D : d \subseteq 1..m => f[d] = Next1(f, d)
    BY <1>2
  <2> DEFINE h == [d \in D |-> Next1(f, d)]
  <2>2. ASSUME NEW d \in D, d # {}
        PROVE  Max(d) \in 1..Len(s) /\ (\A k \in d : k <= Max(d)) /\ d \ {Max(d)} \in D
    <3>1. Max(d) \in d /\ \A k \in d : k <= Max(d)
      <4>1. Len(s) \in Nat /\ d \in SUBSET (1..Len(s))
        OBVIOUS
      <4> QED BY <4>1, <2>2, MaxOf
    <3> QED BY <3>1
  <2>3. ASSUME NEW d \in D PROVE Next1(f, d) \in Q
    <3>1. CASE d = {}
      BY <3>1
    <3>2. CASE d # {}
      <4>1. f[d \ {Max(d)}] \in Q /\ s[Max(d)] \in X
        BY <2>1, <2>2, <3>2
      <4> QED BY <3>2, <4>1
    <3> QED BY <3>1, <3>2
  <2>4. h \in [D -> Q]
    BY <2>3
  <2>5. ASSUME NEW d \in D, d \subseteq 1..(m + 1) PROVE h[d] = Next1(h, d)
    <3>1. CASE d = {}
      BY <3>1
    <3>2. CASE d # {}
      <4> DEFINE e == d \ {Max(d)}
      <4>1. e \in D /\ e \subseteq 1..m
        <5>1. Max(d) \in Nat /\ \A k \in e : k \in 1..(m + 1) /\ k <= Max(d) /\ k # Max(d)
          BY <2>2, <2>5, <3>2
        <5>2. Max(d) \in 1..(m + 1)
          <6>1. m + 1 \in Nat /\ d \in SUBSET (1..(m + 1))
            BY <2>5
          <6>2. Max(d) \in d
            BY <6>1, <3>2, MaxOf
          <6> QED BY <6>1, <6>2
        <5> QED BY <2>2, <3>2, <5>1, <5>2
      <4>2. h[e] = f[e]
        BY <2>1, <4>1
      <4> QED
        BY <3>2, <4>1, <4>2
    <3> QED
      BY <3>1, <3>2
  <2> HIDE DEF h, D, Next1
  <2> QED
    BY <2>4, <2>5
<1> HIDE DEF T
<1>3. Len(s) \in T
  BY <1>1, <1>2, Climbs
<1> QED
  BY <1>3 DEF T, Folds

Add(found, x) == IF x \in Range(found) THEN found ELSE Append(found, x)
Keep(S, found, x) == IF x \in S THEN Append(found, x) ELSE found

LEMMA DistinctFold ==
  ASSUME NEW s
  PROVE  Distinct(s) = (CHOOSE f : f = [d \in SUBSET (DOMAIN s) |->
           IF d = {} THEN <<>> ELSE LET x == Max(d) IN Add(f[d \ {x}], s[x])])[DOMAIN s]
  BY DEF Distinct, FoldLeft, MapThenFoldSet, Add

LEMMA OnlyFold ==
  ASSUME NEW s, NEW S
  PROVE  Only(s, S) = (CHOOSE f : f = [d \in SUBSET (DOMAIN s) |->
           IF d = {} THEN <<>> ELSE LET x == Max(d) IN Keep(S, f[d \ {x}], s[x])])[DOMAIN s]
  BY DEF Only, FoldLeft, MapThenFoldSet, Keep

LEMMA AppendsOne ==
  ASSUME NEW X, NEW found \in Seq(X), NEW x \in X
  PROVE  /\ Append(found, x) \in Seq(X) /\ Len(Append(found, x)) = Len(found) + 1
         /\ Range(Append(found, x)) = Range(found) \cup {x}
<1> DEFINE l == Append(found, x)
           n == Len(found)
<1>1. /\ l \in Seq(X) /\ Len(l) = n + 1
      /\ \A i \in 1..n + 1 : l[i] = IF i <= n THEN found[i] ELSE x
  BY AppendProperties
<1>2. n \in Nat /\ DOMAIN l = 1..(n + 1) /\ DOMAIN found = 1..n
      /\ l[n + 1] = x /\ \A i \in 1..n : l[i] = found[i]
  BY <1>1
<1> HIDE DEF l, n
<1>3. \A y \in Range(l) : y \in Range(found) \cup {x}
  BY <1>2 DEF Range
<1>4. \A y \in Range(found) \cup {x} : y \in Range(l)
  BY <1>2 DEF Range
<1> QED BY <1>1, <1>3, <1>4 DEF l, n

\* The step of a fold that takes the last index.
LEMMA Topmost ==
  ASSUME NEW X, NEW s \in Seq(X), NEW d \in SUBSET (1..Len(s)), d # {}
  PROVE  d \ {Max(d)} \in SUBSET (1..Len(s)) /\ s[Max(d)] \in X
<1>1. Len(s) \in Nat /\ \A m \in 1..Len(s) : s[m] \in X
  OBVIOUS
<1>2. Max(d) \in d
  BY <1>1, MaxOf
<1> QED BY <1>1, <1>2

LEMMA AddsOne ==
  ASSUME NEW X, NEW found \in Seq(X), NEW x \in X
  PROVE  /\ Add(found, x) \in Seq(X) /\ Range(Add(found, x)) = Range(found) \cup {x}
         /\ Len(Add(found, x)) = IF x \in Range(found) THEN Len(found) ELSE Len(found) + 1
<1>1. Append(found, x) \in Seq(X) /\ Len(Append(found, x)) = Len(found) + 1
  BY AppendsOne
<1>2. Range(Append(found, x)) = Range(found) \cup {x}
  BY AppendsOne
<1>3. CASE x \in Range(found)
  <2>1. Add(found, x) = found
    BY <1>3 DEF Add
  <2> QED BY <1>3, <2>1
<1>4. CASE x \notin Range(found)
  <2>1. Add(found, x) = Append(found, x)
    BY <1>4 DEF Add
  <2> QED BY <1>1, <1>2, <1>4, <2>1
<1> QED BY <1>3, <1>4

LEMMA AddFold ==
  ASSUME NEW X, NEW s \in Seq(X)
  PROVE  \E f \in [SUBSET (1..Len(s)) -> Seq(X)] : \A d \in SUBSET (1..Len(s)) :
           f[d] = IF d = {} THEN <<>> ELSE Add(f[d \ {Max(d)}], s[Max(d)])
<1> DEFINE g == [q \in Seq(X) \X X |-> Add(q[1], q[2])]
           D == SUBSET (1..Len(s))
<1>1. \A a \in Seq(X), x \in X : Add(a, x) \in Seq(X) /\ g[<<a, x>>] = Add(a, x)
  BY AddsOne
<1>2. g \in [Seq(X) \X X -> Seq(X)]
  BY <1>1
<1> HIDE DEF g
<1>3. PICK f : Folds(f, Seq(X), <<>>, g, s)
  <2> DEFINE Q == Seq(X) base == <<>>
  <2>1. g \in [Q \X X -> Q] /\ base \in Q
    BY <1>2
  <2> HIDE DEF Q, base
  <2>2. \E f : Folds(f, Q, base, g, s)
    BY <2>1, FoldDefined
  <2> QED BY <2>2 DEF Q, base
<1>4. ASSUME NEW d \in D, d # {} PROVE f[d] = Add(f[d \ {Max(d)}], s[Max(d)])
  <2>2. s[Max(d)] \in X /\ d \ {Max(d)} \in D
    BY <1>4, Topmost
  <2> QED BY <1>1, <1>3, <1>4, <2>2 DEF Folds
<1> QED BY <1>3, <1>4 DEF Folds

LEMMA DistinctSteps ==
  ASSUME NEW X, NEW s \in Seq(X)
  PROVE  \E h \in [0..Len(s) -> Seq(X)] :
           /\ h[0] = <<>> /\ h[Len(s)] = Distinct(s)
           /\ \A i \in 1..Len(s) : h[i] = Add(h[i - 1], s[i])
<1> DEFINE n == Len(s)
           Walk(f) == [d \in SUBSET (1..n) |->
                         IF d = {} THEN <<>> ELSE LET x == Max(d) IN Add(f[d \ {x}], s[x])]
           f == CHOOSE f : f = Walk(f)
<1>1. n \in Nat /\ DOMAIN s = 1..n /\ \A i \in 1..n : s[i] \in X
  OBVIOUS
<1>2. Distinct(s) = f[1..n]
  BY <1>1, DistinctFold
<1>3. f = Walk(f)
  <2>2. PICK e \in [SUBSET (1..n) -> Seq(X)] : \A d \in SUBSET (1..n) :
           e[d] = IF d = {} THEN <<>> ELSE Add(e[d \ {Max(d)}], s[Max(d)])
    BY AddFold
  <2>5. e = Walk(e)
    BY <2>2
  <2> HIDE DEF Walk
  <2> QED BY <2>5
<1> DEFINE h == [i \in 0..n |-> f[1..i]]
<1> HIDE DEF f
<1>5. h[0] = <<>>
  <2>1. 1..0 = {} /\ 0 \in 0..n
    BY <1>1
  <2> QED BY <1>3, <2>1
<1>6. \A i \in 1..n : h[i] = Add(h[i - 1], s[i])
  <2> SUFFICES ASSUME NEW i \in 1..n PROVE f[1..i] = Add(f[1..(i - 1)], s[i])
    OBVIOUS
  <2>1. Max(1..i) = i /\ (1..i) \ {i} = 1..(i - 1) /\ 1..i # {} /\ 1..i \in SUBSET (1..n)
    BY <1>1, UpTo
  <2> QED BY <1>3, <2>1
<1>7. \A k \in Nat : k \in {m \in Nat : m <= n => h[m] \in Seq(X)}
  <2> DEFINE T == {m \in Nat : m <= n => h[m] \in Seq(X)}
  <2>1. 0 \in T
    BY <1>5
  <2>2. ASSUME NEW m \in Nat, m \in T PROVE m + 1 \in T
    <3> HIDE DEF h
    <3>1. CASE m + 1 <= n
      <4>1. h[m] \in Seq(X) /\ h[m + 1] = Add(h[m], s[m + 1]) /\ s[m + 1] \in X
        BY <1>1, <1>6, <2>2, <3>1
      <4>2. \A a \in Seq(X), x \in X : Add(a, x) \in Seq(X)
        BY AddsOne
      <4>3. h[m + 1] \in Seq(X)
        BY <4>1, <4>2
      <4> QED BY <4>3
    <3>2. CASE ~(m + 1 <= n)
      BY <3>2
    <3> QED BY <3>1, <3>2
  <2> HIDE DEF T
  <2> QED BY <2>1, <2>2, Climbs DEF T
<1>8. h \in [0..n -> Seq(X)] /\ h[n] = f[1..n]
  <2>1. ASSUME NEW m \in 0..n PROVE h[m] \in Seq(X)
    <3>1. m \in Nat /\ m <= n
      BY <1>1
    <3> HIDE DEF h
    <3> QED BY <3>1, <1>7
  <2>2. n \in 0..n
    BY <1>1
  <2> QED BY <2>1, <2>2
<1> HIDE DEF h
<1> QED BY <1>2, <1>5, <1>6, <1>8

\* _collect keeps each value it reaches, once.
LEMMA DistinctIs ==
  ASSUME NEW X, NEW s \in Seq(X)
  PROVE  /\ Distinct(s) \in Seq(X) /\ Range(Distinct(s)) = Range(s)
         /\ Len(Distinct(s)) = Cardinality(Range(Distinct(s)))
<1>1. PICK h \in [0..Len(s) -> Seq(X)] :
        /\ h[0] = <<>> /\ h[Len(s)] = Distinct(s)
        /\ \A i \in 1..Len(s) : h[i] = Add(h[i - 1], s[i])
  BY DistinctSteps
<1> DEFINE n == Len(s)
           Right(m) == /\ Range(h[m]) = {s[i] : i \in 1..m} /\ IsFiniteSet(Range(h[m]))
                       /\ Len(h[m]) = Cardinality(Range(h[m]))
           T == {m \in Nat : m <= n => Right(m)}
<1>2. 0 \in T
  <2>1. Range(h[0]) = {} /\ Len(h[0]) = 0 /\ {s[i] : i \in 1..0} = {}
    BY <1>1 DEF Range
  <2> QED BY <2>1, FS_EmptySet
<1>3. ASSUME NEW m \in Nat, m \in T PROVE m + 1 \in T
  <2> SUFFICES ASSUME m + 1 <= n PROVE Right(m + 1)
    OBVIOUS
  <2>1. Right(m) /\ h[m] \in Seq(X) /\ s[m + 1] \in X /\ h[m + 1] = Add(h[m], s[m + 1])
    BY <1>1, <1>3
  <2>2. Range(h[m + 1]) = Range(h[m]) \cup {s[m + 1]}
        /\ Len(h[m + 1]) = IF s[m + 1] \in Range(h[m]) THEN Len(h[m]) ELSE Len(h[m]) + 1
    <3> DEFINE a == h[m] x == s[m + 1]
    <3>1. a \in Seq(X) /\ x \in X /\ h[m + 1] = Add(a, x)
      BY <2>1
    <3> HIDE DEF a, x
    <3>2. Range(Add(a, x)) = Range(a) \cup {x} /\ Len(Add(a, x)) = IF x \in Range(a) THEN Len(a) ELSE Len(a) + 1
      BY <3>1, AddsOne
    <3> QED BY <3>1, <3>2 DEF a, x
  <2>3. {s[i] : i \in 1..(m + 1)} = {s[i] : i \in 1..m} \cup {s[m + 1]}
    OBVIOUS
  <2>4. /\ IsFiniteSet(Range(h[m]) \cup {s[m + 1]})
        /\ Cardinality(Range(h[m]) \cup {s[m + 1]}) =
              IF s[m + 1] \in Range(h[m]) THEN Cardinality(Range(h[m])) ELSE Cardinality(Range(h[m])) + 1
    BY <2>1, FS_AddElement
  <2> QED BY <2>1, <2>2, <2>3, <2>4
<1> HIDE DEF T
<1>4. n \in T
  BY <1>2, <1>3, Climbs
<1>5. Range(s) = {s[i] : i \in 1..n}
  BY DEF Range
<1>6. n \in Nat /\ Right(n)
  BY <1>4 DEF T
<1>7. h[n] \in Seq(X) /\ h[n] = Distinct(s)
  BY <1>1, <1>6
<1> QED BY <1>5, <1>6, <1>7

LEMMA Keeps ==
  ASSUME NEW S, NEW X, NEW found \in Seq(X), NEW x \in X
  PROVE  /\ Keep(S, found, x) \in Seq(X)
         /\ Range(Keep(S, found, x)) = Range(found) \cup ({x} \cap S)
<1>1. CASE x \in S
  <2>1. Append(found, x) \in Seq(X) /\ Range(Append(found, x)) = Range(found) \cup {x}
    BY AppendsOne
  <2>2. {x} \cap S = {x}
    BY <1>1
  <2> QED BY <1>1, <2>1, <2>2 DEF Keep
<1>2. CASE x \notin S
  BY <1>2 DEF Keep
<1> QED BY <1>1, <1>2

Kept(f, X, s, S) ==
  /\ f \in [SUBSET (1..Len(s)) -> Seq(X)]
  /\ \A d \in SUBSET (1..Len(s)) :
       f[d] = IF d = {} THEN <<>> ELSE Keep(S, f[d \ {Max(d)}], s[Max(d)])

LEMMA KeepFold ==
  ASSUME NEW X, NEW s \in Seq(X), NEW S \in SUBSET X
  PROVE  \E f : Kept(f, X, s, S)
<1> DEFINE g == [q \in Seq(X) \X X |-> Keep(S, q[1], q[2])]
           D == SUBSET (1..Len(s))
<1>1. \A a \in Seq(X), x \in X : Keep(S, a, x) \in Seq(X) /\ g[<<a, x>>] = Keep(S, a, x)
  BY Keeps
<1>2. g \in [Seq(X) \X X -> Seq(X)]
  BY <1>1
<1> HIDE DEF g
<1>3. PICK f : Folds(f, Seq(X), <<>>, g, s)
  <2> DEFINE Q == Seq(X) base == <<>>
  <2>1. g \in [Q \X X -> Q] /\ base \in Q
    BY <1>2
  <2> HIDE DEF Q, base
  <2>2. \E f : Folds(f, Q, base, g, s)
    BY <2>1, FoldDefined
  <2> QED BY <2>2 DEF Q, base
<1>4. ASSUME NEW d \in D, d # {} PROVE f[d] = Keep(S, f[d \ {Max(d)}], s[Max(d)])
  <2>1. d \ {Max(d)} \in D /\ s[Max(d)] \in X
    BY <1>4, Topmost
  <2> QED BY <1>1, <1>3, <1>4, <2>1 DEF Folds
<1> QED BY <1>3, <1>4 DEF Folds, Kept

\* Only() has the elements that are in the set, and no other.
LEMMA OnlyIs ==
  ASSUME NEW X, NEW s \in Seq(X), NEW S \in SUBSET X
  PROVE  Only(s, S) \in Seq(X) /\ Range(Only(s, S)) = Range(s) \cap S
<1> DEFINE n == Len(s)
           Walk(f) == [d \in SUBSET (1..n) |->
                         IF d = {} THEN <<>> ELSE LET x == Max(d) IN Keep(S, f[d \ {x}], s[x])]
           f == CHOOSE f : f = Walk(f)
<1>1. n \in Nat /\ DOMAIN s = 1..n /\ \A i \in 1..n : s[i] \in X
  OBVIOUS
<1>2. Only(s, S) = f[1..n]
  BY <1>1, OnlyFold
<1>3. f = Walk(f)
  <2>1. PICK e : Kept(e, X, s, S)
    BY KeepFold
  <2>2. e = Walk(e)
    BY <2>1 DEF Kept
  <2> HIDE DEF Walk
  <2> QED BY <2>2
<1> HIDE DEF f
<1> DEFINE Right(m) == f[1..m] \in Seq(X) /\ Range(f[1..m]) = {s[i] : i \in 1..m} \cap S
           T == {m \in Nat : m <= n => Right(m)}
<1>4. 0 \in T
  <2>1. f[1..0] = <<>> /\ 1..0 = {}
    BY <1>1, <1>3
  <2>2. Range(<<>>) = {} /\ <<>> \in Seq(X) /\ {s[i] : i \in 1..0} = {}
    BY DEF Range
  <2>3. Right(0)
    BY <2>1, <2>2
  <2> QED BY <2>3
<1>5. ASSUME NEW m \in Nat, m \in T PROVE m + 1 \in T
  <2> SUFFICES ASSUME m + 1 <= n PROVE Right(m + 1)
    OBVIOUS
  <2>1. Right(m) /\ s[m + 1] \in X
    BY <1>1, <1>5
  <2>2. m + 1 \in 1..n /\ (m + 1) - 1 = m
    BY <1>1
  <2>3. /\ 1..(m + 1) \in SUBSET (1..n) /\ 1..(m + 1) # {}
        /\ Max(1..(m + 1)) = m + 1 /\ (1..(m + 1)) \ {m + 1} = 1..m
    BY <1>1, <2>2, UpTo
  <2>4. f[1..(m + 1)] = Keep(S, f[1..m], s[m + 1])
    BY <1>3, <2>3
  <2>5. {s[i] : i \in 1..(m + 1)} = {s[i] : i \in 1..m} \cup {s[m + 1]}
    OBVIOUS
  <2>6. \A a \in Seq(X), x \in X :
          Keep(S, a, x) \in Seq(X) /\ Range(Keep(S, a, x)) = Range(a) \cup ({x} \cap S)
    BY Keeps
  <2>7. {s[i] : i \in 1..(m + 1)} \cap S = ({s[i] : i \in 1..m} \cap S) \cup ({s[m + 1]} \cap S)
    BY <2>5
  <2>8. f[1..(m + 1)] \in Seq(X) /\ Range(f[1..(m + 1)]) = Range(f[1..m]) \cup ({s[m + 1]} \cap S)
    <3> DEFINE a == f[1..m] x == s[m + 1]
    <3>1. a \in Seq(X) /\ x \in X /\ f[1..(m + 1)] = Keep(S, a, x)
      BY <2>1, <2>4
    <3> HIDE DEF a, x
    <3>2. f[1..(m + 1)] \in Seq(X) /\ Range(f[1..(m + 1)]) = Range(a) \cup ({x} \cap S)
      BY <2>6, <3>1
    <3> QED BY <3>2 DEF a, x
  <2> QED BY <2>1, <2>7, <2>8
<1> HIDE DEF T
<1>6. n \in T
  BY <1>1, <1>4, <1>5, Climbs
<1>7. Range(s) = {s[i] : i \in 1..n}
  BY <1>1 DEF Range
<1> QED BY <1>2, <1>6, <1>7 DEF T

\* f joins the sequences of ss one after the other.
Joins(f, X, ss) ==
  /\ f \in [1..Len(ss) -> Seq(X)]
  /\ \A i \in 1..Len(ss) : f[i] = IF i = 1 THEN ss[i] ELSE f[i - 1] \o ss[i]

LEMMA JoinDefined ==
  ASSUME NEW X, NEW ss \in Seq(Seq(X))
  PROVE  \E f : Joins(f, X, ss)
<1> DEFINE n == Len(ss)
           F == [1..n -> Seq(X)]
           Next1(f, i) == f[i] = IF i = 1 THEN ss[i] ELSE f[i - 1] \o ss[i]
           T == {m \in Nat : \E f \in F : \A i \in 1..n : i <= m => Next1(f, i)}
<1>0. n \in Nat /\ \A i \in 1..n : ss[i] \in Seq(X)
  OBVIOUS
<1>1. 0 \in T
  <2>1. ss \in F
    BY <1>0
  <2>2. \A i \in 1..n : ~(i <= 0)
    BY <1>0
  <2> QED BY <2>1, <2>2
<1>2. ASSUME NEW m \in Nat, m \in T PROVE m + 1 \in T
  <2>1. PICK f \in F : \A i \in 1..n : i <= m => Next1(f, i)
    BY <1>2
  <2> DEFINE h == [i \in 1..n |-> IF i = 1 THEN ss[i] ELSE f[i - 1] \o ss[i]]
  <2>2. \A i \in 1..n : i # 1 => i - 1 \in 1..n
    BY <1>0
  <2>3. h \in F
    <3>1. \A a, b \in Seq(X) : a \o b \in Seq(X)
      OBVIOUS
    <3>2. ASSUME NEW i \in 1..n PROVE (IF i = 1 THEN ss[i] ELSE f[i - 1] \o ss[i]) \in Seq(X)
      <4>1. i # 1 => f[i - 1] \in Seq(X)
        BY <2>2
      <4> QED BY <1>0, <3>1, <4>1
    <3> QED BY <3>2
  <2>4. ASSUME NEW i \in 1..n, i <= m + 1 PROVE Next1(h, i)
    <3>1. CASE i = 1
      BY <3>1
    <3>2. CASE i # 1
      <4>1. i - 1 \in 1..n /\ i - 1 <= m
        BY <2>2, <2>4, <3>2
      <4>2. f[i - 1] = h[i - 1]
        BY <2>1, <4>1
      <4> QED BY <3>2, <4>2
    <3> QED BY <3>1, <3>2
  <2> HIDE DEF h, F, Next1
  <2> QED BY <2>3, <2>4
<1> HIDE DEF T
<1>3. n \in T
  BY <1>0, <1>1, <1>2, Climbs
<1>4. PICK f \in F : \A i \in 1..n : i <= n => Next1(f, i)
  BY <1>3 DEF T
<1>5. ASSUME NEW i \in 1..n PROVE Next1(f, i)
  <2>1. i <= n
    BY <1>0
  <2> HIDE DEF Next1
  <2> QED BY <1>4, <2>1
<1> QED BY <1>5 DEF Joins

\* A flattened sequence has what its sequences have.
LEMMA FlattenIs ==
  ASSUME NEW X, NEW ss \in Seq(Seq(X))
  PROVE  /\ FlattenSeq(ss) \in Seq(X)
         /\ Range(FlattenSeq(ss)) = UNION {Range(ss[i]) : i \in 1..Len(ss)}
<1> DEFINE n == Len(ss)
<1>0. n \in Nat /\ \A i \in 1..n : ss[i] \in Seq(X)
  OBVIOUS
<1>1. CASE n = 0
  <2>1. ss = <<>> /\ FlattenSeq(ss) = ss /\ 1..n = {}
    BY <1>1, EmptySeq DEF FlattenSeq
  <2>2. Range(<<>>) = {} /\ <<>> \in Seq(X)
    BY DEF Range
  <2> QED BY <2>1, <2>2
<1>2. CASE n # 0
  <2> DEFINE Walk(f) == [i \in 1..n |-> IF i = 1 THEN ss[i] ELSE f[i - 1] \o ss[i]]
             f == CHOOSE f : f = Walk(f)
  <2>1. FlattenSeq(ss) = f[n]
    BY <1>2 DEF FlattenSeq
  <2>2. f = Walk(f)
    <3>1. PICK e : Joins(e, X, ss)
      BY JoinDefined
    <3>2. e = Walk(e)
      BY <3>1 DEF Joins
    <3> HIDE DEF Walk
    <3> QED BY <3>2
  <2> HIDE DEF f
  <2> DEFINE Right(m) == f[m] \in Seq(X) /\ Range(f[m]) = UNION {Range(ss[i]) : i \in 1..m}
             T == {m \in Nat : m \in 1..n => Right(m)}
  <2>3. 0 \in T
    OBVIOUS
  <2>4. ASSUME NEW m \in Nat, m \in T PROVE m + 1 \in T
    <3> SUFFICES ASSUME m + 1 \in 1..n PROVE Right(m + 1)
      OBVIOUS
    <3>1. CASE m = 0
      <4>1. f[1] = ss[1] /\ 1 \in 1..n
        BY <1>0, <2>2, <3>1
      <4>2. UNION {Range(ss[i]) : i \in 1..1} = Range(ss[1])
        OBVIOUS
      <4> QED BY <1>0, <3>1, <4>1, <4>2
    <3>2. CASE m # 0
      <4>1. m \in 1..n /\ Right(m)
        BY <1>0, <2>4, <3>2
      <4>2. f[m + 1] = f[m] \o ss[m + 1] /\ ss[m + 1] \in Seq(X)
        <5>1. m + 1 # 1 /\ (m + 1) - 1 = m
          BY <3>2
        <5>2. f[m + 1] = f[(m + 1) - 1] \o ss[m + 1]
          BY <2>2, <5>1
        <5> QED BY <1>0, <5>1, <5>2
      <4>3. \A a, b \in Seq(X) : a \o b \in Seq(X) /\ Range(a \o b) = Range(a) \cup Range(b)
        BY RangeConcatenation
      <4>4. UNION {Range(ss[i]) : i \in 1..(m + 1)} = (UNION {Range(ss[i]) : i \in 1..m}) \cup Range(ss[m + 1])
        <5> DEFINE R(i) == Range(ss[i])
        <5>1. \A i : i \in 1..(m + 1) <=> i \in 1..m \/ i = m + 1
          OBVIOUS
        <5> HIDE DEF R
        <5>2. UNION {R(i) : i \in 1..(m + 1)} = (UNION {R(i) : i \in 1..m}) \cup R(m + 1)
          BY <5>1
        <5> QED BY <5>2 DEF R
      <4> QED BY <4>1, <4>2, <4>3, <4>4
    <3> QED BY <3>1, <3>2
  <2> HIDE DEF T
  <2>5. n \in T
    BY <1>0, <2>3, <2>4, Climbs
  <2>6. n \in 1..n
    BY <1>0, <1>2
  <2> QED BY <2>1, <2>5, <2>6 DEF T
<1> QED BY <1>1, <1>2

\* The words of topic t that word w of a pattern may take: those after the first a, up to b.
Piece(w, t, a, b) == IF w = "#" THEN b >= a ELSE b = a + 1 /\ w \in {"*", t[b]}

\* The words of pattern p after the first k match those of topic t from the i-th on.
Cuts(cut, p, k, t, i) ==
  /\ cut \in [k..Len(p) -> 0..Len(t)] /\ cut[k] = i - 1 /\ cut[Len(p)] = Len(t)
  /\ \A j \in (k + 1)..Len(p) : Piece(p[j], t, cut[j - 1], cut[j])
Rest(p, k, t, i) == \E cut : Cuts(cut, p, k, t, i)

LEMMA RestStarts ==
  ASSUME NEW p \in Seq(Words), NEW t \in Seq(Words)
  PROVE  Matches(p, t) <=> Rest(p, 0, t, 1)
<1>1. 0 + 1 = 1 /\ 1 - 1 = 0
  OBVIOUS
<1>2. ASSUME Matches(p, t) PROVE Rest(p, 0, t, 1)
  BY <1>1, <1>2 DEF Matches, Rest, Cuts, Piece
<1>3. ASSUME Rest(p, 0, t, 1) PROVE Matches(p, t)
  BY <1>1, <1>3 DEF Matches, Rest, Cuts, Piece
<1> QED BY <1>2, <1>3

LEMMA RestEnds ==
  ASSUME NEW p \in Seq(Words), NEW t \in Seq(Words), NEW i \in 1..Len(t) + 1
  PROVE  Rest(p, Len(p), t, i) <=> i = Len(t) + 1
<1> DEFINE n == Len(p)
           cut == [j \in n..n |-> Len(t)]
<1>1. n \in Nat /\ Len(t) \in Nat /\ i \in Nat /\ n \in n..n /\ (n + 1)..n = {}
  OBVIOUS
<1>2. ASSUME i = Len(t) + 1 PROVE Rest(p, n, t, i)
  <2>1. cut \in [n..n -> 0..Len(t)] /\ cut[n] = i - 1 /\ cut[n] = Len(t)
    BY <1>1, <1>2
  <2> HIDE DEF cut
  <2>2. Cuts(cut, p, n, t, i)
    BY <1>1, <2>1 DEF Cuts
  <2> QED BY <2>2 DEF Rest
<1>3. ASSUME Rest(p, n, t, i) PROVE i = Len(t) + 1
  BY <1>1, <1>3 DEF Rest, Cuts
<1> QED BY <1>2, <1>3

LEMMA RestGoes ==
  ASSUME NEW p \in Seq(Words), NEW t \in Seq(Words), NEW i \in 1..Len(t) + 1,
         NEW k \in Nat, k < Len(p)
  PROVE  Rest(p, k, t, i) <=>
           \E j \in 1..Len(t) + 1 : Piece(p[k + 1], t, i - 1, j - 1) /\ Rest(p, k + 1, t, j)
<1> DEFINE n == Len(p)
           m == Len(t)
<1>1. n \in Nat /\ m \in Nat /\ i \in Nat /\ k + 1 \in k..n /\ k \in k..n /\ n \in (k + 1)..n
      /\ n \in k..n /\ k + 1 \in (k + 1)..n /\ (k + 1) - 1 = k
  OBVIOUS
<1>2. ASSUME Rest(p, k, t, i)
      PROVE  \E j \in 1..m + 1 : Piece(p[k + 1], t, i - 1, j - 1) /\ Rest(p, k + 1, t, j)
  <2>1. PICK cut : Cuts(cut, p, k, t, i)
    BY <1>2 DEF Rest
  <2> DEFINE j == cut[k + 1] + 1
             tail == [l \in (k + 1)..n |-> cut[l]]
  <2>2. j \in 1..m + 1 /\ j - 1 = cut[k + 1]
    <3>1. cut[k + 1] \in 0..m
      BY <1>1, <2>1 DEF Cuts
    <3>2. m \in Nat
      BY <1>1
    <3> HIDE DEF m
    <3>3. \A c \in 0..m : c + 1 \in 1..m + 1 /\ (c + 1) - 1 = c
      BY <3>2
    <3> QED BY <3>1, <3>3
  <2>3. Piece(p[k + 1], t, i - 1, j - 1)
    BY <1>1, <2>1, <2>2 DEF Cuts
  <2>4. Cuts(tail, p, k + 1, t, j)
    <3>1. tail \in [(k + 1)..n -> 0..m] /\ tail[k + 1] = j - 1 /\ tail[n] = m
      BY <1>1, <2>1, <2>2 DEF Cuts
    <3>2. ASSUME NEW l \in (k + 1 + 1)..n PROVE Piece(p[l], t, tail[l - 1], tail[l])
      <4>1. l \in (k + 1)..n /\ l - 1 \in (k + 1)..n
        BY <1>1
      <4>2. tail[l] = cut[l] /\ tail[l - 1] = cut[l - 1]
        BY <4>1
      <4>3. Piece(p[l], t, cut[l - 1], cut[l])
        BY <2>1, <4>1 DEF Cuts
      <4> HIDE DEF tail
      <4> QED BY <4>2, <4>3
    <3> HIDE DEF tail, j
    <3> QED BY <3>1, <3>2 DEF Cuts
  <2> HIDE DEF tail, j
  <2> QED BY <2>2, <2>3, <2>4 DEF Rest
<1>3. ASSUME NEW j \in 1..m + 1, Piece(p[k + 1], t, i - 1, j - 1), Rest(p, k + 1, t, j)
      PROVE  Rest(p, k, t, i)
  <2>1. PICK tail : Cuts(tail, p, k + 1, t, j)
    BY <1>3 DEF Rest
  <2> DEFINE cut == [l \in k..n |-> IF l = k THEN i - 1 ELSE tail[l]]
  <2>2. cut \in [k..n -> 0..m] /\ cut[k] = i - 1 /\ cut[n] = m
    <3>1. \A l \in k..n : l # k => l \in (k + 1)..n
      BY <1>1
    <3>2. i - 1 \in 0..m
      BY <1>1
    <3>3. \A l \in (k + 1)..n : tail[l] \in 0..m
      BY <2>1 DEF Cuts
    <3>4. tail[n] = m /\ n # k
      BY <1>1, <2>1 DEF Cuts
    <3> QED BY <1>1, <3>1, <3>2, <3>3, <3>4
  <2>3. ASSUME NEW l \in (k + 1)..n PROVE Piece(p[l], t, cut[l - 1], cut[l])
    <3>1. CASE l = k + 1
      <4>1. cut[l - 1] = i - 1 /\ cut[l] = j - 1
        BY <1>1, <2>1, <3>1 DEF Cuts
      <4> HIDE DEF cut
      <4> QED BY <1>3, <3>1, <4>1
    <3>2. CASE l # k + 1
      <4>1. l \in (k + 1 + 1)..n /\ l - 1 \in k..n /\ l - 1 # k /\ l # k /\ l \in k..n
        BY <1>1, <3>2
      <4>2. cut[l - 1] = tail[l - 1] /\ cut[l] = tail[l]
        BY <4>1
      <4>3. Piece(p[l], t, tail[l - 1], tail[l])
        BY <2>1, <4>1 DEF Cuts
      <4> HIDE DEF cut
      <4> QED BY <4>2, <4>3
    <3> QED BY <3>1, <3>2
  <2> HIDE DEF cut
  <2> QED BY <2>2, <2>3 DEF Rest, Cuts
<1> QED BY <1>2, <1>3

\* A node is a prefix of the pattern, and the routes whose pattern goes through it.
LeadsTo(node, p) == Len(node) <= Len(p) /\ SubSeq(p, 1, Len(node)) = node
Through(table, node) == {route \in Range(table) : LeadsTo(node, route.pattern)}

LEMMA GoesThrough ==
  ASSUME NEW W, NEW p \in Seq(W), NEW node \in Seq(W), NEW w \in W
  PROVE  LeadsTo(Append(node, w), p) <=>
           LeadsTo(node, p) /\ Len(node) < Len(p) /\ p[Len(node) + 1] = w
<1> DEFINE k == Len(node)
           child == Append(node, w)
<1>1. /\ k \in Nat /\ Len(p) \in Nat /\ child \in Seq(W) /\ Len(child) = k + 1
      /\ \A i \in 1..k : child[i] = node[i]
      /\ child[k + 1] = w
  <2>1. /\ child \in Seq(W) /\ Len(child) = k + 1
        /\ \A i \in 1..k + 1 : child[i] = IF i <= k THEN node[i] ELSE w
    BY AppendProperties
  <2> HIDE DEF child
  <2>2. k \in Nat /\ Len(p) \in Nat
    OBVIOUS
  <2> HIDE DEF k
  <2>3. \A i \in 1..k : child[i] = node[i]
    BY <2>1, <2>2
  <2>4. child[k + 1] = w
    BY <2>1, <2>2
  <2> QED BY <2>1, <2>2, <2>3, <2>4
<1>2. ASSUME k < Len(p)
      PROVE  /\ SubSeq(p, 1, k) \in Seq(W) /\ Len(SubSeq(p, 1, k)) = k
             /\ \A i \in 1..k : SubSeq(p, 1, k)[i] = p[i]
             /\ SubSeq(p, 1, k + 1) \in Seq(W) /\ Len(SubSeq(p, 1, k + 1)) = k + 1
             /\ \A i \in 1..(k + 1) : SubSeq(p, 1, k + 1)[i] = p[i]
  BY <1>1, <1>2, SubSeqProperties
<1> HIDE DEF k, child
<1>3. ASSUME k < Len(p), SubSeq(p, 1, k + 1) = child
      PROVE  SubSeq(p, 1, k) = node /\ p[k + 1] = w
  <2>1. \A i \in 1..(k + 1) : child[i] = p[i]
    BY <1>2, <1>3
  <2>2. \A i \in 1..k : SubSeq(p, 1, k)[i] = node[i]
    BY <1>1, <1>2, <1>3, <2>1
  <2>3. p[k + 1] = w
    <3>1. k + 1 \in 1..(k + 1)
      BY <1>1
    <3> QED BY <1>1, <2>1, <3>1
  <2>4. Len(node) = k
    BY DEF k
  <2>5. SubSeq(p, 1, k) = node
    BY <1>2, <1>3, <2>2, <2>4, SeqEqual
  <2> QED BY <2>3, <2>5
<1>4. ASSUME k < Len(p), SubSeq(p, 1, k) = node, p[k + 1] = w
      PROVE  SubSeq(p, 1, k + 1) = child
  <2>1. \A i \in 1..k : node[i] = p[i]
    BY <1>2, <1>4
  <2>2. \A i \in 1..(k + 1) : SubSeq(p, 1, k + 1)[i] = child[i]
    <3> SUFFICES ASSUME NEW i \in 1..(k + 1) PROVE p[i] = child[i]
      BY <1>2, <1>4
    <3>1. i \in 1..k \/ i = k + 1
      BY <1>1
    <3> QED BY <1>1, <1>4, <2>1, <3>1
  <2> QED BY <1>1, <1>2, <1>4, <2>2, SeqEqual
<1>5. LeadsTo(child, p) <=> k < Len(p) /\ SubSeq(p, 1, k + 1) = child
  BY <1>1 DEF LeadsTo
<1>6. k < Len(p) => (LeadsTo(node, p) <=> SubSeq(p, 1, k) = node)
  BY <1>1 DEF LeadsTo, k
<1> QED BY <1>3, <1>4, <1>5, <1>6 DEF k, child

IsTable(table) ==
  table \in Seq(Range(table)) /\ \A route \in Range(table) : route.pattern \in Seq(Words)

Handlers(table) == {route.handler : route \in Range(table)}

\* The handlers a node can lead to, with the words of t from the i-th on still to match.
Reached(table, t, node, i) ==
  {route.handler : route \in {route \in Through(table, node) : Rest(route.pattern, Len(node), t, i)}}
\* Those whose pattern ends at it.
Ending(table, node) == {route.handler : route \in {route \in Range(table) : route.pattern = node}}

LEMMA ValuesIs ==
  ASSUME NEW table, IsTable(table), NEW node
  PROVE  Values(table, node) \in Seq(Handlers(table)) /\ Range(Values(table, node)) = Ending(table, node)
<1> DEFINE S == {route \in Range(table) : route.pattern = node}
           here == Only(table, S)
           X == Range(table)
<1>1. here \in Seq(X) /\ Range(here) = X \cap S
  <2>1. table \in Seq(X) /\ S \in SUBSET X
    BY DEF IsTable
  <2> HIDE DEF S, X
  <2>2. Only(table, S) \in Seq(X) /\ Range(Only(table, S)) = Range(table) \cap S
    BY <2>1, OnlyIs
  <2> QED BY <2>2 DEF X
<1>2. Values(table, node) = [i \in 1..Len(here) |-> here[i].handler]
  BY DEF Values
<1>3. \A r \in S : r \in X /\ r.pattern = node
  OBVIOUS
<1>4. \A r \in X : r.pattern = node => r \in S
  OBVIOUS
<1> HIDE DEF here, S
<1>5. Len(here) \in Nat /\ (\A i \in 1..Len(here) : here[i] \in X) /\ Range(here) = {here[i] : i \in 1..Len(here)}
  BY <1>1 DEF Range
<1>6. Values(table, node) \in Seq(Handlers(table))
  <2>1. \A r \in X : r.handler \in Handlers(table)
    BY DEF Handlers
  <2> HIDE DEF X
  <2> QED BY <1>2, <1>5, <2>1
<1>7. Range(Values(table, node)) = {r.handler : r \in Range(here)}
  BY <1>2, <1>5 DEF Range
<1>8. Range(here) = S
  BY <1>1, <1>3
<1>9. Ending(table, node) = {r.handler : r \in S}
  BY DEF Ending, S
<1> QED BY <1>6, <1>7, <1>8, <1>9

LEMMA ThroughChild ==
  ASSUME NEW table, IsTable(table), NEW node \in Seq(Words), NEW w \in Words
  PROVE  Through(table, Append(node, w)) =
           {route \in Through(table, node) : Len(node) < Len(route.pattern) /\ route.pattern[Len(node) + 1] = w}
<1>1. ASSUME NEW route \in Range(table)
      PROVE  LeadsTo(Append(node, w), route.pattern) <=>
               /\ LeadsTo(node, route.pattern) /\ Len(node) < Len(route.pattern)
               /\ route.pattern[Len(node) + 1] = w
  <2> DEFINE p == route.pattern
  <2>1. p \in Seq(Words)
    BY DEF IsTable
  <2> HIDE DEF p
  <2>2. LeadsTo(Append(node, w), p) <=> LeadsTo(node, p) /\ Len(node) < Len(p) /\ p[Len(node) + 1] = w
    BY <2>1, GoesThrough
  <2> QED BY <2>2 DEF p
<1> QED BY <1>1 DEF Through

\* From a node: its pattern ends with the topic, or goes on with some word.
LEMMA ReachedOn ==
  ASSUME NEW table, IsTable(table), NEW node \in Seq(Words),
         NEW t \in Seq(Words), NEW i \in 1..Len(t) + 1, NEW h
  PROVE  h \in Reached(table, t, node, i) <=>
           \/ i = Len(t) + 1 /\ h \in Ending(table, node)
           \/ \E w \in Words, j \in 1..Len(t) + 1 :
                Piece(w, t, i - 1, j - 1) /\ h \in Reached(table, t, Append(node, w), j)
<1> DEFINE k == Len(node)
<1>0. k \in Nat
  OBVIOUS
<1>1. ASSUME NEW route \in Through(table, node)
      PROVE  /\ route \in Range(table) /\ route.pattern \in Seq(Words) /\ k <= Len(route.pattern)
             /\ SubSeq(route.pattern, 1, k) = node /\ Len(route.pattern) \in Nat
             /\ (Len(route.pattern) = k <=> route.pattern = node)
  <2> DEFINE p == route.pattern
  <2>1. p \in Seq(Words) /\ k <= Len(p) /\ SubSeq(p, 1, k) = node /\ route \in Range(table)
    BY DEF Through, LeadsTo, IsTable
  <2> HIDE DEF p
  <2>2. SubSeq(p, 1, Len(p)) = p /\ Len(p) \in Nat
    BY <2>1, SubSeqFull
  <2> QED BY <2>1, <2>2 DEF p
<1>2. ASSUME h \in Reached(table, t, node, i)
      PROVE  \/ i = Len(t) + 1 /\ h \in Ending(table, node)
             \/ \E w \in Words, j \in 1..Len(t) + 1 :
                  Piece(w, t, i - 1, j - 1) /\ h \in Reached(table, t, Append(node, w), j)
  <2>1. PICK route \in Through(table, node) : Rest(route.pattern, k, t, i) /\ h = route.handler
    BY <1>2 DEF Reached
  <2> DEFINE p == route.pattern
  <2>2. p \in Seq(Words) /\ k <= Len(p) /\ Len(p) \in Nat /\ route \in Range(table) /\ (Len(p) = k <=> p = node)
    BY <1>1
  <2>3. Rest(p, k, t, i)
    BY <2>1
  <2>4. CASE Len(p) = k
    <3>1. i = Len(t) + 1
      <4> HIDE DEF p
      <4> QED BY <2>2, <2>3, <2>4, RestEnds
    <3>2. h \in Ending(table, node)
      BY <2>1, <2>2, <2>4 DEF Ending
    <3> QED BY <3>1, <3>2
  <2>5. CASE k < Len(p)
    <3> DEFINE w == p[k + 1]
    <3>1. PICK j \in 1..Len(t) + 1 : Piece(w, t, i - 1, j - 1) /\ Rest(p, k + 1, t, j)
      <4> HIDE DEF p
      <4> QED BY <1>0, <2>2, <2>3, <2>5, RestGoes
    <3>2. w \in Words
      <4> HIDE DEF p
      <4> QED BY <1>0, <2>2, <2>5
    <3>3. route \in Through(table, Append(node, w))
      <4>1. route \in Through(table, node) /\ k < Len(route.pattern) /\ route.pattern[k + 1] = w
        BY <2>5
      <4> HIDE DEF w, p
      <4> QED BY <3>2, <4>1, ThroughChild
    <3>4. Len(Append(node, w)) = k + 1
      BY <3>2
    <3>5. h \in Reached(table, t, Append(node, w), j)
      BY <2>1, <3>1, <3>3, <3>4 DEF Reached
    <3> QED BY <3>1, <3>2, <3>5
  <2> QED BY <1>0, <2>2, <2>4, <2>5
<1>3. ASSUME i = Len(t) + 1, h \in Ending(table, node) PROVE h \in Reached(table, t, node, i)
  <2>1. PICK route \in Range(table) : route.pattern = node /\ h = route.handler
    BY <1>3 DEF Ending
  <2>2. route \in Through(table, node)
    BY <2>1, <1>0, SubSeqFull DEF Through, LeadsTo
  <2>3. Rest(node, k, t, i)
    BY <1>3, RestEnds
  <2> QED BY <2>1, <2>2, <2>3 DEF Reached
<1>4. ASSUME NEW w \in Words, NEW j \in 1..Len(t) + 1, Piece(w, t, i - 1, j - 1),
             h \in Reached(table, t, Append(node, w), j)
      PROVE  h \in Reached(table, t, node, i)
  <2>1. Len(Append(node, w)) = k + 1
    OBVIOUS
  <2>2. PICK route \in Through(table, Append(node, w)) : Rest(route.pattern, k + 1, t, j) /\ h = route.handler
    BY <1>4, <2>1 DEF Reached
  <2> DEFINE p == route.pattern
  <2>3. route \in Through(table, node) /\ k < Len(p) /\ p[k + 1] = w
    BY <2>2, ThroughChild
  <2>4. p \in Seq(Words) /\ Rest(p, k + 1, t, j)
    BY <1>1, <2>2, <2>3
  <2>5. Rest(p, k, t, i)
    <3> HIDE DEF p
    <3> QED BY <1>0, <1>4, <2>3, <2>4, RestGoes
  <2> QED BY <2>2, <2>3, <2>5 DEF Reached
<1> QED BY <1>2, <1>3, <1>4

LEMMA NodesAre ==
  ASSUME NEW table, IsTable(table)
  PROVE  /\ Nodes(table) \subseteq Seq(Words)
         /\ \A node \in Seq(Words) : node \in Nodes(table) <=> Through(table, node) # {}
         /\ table # <<>> => <<>> \in Nodes(table)
<1>1. ASSUME NEW route \in Range(table), NEW n \in 0..Len(route.pattern)
      PROVE  /\ SubSeq(route.pattern, 1, n) \in Seq(Words) /\ Len(SubSeq(route.pattern, 1, n)) = n
             /\ n <= Len(route.pattern)
  <2> DEFINE p == route.pattern
  <2>1. p \in Seq(Words)
    BY DEF IsTable
  <2> HIDE DEF p
  <2>2. n \in Nat /\ n <= Len(p) /\ Len(p) \in Nat /\ n \in 0..Len(p)
    BY <2>1 DEF p
  <2>3. \A i \in 1..n : p[i] \in Words
    BY <2>1, <2>2
  <2>4. SubSeq(p, 1, n) \in Seq(Words) /\ Len(SubSeq(p, 1, n)) = n
    BY <2>1, <2>2, <2>3, SubSeqProperties
  <2> QED BY <2>2, <2>4 DEF p
<1>2. Nodes(table) \subseteq Seq(Words)
  BY <1>1 DEF Nodes
<1>3. ASSUME NEW node \in Seq(Words) PROVE node \in Nodes(table) <=> Through(table, node) # {}
  <2>1. ASSUME node \in Nodes(table) PROVE Through(table, node) # {}
    <3>1. PICK route \in Range(table) : \E n \in 0..Len(route.pattern) : node = SubSeq(route.pattern, 1, n)
      BY <2>1 DEF Nodes
    <3>2. LeadsTo(node, route.pattern)
      BY <1>1, <3>1 DEF LeadsTo
    <3> QED BY <3>2 DEF Through
  <2>2. ASSUME NEW route \in Range(table), LeadsTo(node, route.pattern) PROVE node \in Nodes(table)
    <3>1. Len(node) \in 0..Len(route.pattern)
      <4>1. Len(node) \in Nat /\ Len(route.pattern) \in Nat
        BY DEF IsTable
      <4> QED BY <2>2, <4>1 DEF LeadsTo
    <3>2. node = SubSeq(route.pattern, 1, Len(node))
      BY <2>2 DEF LeadsTo
    <3> DEFINE l == Len(node)
    <3> HIDE DEF l
    <3>3. \E n \in 0..Len(route.pattern) : node = SubSeq(route.pattern, 1, n)
      BY <3>1, <3>2 DEF l
    <3> QED BY <3>3 DEF Nodes
  <2> QED BY <2>1, <2>2 DEF Through
<1>4. ASSUME table # <<>> PROVE <<>> \in Nodes(table)
  <2>1. PICK route \in Range(table) : TRUE
    <3>1. 1 \in DOMAIN table
      BY <1>4, EmptySeq DEF IsTable
    <3> QED BY <3>1 DEF Range
  <2>2. route.pattern \in Seq(Words) /\ 0 \in 0..Len(route.pattern)
    BY DEF IsTable
  <2>3. SubSeq(route.pattern, 1, 0) = <<>>
    BY <2>2, SubSeqEmpty
  <2> QED BY <2>2, <2>3 DEF Nodes
<1> QED BY <1>2, <1>3, <1>4

\* The depth of the trie is bounded.
LEMMA Deepest ==
  ASSUME NEW table, IsTable(table)
  PROVE  \E depth \in Nat : \A node \in Nodes(table) : Len(node) < depth
<1> DEFINE L(i) == Len(table[i].pattern)
           T == {m \in Nat : m <= Len(table) => \E depth \in Nat : \A i \in 1..m : L(i) < depth}
<1>1. /\ Len(table) \in Nat /\ Range(table) = {table[i] : i \in 1..Len(table)}
      /\ \A i \in 1..Len(table) : table[i] \in Range(table) /\ L(i) \in Nat
  <2>1. Len(table) \in Nat /\ DOMAIN table = 1..Len(table)
    BY DEF IsTable
  <2>2. Range(table) = {table[i] : i \in 1..Len(table)}
    BY <2>1 DEF Range
  <2>3. ASSUME NEW route \in Range(table) PROVE Len(route.pattern) \in Nat
    BY DEF IsTable
  <2> QED BY <2>1, <2>2, <2>3
<1> HIDE DEF L
<1>2. 0 \in T
  OBVIOUS
<1>3. ASSUME NEW m \in Nat, m \in T PROVE m + 1 \in T
  <2> SUFFICES ASSUME m + 1 <= Len(table) PROVE \E depth \in Nat : \A i \in 1..(m + 1) : L(i) < depth
    OBVIOUS
  <2>1. PICK depth \in Nat : \A i \in 1..m : L(i) < depth
    BY <1>1, <1>3
  <2>2. L(m + 1) \in Nat
    BY <1>1
  <2>3. \A i \in 1..(m + 1) : L(i) < depth + L(m + 1) + 1
    <3> SUFFICES ASSUME NEW i \in 1..(m + 1) PROVE L(i) < depth + L(m + 1) + 1
      OBVIOUS
    <3>1. L(i) \in Nat
      BY <1>1
    <3> QED BY <2>1, <2>2, <3>1
  <2>4. depth + L(m + 1) + 1 \in Nat
    BY <2>2
  <2> QED BY <2>3, <2>4
<1> HIDE DEF T
<1>4. Len(table) \in T
  BY <1>1, <1>2, <1>3, Climbs
<1>5. PICK depth \in Nat : \A i \in 1..Len(table) : L(i) < depth
  BY <1>1, <1>4 DEF T
<1>6. ASSUME NEW node \in Nodes(table) PROVE Len(node) < depth
  <2>1. node \in Seq(Words) /\ Through(table, node) # {}
    BY NodesAre
  <2>2. PICK route \in Range(table) : LeadsTo(node, route.pattern)
    BY <2>1 DEF Through
  <2>3. PICK i \in 1..Len(table) : route = table[i]
    BY <1>1
  <2>4. Len(node) <= L(i)
    BY <2>2, <2>3 DEF LeadsTo, L
  <2>5. Len(node) \in Nat /\ L(i) \in Nat
    BY <1>1, <2>1
  <2> QED BY <1>5, <2>4, <2>5
<1> QED BY <1>6

--------------------------------------------------------------------------------
(* The walk of match_topic. *)

Child(f, table, node, w, j) == IF Append(node, w) \in Nodes(table) THEN f[Append(node, w)][j] ELSE <<>>
Exact(f, table, t, node, i) == IF t[i] \in Wildcards THEN <<>> ELSE Child(f, table, node, t[i], i + 1)
Hashes(f, table, t, node, i) == [k \in 1..(Len(t) + 2 - i) |-> Child(f, table, node, "#", i + k - 1)]
Visit(f, table, t, node, i) ==
  IF i > Len(t) THEN Values(table, node) \o Child(f, table, node, "#", i)
  ELSE Exact(f, table, t, node, i) \o Child(f, table, node, "*", i + 1)
       \o FlattenSeq(Hashes(f, table, t, node, i))
Visits(f, table, t) ==
  f = [node \in Nodes(table) |-> [i \in 1..Len(t) + 1 |-> Visit(f, table, t, node, i)]]

LEMMA MatchVisits ==
  ASSUME NEW table, NEW t, table # <<>>
  PROVE  MatchTopic(table, t) = Distinct((CHOOSE f : Visits(f, table, t))[<<>>][1])
  BY DEF MatchTopic, Visits, Visit, Exact, Hashes, Child

LEMMA NoRoutes == ASSUME NEW t PROVE MatchTopic(<<>>, t) = <<>>
  BY DEF MatchTopic

\* What a node collects depends on its children alone.
Alike(f, g, table, node) ==
  \A w \in Words : Append(node, w) \in Nodes(table) => f[Append(node, w)] = g[Append(node, w)]

LEMMA SameVisit ==
  ASSUME NEW table, NEW t \in Seq(Words), NEW node, NEW i \in 1..Len(t) + 1, NEW f,
         NEW g, Alike(f, g, table, node)
  PROVE  Visit(f, table, t, node, i) = Visit(g, table, t, node, i)
<1>1. \A w \in Words : \A j : Child(f, table, node, w, j) = Child(g, table, node, w, j)
  BY DEF Child, Alike
<1>2. "#" \in Words /\ "*" \in Words
  BY EventAssumption
<1>3. ~(i > Len(t)) => t[i] \in Words
  <2> DEFINE X == Words
  <2>1. t \in Seq(X)
    OBVIOUS
  <2> HIDE DEF X
  <2>2. ~(i > Len(t)) => t[i] \in X
    BY <2>1
  <2> QED BY <2>2 DEF X
<1>4. ~(i > Len(t)) => Exact(f, table, t, node, i) = Exact(g, table, t, node, i)
  BY <1>1, <1>3 DEF Exact
<1>5. Hashes(f, table, t, node, i) = Hashes(g, table, t, node, i)
  BY <1>1, <1>2 DEF Hashes
<1> QED BY <1>1, <1>2, <1>4, <1>5 DEF Visit

LEMMA VisitsDefined ==
  ASSUME NEW table, IsTable(table), NEW t \in Seq(Words)
  PROVE  \E f : Visits(f, table, t)
<1>1. PICK depth \in Nat : \A node \in Nodes(table) : Len(node) < depth
  BY Deepest
<1> DEFINE Row(f, node) == [i \in 1..Len(t) + 1 |-> Visit(f, table, t, node, i)]
           T == {m \in Nat : \E f : \A node \in Nodes(table) : depth <= Len(node) + m => f[node] = Row(f, node)}
<1>2. \A node \in Nodes(table) : node \in Seq(Words) /\ Len(node) \in Nat
  BY NodesAre
<1>3. 0 \in T
  BY <1>1, <1>2
<1>4. ASSUME NEW m \in Nat, m \in T PROVE m + 1 \in T
  <2>1. PICK f : \A node \in Nodes(table) : depth <= Len(node) + m => f[node] = Row(f, node)
    BY <1>4
  <2> DEFINE g == [node \in Nodes(table) |-> Row(f, node)]
  <2>2. ASSUME NEW node \in Nodes(table), depth <= Len(node) + (m + 1) PROVE g[node] = Row(g, node)
    <3>1. ASSUME NEW w \in Words, Append(node, w) \in Nodes(table)
          PROVE  f[Append(node, w)] = g[Append(node, w)]
      <4>1. Len(Append(node, w)) = Len(node) + 1 /\ Len(node) \in Nat
        BY <1>2
      <4>2. depth <= Len(Append(node, w)) + m
        BY <2>2, <4>1
      <4> QED BY <2>1, <3>1, <4>2
    <3> HIDE DEF g
    <3>0. Alike(f, g, table, node)
      BY <3>1 DEF Alike
    <3>2. ASSUME NEW i \in 1..Len(t) + 1 PROVE Visit(f, table, t, node, i) = Visit(g, table, t, node, i)
      BY <3>0, SameVisit
    <3>3. g[node] = Row(f, node)
      BY DEF g
    <3> QED BY <3>2, <3>3
  <2> HIDE DEF g, Row
  <2> QED BY <2>2
<1> HIDE DEF T
<1>5. depth \in T
  BY <1>3, <1>4, Climbs
<1>6. PICK f : \A node \in Nodes(table) : depth <= Len(node) + depth => f[node] = Row(f, node)
  BY <1>5 DEF T
<1>7. \A node \in Nodes(table) : f[node] = Row(f, node)
  BY <1>2, <1>6
<1> DEFINE g == [node \in Nodes(table) |-> f[node]]
<1>8. \A node \in Nodes(table), i \in 1..Len(t) + 1 : Visit(f, table, t, node, i) = Visit(g, table, t, node, i)
  <2> SUFFICES ASSUME NEW node \in Nodes(table), NEW i \in 1..Len(t) + 1
               PROVE  Visit(f, table, t, node, i) = Visit(g, table, t, node, i)
    OBVIOUS
  <2>1. Alike(f, g, table, node)
    BY DEF Alike
  <2> HIDE DEF g
  <2> QED BY <2>1, SameVisit
<1>9. g = [node \in Nodes(table) |-> Row(g, node)]
  BY <1>7, <1>8
<1> HIDE DEF g
<1> QED BY <1>9 DEF Visits

LEMMA JoinIs ==
  ASSUME NEW X, NEW a \in Seq(X), NEW b \in Seq(X)
  PROVE  a \o b \in Seq(X) /\ Range(a \o b) = Range(a) \cup Range(b)
<1>1. /\ a \o b \in Seq(X) /\ Len(a \o b) = Len(a) + Len(b) /\ Len(a) \in Nat /\ Len(b) \in Nat
      /\ \A i \in 1..Len(a) : (a \o b)[i] = a[i]
      /\ \A i \in 1..Len(b) : (a \o b)[Len(a) + i] = b[i]
  BY ConcatProperties
<1> DEFINE c == a \o b
           m == Len(a)
           n == Len(b)
<1>2. Range(a) = {a[i] : i \in 1..m} /\ Range(b) = {b[i] : i \in 1..n} /\ Range(c) = {c[i] : i \in 1..(m + n)}
  BY <1>1 DEF Range
<1>3. c \in Seq(X) /\ m \in Nat /\ n \in Nat /\ (\A i \in 1..m : c[i] = a[i]) /\ \A i \in 1..n : c[m + i] = b[i]
  BY <1>1
<1> HIDE DEF c, m, n
<1>4. ASSUME NEW i \in 1..(m + n) PROVE c[i] \in Range(a) \cup Range(b)
  <2>1. CASE i <= m
    BY <1>2, <1>3, <2>1
  <2>2. CASE ~(i <= m)
    <3>1. i - m \in 1..n /\ m + (i - m) = i
      BY <1>3, <2>2
    <3>2. c[m + (i - m)] = b[i - m]
      BY <1>3, <3>1
    <3> QED BY <1>2, <3>1, <3>2
  <2> QED BY <2>1, <2>2
<1>5. \A i \in 1..m : a[i] \in Range(c)
  <2> SUFFICES ASSUME NEW i \in 1..m PROVE a[i] \in Range(c)
    OBVIOUS
  <2>1. i \in 1..(m + n)
    BY <1>3
  <2> QED BY <1>2, <1>3, <2>1
<1>6. \A i \in 1..n : b[i] \in Range(c)
  <2> SUFFICES ASSUME NEW i \in 1..n PROVE b[i] \in Range(c)
    OBVIOUS
  <2>1. m + i \in 1..(m + n)
    BY <1>3
  <2>2. c[m + i] = b[i]
    BY <1>3
  <2> QED BY <1>2, <2>1, <2>2
<1>7. Range(c) = Range(a) \cup Range(b)
  BY <1>2, <1>4, <1>5, <1>6
<1> QED BY <1>3, <1>7 DEF c

\* s lists the handlers reached from node with the words of t from the i-th on.
Lists(s, table, t, node, i) == s \in Seq(Handlers(table)) /\ Range(s) = Reached(table, t, node, i)
ChildrenList(f, table, t, node) ==
  \A w \in Words, j \in 1..Len(t) + 1 : Lists(Child(f, table, node, w, j), table, t, Append(node, w), j)

Onwards(table, t, node, i) == UNION {Reached(table, t, Append(node, "#"), j) : j \in i..Len(t) + 1}

\* '#' having consumed none, one, ... all of the words that are left.
LEMMA HashesList ==
  ASSUME NEW table, NEW t \in Seq(Words), NEW node, NEW i \in 1..Len(t), NEW f,
         ChildrenList(f, table, t, node)
  PROVE  /\ FlattenSeq(Hashes(f, table, t, node, i)) \in Seq(Handlers(table))
         /\ Range(FlattenSeq(Hashes(f, table, t, node, i))) = Onwards(table, t, node, i)
<1> DEFINE X == Handlers(table)
           m == Len(t)
           ss == Hashes(f, table, t, node, i)
           n == m + 2 - i
<1>1. m \in Nat /\ i \in Nat /\ n \in Nat /\ i <= m /\ "#" \in Words
  BY EventAssumption
<1>2. \A k \in 1..n : i + k - 1 \in 1..m + 1 /\ i + k - 1 \in i..m + 1
  BY <1>1
<1>3. \A k \in 1..n : ss[k] = Child(f, table, node, "#", i + k - 1)
  BY DEF Hashes
<1>4. \A k \in 1..n : ss[k] \in Seq(X) /\ Range(ss[k]) = Reached(table, t, Append(node, "#"), i + k - 1)
  BY <1>1, <1>2, <1>3 DEF ChildrenList, Lists
<1>5. ss = [k \in 1..n |-> Child(f, table, node, "#", i + k - 1)]
  BY DEF Hashes
<1> HIDE DEF X, ss
<1>6. ss \in Seq(Seq(X)) /\ Len(ss) = n
  <2>1. ss \in [1..n -> Seq(X)]
    BY <1>4, <1>5
  <2> HIDE DEF n
  <2>2. ss \in Seq(Seq(X))
    BY <1>1, <2>1
  <2> QED BY <1>1, <2>1, <2>2
<1>7. FlattenSeq(ss) \in Seq(X) /\ Range(FlattenSeq(ss)) = UNION {Range(ss[k]) : k \in 1..Len(ss)}
  BY <1>6, FlattenIs
<1>8. \A j \in i..m + 1 : j - i + 1 \in 1..n /\ i + (j - i + 1) - 1 = j
  BY <1>1
<1> HIDE DEF n, m
<1>9. {Range(ss[k]) : k \in 1..n} = {Reached(table, t, Append(node, "#"), j) : j \in i..m + 1}
  <2> DEFINE R(j) == Reached(table, t, Append(node, "#"), j)
  <2>1. \A k \in 1..n : Range(ss[k]) = R(i + k - 1) /\ i + k - 1 \in i..m + 1
    BY <1>2, <1>4
  <2>2. \A j \in i..m + 1 : \E k \in 1..n : Range(ss[k]) = R(j)
    <3> SUFFICES ASSUME NEW j \in i..m + 1 PROVE \E k \in 1..n : Range(ss[k]) = R(j)
      OBVIOUS
    <3>1. j - i + 1 \in 1..n /\ i + (j - i + 1) - 1 = j
      BY <1>8
    <3>2. Range(ss[j - i + 1]) = R(i + (j - i + 1) - 1)
      BY <2>1, <3>1
    <3> HIDE DEF R
    <3> QED BY <3>1, <3>2
  <2> HIDE DEF R
  <2>3. {Range(ss[k]) : k \in 1..n} = {R(j) : j \in i..m + 1}
    BY <2>1, <2>2
  <2> QED BY <2>3 DEF R
<1> QED BY <1>6, <1>7, <1>9 DEF X, ss, m, Onwards

\* What a node collects is what it reaches, if that is so of its children.
LEMMA VisitLists ==
  ASSUME NEW table, IsTable(table), NEW t \in Seq(Words), NEW node \in Seq(Words),
         NEW i \in 1..Len(t) + 1,
         NEW f, ChildrenList(f, table, t, node)
  PROVE  Lists(Visit(f, table, t, node, i), table, t, node, i)
<1> DEFINE X == Handlers(table)
           m == Len(t)
           R(w, j) == Reached(table, t, Append(node, w), j)
           C(w, j) == Child(f, table, node, w, j)
<1>1. m \in Nat /\ i \in Nat /\ 1 <= i /\ i <= m + 1 /\ "#" \in Words /\ "*" \in Words
  BY EventAssumption
<1>2. \A w \in Words, j \in 1..m + 1 : C(w, j) \in Seq(X) /\ Range(C(w, j)) = R(w, j)
  BY DEF ChildrenList, Lists
<1>3. \A h : h \in Reached(table, t, node, i) <=>
           \/ i = m + 1 /\ h \in Ending(table, node)
           \/ \E w \in Words, j \in 1..m + 1 : Piece(w, t, i - 1, j - 1) /\ h \in R(w, j)
  BY ReachedOn
<1>4. \A a, b \in Seq(X) : a \o b \in Seq(X) /\ Range(a \o b) = Range(a) \cup Range(b)
  BY JoinIs
<1>5. \A w, j : j \in 1..m + 1 =>
        (Piece(w, t, i - 1, j - 1) <=> (w = "#" /\ j >= i) \/ (w # "#" /\ j = i + 1 /\ w \in {"*", t[i]}))
  BY <1>1 DEF Piece
<1>6. CASE i = m + 1
  <2>1. Values(table, node) \in Seq(X) /\ Range(Values(table, node)) = Ending(table, node)
    BY ValuesIs
  <2>2. Visit(f, table, t, node, i) = Values(table, node) \o C("#", i)
    BY <1>1, <1>6 DEF Visit
  <2>3. C("#", i) \in Seq(X) /\ Range(C("#", i)) = R("#", i)
    BY <1>1, <1>2
  <2> HIDE DEF R, C, X
  <2>4. /\ Visit(f, table, t, node, i) \in Seq(X)
        /\ Range(Visit(f, table, t, node, i)) = Ending(table, node) \cup R("#", i)
    BY <1>4, <2>1, <2>2, <2>3
  <2>5. \A h : h \in Reached(table, t, node, i) <=> h \in Ending(table, node) \/ h \in R("#", i)
    <3>1. \A w, j : j \in 1..m + 1 => (Piece(w, t, i - 1, j - 1) <=> w = "#" /\ j = i)
      <4> SUFFICES ASSUME NEW w, NEW j \in 1..m + 1 PROVE Piece(w, t, i - 1, j - 1) <=> w = "#" /\ j = i
        OBVIOUS
      <4>1. Piece(w, t, i - 1, j - 1) <=> (w = "#" /\ j >= i) \/ (w # "#" /\ j = i + 1 /\ w \in {"*", t[i]})
        BY <1>5
      <4> HIDE DEF m
      <4>2. j # i + 1 /\ (j >= i <=> j = i)
        BY <1>1, <1>6
      <4> QED BY <4>1, <4>2
    <3>2. i \in 1..m + 1
      OBVIOUS
    <3> SUFFICES ASSUME NEW h PROVE h \in Reached(table, t, node, i) <=> h \in Ending(table, node) \/ h \in R("#", i)
      OBVIOUS
    <3>3. h \in Reached(table, t, node, i) <=>
           \/ i = m + 1 /\ h \in Ending(table, node)
           \/ \E w \in Words, j \in 1..m + 1 : Piece(w, t, i - 1, j - 1) /\ h \in R(w, j)
      BY <1>3
    <3>4. (\E w \in Words, j \in 1..m + 1 : Piece(w, t, i - 1, j - 1) /\ h \in R(w, j)) <=> h \in R("#", i)
      <4>1. ASSUME NEW w \in Words, NEW j \in 1..m + 1, Piece(w, t, i - 1, j - 1), h \in R(w, j) PROVE h \in R("#", i)
        <5>1. w = "#" /\ j = i
          <6>1. j \in 1..m + 1 => (Piece(w, t, i - 1, j - 1) <=> w = "#" /\ j = i)
            BY <3>1
          <6> QED BY <4>1, <6>1
        <5> QED BY <4>1, <5>1
      <4>2. Piece("#", t, i - 1, i - 1)
        BY <3>1, <3>2
      <4> QED BY <1>1, <3>2, <4>1, <4>2
    <3> QED BY <1>6, <3>3, <3>4
  <2>6. Reached(table, t, node, i) = Ending(table, node) \cup R("#", i)
    BY <2>5
  <2> QED BY <2>4, <2>6 DEF Lists, X
<1>7. CASE i <= m
  <2> DEFINE hashes == FlattenSeq(Hashes(f, table, t, node, i))
             exact == Exact(f, table, t, node, i)
             H == Onwards(table, t, node, i)
             E == IF t[i] \in Wildcards THEN {} ELSE R(t[i], i + 1)
  <2>1. i \in 1..Len(t) /\ i + 1 \in 1..m + 1 /\ ~(i > Len(t))
    BY <1>1, <1>7
  <2>2. hashes \in Seq(X) /\ Range(hashes) = H
    BY <2>1, HashesList
  <2>2a. H = UNION {R("#", j) : j \in i..m + 1}
    BY DEF Onwards
  <2>3. exact \in Seq(X) /\ Range(exact) = E
    <3>1. CASE t[i] \in Wildcards
      <4>1. exact = <<>> /\ E = {}
        BY <3>1 DEF Exact
      <4> HIDE DEF exact, E, X
      <4> QED BY <4>1 DEF Range
    <3>2. CASE t[i] \notin Wildcards
      <4>1. exact = C(t[i], i + 1) /\ E = R(t[i], i + 1)
        BY <3>2 DEF Exact
      <4>2. t[i] \in Words
        BY <2>1
      <4> HIDE DEF exact, E, X, C, R
      <4> QED BY <1>2, <2>1, <4>1, <4>2
    <3> QED BY <3>1, <3>2
  <2>4. C("*", i + 1) \in Seq(X) /\ Range(C("*", i + 1)) = R("*", i + 1)
    BY <1>1, <1>2, <2>1
  <2>5. Visit(f, table, t, node, i) = exact \o C("*", i + 1) \o hashes
    BY <2>1 DEF Visit
  <2> DEFINE star == C("*", i + 1)
  <2> HIDE DEF R, C, X, hashes, exact, H, E, star
  <2>6. exact \o star \in Seq(X) /\ Range(exact \o star) = E \cup R("*", i + 1)
    BY <1>4, <2>3, <2>4 DEF star
  <2>7. /\ Visit(f, table, t, node, i) \in Seq(X)
        /\ Range(Visit(f, table, t, node, i)) = E \cup R("*", i + 1) \cup H
    BY <1>4, <2>2, <2>5, <2>6 DEF star
  <2>8. ASSUME NEW h PROVE h \in Reached(table, t, node, i) <=> h \in E \/ h \in R("*", i + 1) \/ h \in H
    <3>1. ASSUME NEW w \in Words, NEW j \in 1..m + 1, Piece(w, t, i - 1, j - 1), h \in R(w, j)
          PROVE  h \in E \/ h \in R("*", i + 1) \/ h \in H
      <4>1. (w = "#" /\ j >= i) \/ (w # "#" /\ j = i + 1 /\ w \in {"*", t[i]})
        BY <1>5, <3>1
      <4>2. CASE w = "#" /\ j >= i
        <5>1. j \in i..m + 1
          BY <1>1, <4>2
        <5> QED BY <2>2a, <3>1, <4>2, <5>1
      <4>3. CASE w # "#" /\ j = i + 1 /\ w = "*"
        BY <3>1, <4>3
      <4>4. CASE w # "#" /\ j = i + 1 /\ w # "*" /\ w = t[i]
        BY <3>1, <4>4 DEF E, Wildcards
      <4> QED BY <4>1, <4>2, <4>3, <4>4
    <3>2. ASSUME h \in E PROVE \E w \in Words, j \in 1..m + 1 : Piece(w, t, i - 1, j - 1) /\ h \in R(w, j)
      <4>1. t[i] \notin Wildcards /\ h \in R(t[i], i + 1)
        BY <3>2 DEF E
      <4>2. t[i] \in Words
        BY <2>1
      <4>3. Piece(t[i], t, i - 1, (i + 1) - 1)
        BY <1>5, <2>1, <4>1 DEF Wildcards
      <4> QED BY <2>1, <4>1, <4>2, <4>3
    <3>3. ASSUME h \in R("*", i + 1)
          PROVE \E w \in Words, j \in 1..m + 1 : Piece(w, t, i - 1, j - 1) /\ h \in R(w, j)
      <4>1. Piece("*", t, i - 1, (i + 1) - 1)
        BY <1>5, <2>1
      <4> QED BY <1>1, <2>1, <3>3, <4>1
    <3>4. ASSUME h \in H PROVE \E w \in Words, j \in 1..m + 1 : Piece(w, t, i - 1, j - 1) /\ h \in R(w, j)
      <4>1. PICK j \in i..m + 1 : h \in R("#", j)
        BY <2>2a, <3>4
      <4>2. j \in 1..m + 1 /\ j >= i
        BY <1>1
      <4>3. Piece("#", t, i - 1, j - 1)
        BY <1>5, <4>2
      <4> QED BY <1>1, <4>1, <4>2, <4>3
    <3>5. i # m + 1
      BY <1>1, <1>7
    <3> QED BY <1>3, <3>1, <3>2, <3>3, <3>4, <3>5
  <2>9. Reached(table, t, node, i) = E \cup R("*", i + 1) \cup H
    BY <2>8
  <2> QED BY <2>7, <2>9 DEF Lists, X
<1> QED BY <1>1, <1>6, <1>7

LEMMA WalkLists ==
  ASSUME NEW table, IsTable(table), NEW t \in Seq(Words), NEW f, Visits(f, table, t)
  PROVE  \A node \in Nodes(table), i \in 1..Len(t) + 1 : Lists(f[node][i], table, t, node, i)
<1>1. PICK depth \in Nat : \A node \in Nodes(table) : Len(node) < depth
  BY Deepest
<1> DEFINE Good(node) == \A i \in 1..Len(t) + 1 : Lists(f[node][i], table, t, node, i)
           T == {m \in Nat : \A node \in Nodes(table) : depth <= Len(node) + m => Good(node)}
<1>2. \A node \in Nodes(table) : node \in Seq(Words) /\ Len(node) \in Nat
  BY NodesAre
<1>3. 0 \in T
  BY <1>1, <1>2
<1>4. ASSUME NEW m \in Nat, m \in T PROVE m + 1 \in T
  <2>1. ASSUME NEW node \in Nodes(table), depth <= Len(node) + (m + 1) PROVE Good(node)
    <3>1. ASSUME NEW w \in Words, NEW j \in 1..Len(t) + 1
          PROVE  Lists(Child(f, table, node, w, j), table, t, Append(node, w), j)
      <4>1. CASE Append(node, w) \in Nodes(table)
        <5>1. Len(Append(node, w)) = Len(node) + 1 /\ Len(node) \in Nat
          BY <1>2
        <5>2. depth <= Len(Append(node, w)) + m
          BY <2>1, <5>1
        <5>3. Good(Append(node, w))
          BY <1>4, <4>1, <5>2
        <5> QED BY <4>1, <5>3 DEF Child
      <4>2. CASE Append(node, w) \notin Nodes(table)
        <5>1. Append(node, w) \in Seq(Words)
          BY <1>2
        <5>2. Through(table, Append(node, w)) = {}
          BY <4>2, <5>1, NodesAre
        <5>3. Reached(table, t, Append(node, w), j) = {}
          BY <5>2 DEF Reached
        <5> DEFINE X == Handlers(table)
        <5> HIDE DEF X
        <5>4. <<>> \in Seq(X) /\ Range(<<>>) = {}
          BY DEF Range
        <5> QED BY <4>2, <5>3, <5>4 DEF Child, Lists, X
      <4> QED BY <4>1, <4>2
    <3>2. ChildrenList(f, table, t, node)
      BY <3>1 DEF ChildrenList
    <3>3. ASSUME NEW i \in 1..Len(t) + 1 PROVE Lists(f[node][i], table, t, node, i)
      <4> DEFINE V(n, k) == Visit(f, table, t, n, k)
      <4>0. f = [n \in Nodes(table) |-> [k \in 1..Len(t) + 1 |-> V(n, k)]]
        BY DEF Visits
      <4> HIDE DEF V
      <4>1a. f[node][i] = V(node, i)
        BY <4>0
      <4>1. f[node][i] = Visit(f, table, t, node, i)
        BY <4>1a DEF V
      <4>2. Lists(Visit(f, table, t, node, i), table, t, node, i)
        BY <1>2, <3>2, VisitLists
      <4> QED BY <4>1, <4>2
    <3> QED BY <3>3
  <2> HIDE DEF Good
  <2> QED BY <2>1
<1> HIDE DEF T
<1>5. depth \in T
  BY <1>3, <1>4, Climbs
<1> QED BY <1>2, <1>5 DEF T

\* The trie answers by RabbitMQ's rule, each handler once.
LEMMA MatchTopicIs ==
  ASSUME NEW table, IsTable(table), NEW t \in Seq(Words)
  PROVE  /\ MatchTopic(table, t) \in Seq(Handlers(table))
         /\ Range(MatchTopic(table, t)) = Wanted(Range(table), t)
         /\ Len(MatchTopic(table, t)) = Cardinality(Range(MatchTopic(table, t)))
<1>1. CASE table = <<>>
  <2> DEFINE X == Handlers(table)
  <2>1. MatchTopic(table, t) = <<>> /\ Range(table) = {}
    BY <1>1, NoRoutes DEF Range
  <2>2. Wanted(Range(table), t) = {}
    BY <2>1 DEF Wanted
  <2> HIDE DEF X
  <2>3. <<>> \in Seq(X) /\ Range(<<>>) = {} /\ Len(<<>>) = 0 /\ Cardinality({}) = 0
    BY FS_EmptySet DEF Range
  <2> QED BY <2>1, <2>2, <2>3 DEF X
<1>2. CASE table # <<>>
  <2> DEFINE f == CHOOSE f : Visits(f, table, t)
             s == f[<<>>][1]
             X == Handlers(table)
  <2>1. MatchTopic(table, t) = Distinct(s)
    BY <1>2, MatchVisits
  <2>2. Visits(f, table, t)
    BY VisitsDefined
  <2> HIDE DEF f
  <2>3. 1 \in 1..Len(t) + 1 /\ <<>> \in Nodes(table)
    <3>1. Len(t) \in Nat
      OBVIOUS
    <3> QED BY <1>2, <3>1, NodesAre
  <2>4. s \in Seq(X) /\ Range(s) = Reached(table, t, <<>>, 1)
    BY <2>2, <2>3, WalkLists DEF Lists
  <2> HIDE DEF s, X
  <2>5. Distinct(s) \in Seq(X) /\ Range(Distinct(s)) = Range(s) /\ Len(Distinct(s)) = Cardinality(Range(Distinct(s)))
    BY <2>4, DistinctIs
  <2>6. Reached(table, t, <<>>, 1) = Wanted(Range(table), t)
    <3>1. ASSUME NEW route \in Range(table)
          PROVE  LeadsTo(<<>>, route.pattern) /\ (Matches(route.pattern, t) <=> Rest(route.pattern, Len(<<>>), t, 1))
      <4> DEFINE p == route.pattern
      <4>1. p \in Seq(Words) /\ Len(<<>>) = 0
        BY DEF IsTable
      <4> HIDE DEF p
      <4>2. LeadsTo(<<>>, p)
        <5>1. SubSeq(p, 1, 0) = <<>> /\ Len(p) \in Nat
          BY <4>1, SubSeqEmpty
        <5> QED BY <4>1, <5>1 DEF LeadsTo
      <4>3. Matches(p, t) <=> Rest(p, 0, t, 1)
        BY <4>1, RestStarts
      <4> QED BY <4>1, <4>2, <4>3 DEF p
    <3> QED BY <3>1 DEF Reached, Wanted, Through
  <2> QED BY <2>1, <2>4, <2>5, <2>6 DEF X
<1> QED BY <1>1, <1>2

LEMMA TrieAlwaysExact == TrieIsExact
  BY EventAssumption, MatchTopicIs DEF TrieIsExact, IsTable

(***************************************************************************)
(* Events: from the exchange to the handlers.                               *)
(***************************************************************************)

\* What a queue still has to do with, and what explains that a copy was not handled.
Pending(s) == queue[s] \cup parked[s] \cup Held(s)
Excused(s) == dead[s] \cup dropped[s] \cup missed[s]
Ready(s, c) == \A h \in Meant(InForce(s), c.event) : HandledBy(h, s, c)
Settled(s, c) == Ended(Excused(s), c) \/ Ready(s, c)

\* A delivery at work runs handlers that match, and has left no other out, unless its
\* replica had not subscribed yet.
Runs(r) ==
  LET s == ServiceOf[r]
      c == work[r].copy
  IN  /\ work[r].todo \in Seq(Range(work[r].todo))
      /\ Range(work[r].todo) \subseteq Meant(Range(Subscriptions[s]), c.event)

LeavesNoneOut(r) ==
  LET s == ServiceOf[r]
      c == work[r].copy
  IN  /\ router[r] = Subscriptions[s]
      /\ work[r].known =>
           \A h \in Meant(InForce(s), c.event) :
             \/ HandledBy(h, s, c) \/ h \in Range(work[r].todo)
             \/ ~work[r].matched /\ h \in Meant(Range(Table(r)), c.event)

WorkFits(r) ==
  work[r] # NoWork => Runs(r) /\ (work[r].copy \in missed[ServiceOf[r]] \/ LeavesNoneOut(r))

Confirmed == \A e \in Events : stage[e] = "done" => \E c \in accepted : c.event = e

RouteInv ==
  /\ event \in [Events -> Published]
  /\ CallsAreRouted /\ Confirmed
  /\ \A r \in Replicas : WorkFits(r)
  /\ \A s \in Subscribers : \A c \in routed[s] : Ended(Pending(s), c) \/ Settled(s, c)

--------------------------------------------------------------------------------
(* What a replica's router has, and where an event goes. *)

LEMMA OwnRange ==
  ASSUME NEW X, NEW s \in Seq(X)
  PROVE  /\ s \in Seq(Range(s)) /\ Range(s) \subseteq X /\ Len(s) \in Nat
         /\ Range(s) = {s[i] : i \in 1..Len(s)}
<1>1. Len(s) \in Nat /\ DOMAIN s = 1..Len(s) /\ s = [i \in 1..Len(s) |-> s[i]] /\ \A i \in 1..Len(s) : s[i] \in X
  OBVIOUS
<1> DEFINE n == Len(s)
           R == Range(s)
<1>2. R = {s[i] : i \in 1..n}
  BY <1>1 DEF Range
<1>3. \A i \in 1..n : s[i] \in R
  BY <1>2
<1> HIDE DEF n, R
<1>4. s \in Seq(R)
  BY <1>1, <1>3 DEF n
<1> QED BY <1>1, <1>2, <1>4 DEF n, R

LEMMA RouterIs ==
  ASSUME EventInv, NEW r \in Replicas
  PROVE  /\ ServiceOf[r] \in Subscribers
         /\ router[r] \in Seq(Range(Subscriptions[ServiceOf[r]]))
         /\ Range(router[r]) \subseteq Range(Subscriptions[ServiceOf[r]])
         /\ \A sub \in Range(router[r]) :
              sub.pattern \in Seq(Words) /\ sub.all \in BOOLEAN /\ (sub.all => sub.pattern = <<"#">>)
<1> DEFINE subs == Subscriptions[ServiceOf[r]]
           S == Range(subs)
<1>1. ServiceOf[r] \in Subscribers /\ subs \in Seq(S)
  BY EventAssumption
<1>2. \A sub \in S : sub.pattern \in Seq(Words) /\ sub.all \in BOOLEAN /\ (sub.all => sub.pattern = <<"#">>)
  BY EventAssumption
<1>3. PICK n \in 0..Len(subs) : router[r] = SubSeq(subs, 1, n)
  BY DEF EventInv, EventTyped
<1> HIDE DEF subs, S
<1>4. router[r] \in Seq(S)
  <2>1. \A i \in 1..n : subs[i] \in S
    BY <1>1, <1>3
  <2> QED BY <1>3, <2>1, SubSeqProperties
<1>5. Range(router[r]) \subseteq S
  BY <1>4, OwnRange
<1> QED BY <1>1, <1>2, <1>4, <1>5 DEF subs, S

LEMMA TableIs ==
  ASSUME EventInv, NEW r \in Replicas
  PROVE  /\ IsTable(Table(r))
         /\ Range(Table(r)) = {sub \in Range(router[r]) : ~sub.all}
<1> DEFINE X == Range(router[r])
           S == {sub \in X : ~sub.all}
<1>1. router[r] \in Seq(X)
  BY RouterIs, OwnRange
<1>2. S \in SUBSET X
  OBVIOUS
<1>3. \A sub \in X : sub.pattern \in Seq(Words)
  BY RouterIs
<1>4. Table(r) = Only(router[r], S)
  BY DEF Table
<1> HIDE DEF S
<1>5. Table(r) \in Seq(X) /\ Range(Table(r)) = X \cap S
  <2>1. Only(router[r], S) \in Seq(X) /\ Range(Only(router[r], S)) = Range(router[r]) \cap S
    BY <1>1, <1>2, OnlyIs
  <2> QED BY <1>4, <2>1
<1> HIDE DEF X
<1>6. Table(r) \in Seq(Range(Table(r)))
  BY <1>5, OwnRange
<1> QED BY <1>2, <1>3, <1>5, <1>6 DEF IsTable, S, X

\* What an event is meant for, by its topic.
LEMMA MeantIs ==
  ASSUME NEW subs, NEW e, \A sub \in subs : ~sub.all
  PROVE  Meant(subs, e) = IF RoutedOn(e) = <<>> THEN {} ELSE Wanted(subs, RoutedOn(e))
  BY DEF Meant, Addressed, Wanted, RoutedOn

\* The handlers of the event, each once.
LEMMA RouteIs ==
  ASSUME EventInv, NEW r \in Replicas, NEW e, event[e] \in Published
  PROVE  /\ Route(r, e) \in Seq(Range(Route(r, e)))
         /\ Range(Route(r, e)) = Meant(Range(Table(r)), e)
         /\ Range(Route(r, e)) \subseteq Meant(Range(Subscriptions[ServiceOf[r]]), e)
<1> DEFINE topic == RoutedOn(e)
           table == Table(r)
<1>1. topic \in Seq(Words)
  BY EventAssumption DEF RoutedOn
<1>2. IsTable(table) /\ Range(table) \subseteq Range(Subscriptions[ServiceOf[r]])
      /\ \A sub \in Range(table) : ~sub.all
  BY TableIs, RouterIs
<1>3. Route(r, e) = IF topic = <<>> THEN <<>> ELSE MatchTopic(table, topic)
  BY DEF Route
<1>4. Meant(Range(table), e) = IF topic = <<>> THEN {} ELSE Wanted(Range(table), topic)
  BY <1>2, MeantIs
<1>5. Meant(Range(table), e) \subseteq Meant(Range(Subscriptions[ServiceOf[r]]), e)
  BY <1>2 DEF Meant
<1> HIDE DEF topic, table
<1>6. Route(r, e) \in Seq(Handlers(table)) /\ Range(Route(r, e)) = Meant(Range(table), e)
  <2>1. CASE topic = <<>>
    BY <1>3, <1>4, <2>1 DEF Range
  <2>2. CASE topic # <<>>
    BY <1>1, <1>2, <1>3, <1>4, <2>2, MatchTopicIs
  <2> QED BY <2>1, <2>2
<1>7. Route(r, e) \in Seq(Range(Route(r, e)))
  <2> DEFINE X == Handlers(table)
  <2> HIDE DEF X
  <2>1. Route(r, e) \in Seq(X)
    BY <1>6 DEF X
  <2> QED BY <2>1, OwnRange
<1> QED BY <1>5, <1>6, <1>7 DEF topic, table

\* The handler of all events is of a subscription to all of them, the last one.
LEMMA AllIs ==
  ASSUME EventInv, NEW r \in Replicas, NEW e, event[e] \in Published
  PROVE  /\ AllHandler(r) = <<>> => \A sub \in Range(router[r]) : ~sub.all
         /\ AllHandler(r) # <<>> =>
              /\ AllHandler(r) = <<Last(Only(router[r], {sub \in Range(router[r]) : sub.all})).handler>>
              /\ \E sub \in Range(router[r]) : sub.all /\ AllHandler(r) = <<sub.handler>>
              /\ Range(AllHandler(r)) \subseteq Meant(Range(Subscriptions[ServiceOf[r]]), e)
<1> DEFINE X == Range(router[r])
           S == {sub \in X : sub.all}
           all == Only(router[r], S)
<1>1. router[r] \in Seq(X)
  BY RouterIs, OwnRange
<1>2. S \in SUBSET X
  OBVIOUS
<1> HIDE DEF S
<1>3. all \in Seq(X) /\ Range(all) = X \cap S
  <2> HIDE DEF X
  <2>1. Only(router[r], S) \in Seq(X) /\ Range(Only(router[r], S)) = Range(router[r]) \cap S
    BY <1>1, <1>2, OnlyIs
  <2> QED BY <2>1 DEF X
<1>4. AllHandler(r) = IF all = <<>> THEN <<>> ELSE <<Last(all).handler>>
  BY DEF AllHandler, S
<1> HIDE DEF all
<1>5. all = <<>> => \A sub \in X : ~sub.all
  <2>1. Range(<<>>) = {}
    BY DEF Range
  <2> QED BY <1>3, <2>1 DEF S
<1>6. all # <<>> => \E sub \in X : sub.all /\ Last(all) = sub
  <2> SUFFICES ASSUME all # <<>> PROVE \E sub \in X : sub.all /\ Last(all) = sub
    OBVIOUS
  <2>1. Len(all) \in 1..Len(all) /\ Last(all) = all[Len(all)]
    BY <1>3, EmptySeq DEF Last
  <2>2. Last(all) \in Range(all)
    BY <1>3, <2>1, OwnRange
  <2> QED BY <1>3, <2>2 DEF S
<1>7. AllHandler(r) # <<>> => all # <<>>
  BY <1>4
<1>8. AllHandler(r) = <<>> => all = <<>>
  BY <1>4
<1>9. ASSUME NEW sub \in X, sub.all, AllHandler(r) = <<sub.handler>>
      PROVE  Range(AllHandler(r)) \subseteq Meant(Range(Subscriptions[ServiceOf[r]]), e)
  <2>1. sub \in Range(Subscriptions[ServiceOf[r]]) /\ Addressed(sub, e)
    BY <1>9, RouterIs DEF Addressed
  <2>2. Range(AllHandler(r)) = {sub.handler}
    BY <1>9 DEF Range
  <2> QED BY <2>1, <2>2 DEF Meant
<1> QED BY <1>4, <1>5, <1>6, <1>7, <1>8, <1>9 DEF all, S

\* A replica that has subscribed runs all that is in force.
LEMMA RunsInForce ==
  ASSUME EventInv, NEW r \in Replicas, NEW e, event[e] \in Published,
         router[r] = Subscriptions[ServiceOf[r]],
         NEW h \in Meant(InForce(ServiceOf[r]), e)
  PROVE  h \in Range(AllHandler(r)) \/ h \in Range(Route(r, e))
<1> DEFINE s == ServiceOf[r]
<1>1. PICK sub \in InForce(s) : sub.handler = h /\ Addressed(sub, e)
  BY DEF Meant
<1>2. sub \in Range(router[r]) /\ sub.all \in BOOLEAN
  BY RouterIs DEF InForce
<1>3. CASE ~sub.all
  <2>1. sub \in Range(Table(r))
    BY <1>2, <1>3, TableIs
  <2> QED BY <1>1, <2>1, RouteIs DEF Meant
<1>4. CASE sub.all
  <2>1. AllHandler(r) # <<>>
    BY <1>2, <1>4, AllIs
  <2>2. h = Last(Only(router[r], {x \in Range(router[r]) : x.all})).handler
    BY <1>1, <1>4 DEF InForce
  <2>3. AllHandler(r) = <<h>>
    BY <2>1, <2>2, AllIs
  <2>4. Range(<<h>>) = {h}
    BY DEF Range
  <2> QED BY <2>3, <2>4
<1> QED BY <1>2, <1>3, <1>4

--------------------------------------------------------------------------------
(* Each step of EventRouting preserves it. *)

\* What has been called, and what is over, stays.
Grows ==
  /\ event' = event /\ calls \subseteq calls'
  /\ \A s \in Subscribers : Excused(s) \subseteq Excused(s)' /\ missed[s] \subseteq missed'[s]

LEMMA HandledStays ==
  ASSUME Grows, NEW h, NEW s, NEW c, HandledBy(h, s, c)
  PROVE  HandledBy(h, s, c)'
  BY DEF Grows, HandledBy

LEMMA SettledStays ==
  ASSUME Grows, NEW s \in Subscribers, NEW c, Settled(s, c)
  PROVE  Settled(s, c)'
<1>1. Ended(Excused(s), c) => Ended(Excused(s), c)'
  BY DEF Grows, Ended
<1>2. Ready(s, c) => Ready(s, c)'
  <2>1. Meant(InForce(s), c.event)' = Meant(InForce(s), c.event)
    BY DEF Grows, InForce, Meant, Addressed
  <2>2. ASSUME Ready(s, c), NEW h \in Meant(InForce(s), c.event) PROVE HandledBy(h, s, c)'
    BY <2>2, HandledStays DEF Ready
  <2> QED BY <2>1, <2>2 DEF Ready
<1> QED BY <1>1, <1>2 DEF Settled

\* Whatever is pending goes on being so, or is settled.
LEMMA CopiesKept ==
  ASSUME RouteInv, Grows, NEW s \in Subscribers, NEW c \in routed[s],
         \A d \in Pending(s) : Ended(Pending(s)', d) \/ Settled(s, d)'
  PROVE  Ended(Pending(s)', c) \/ Settled(s, c)'
<1>1. CASE Settled(s, c)
  BY <1>1, SettledStays
<1>2. CASE Ended(Pending(s), c)
  <2>1. PICK d \in Pending(s) : d.event = c.event /\ d.n = c.n
    BY <1>2 DEF Ended
  <2>2. Ended(Pending(s)', d) => Ended(Pending(s)', c)
    BY <2>1 DEF Ended
  <2>3. Settled(s, d)' => Settled(s, c)'
    BY <2>1 DEF Settled, Ended, Ready, HandledBy
  <2> QED BY <2>1, <2>2, <2>3
<1> QED BY <1>1, <1>2 DEF RouteInv

LEMMA RunsStays ==
  ASSUME Grows, NEW r, work'[r] = work[r], Runs(r)
  PROVE  Runs(r)'
  BY DEF Grows, Runs, Meant, Addressed

LEMMA LeavesStays ==
  ASSUME Grows, NEW r, work'[r] = work[r], router'[r] = router[r], LeavesNoneOut(r)
  PROVE  LeavesNoneOut(r)'
<1>0. PICK c : c = work[r].copy
  OBVIOUS
<1> DEFINE s == ServiceOf[r]
           W == Meant(InForce(s), c.event)
           V == Meant(Range(Table(r)), c.event)
<1>1. router[r] = Subscriptions[s] /\ router'[r] = Subscriptions[s]
  BY DEF LeavesNoneOut
<1>2. work[r].known => \A h \in W : HandledBy(h, s, c) \/ h \in Range(work[r].todo) \/ (~work[r].matched /\ h \in V)
  BY <1>0 DEF LeavesNoneOut
<1>3. Table(r)' = Table(r) /\ event' = event
  BY DEF Table, Grows
<1>4. LeavesNoneOut(r)' <=>
        /\ router'[r] = Subscriptions[s]
        /\ work[r].known =>
             \A h \in W : HandledBy(h, s, c)' \/ h \in Range(work[r].todo) \/ (~work[r].matched /\ h \in V)
  BY <1>0, <1>3 DEF LeavesNoneOut, InForce, HandledBy, Meant, Addressed
<1> HIDE DEF W, V, s
<1>5. ASSUME NEW h, HandledBy(h, s, c) PROVE HandledBy(h, s, c)'
  BY <1>5 DEF Grows, HandledBy
<1> QED BY <1>1, <1>2, <1>4, <1>5

\* The deliveries of other replicas.
LEMMA WorkKept ==
  ASSUME Grows, NEW r \in Replicas, work'[r] = work[r], router'[r] = router[r],
         WorkFits(r)
  PROVE  WorkFits(r)'
<1>1. ServiceOf[r] \in Subscribers
  BY EventAssumption
<1>2. work[r].copy \in missed[ServiceOf[r]] => work'[r].copy \in missed'[ServiceOf[r]]
  BY <1>1 DEF Grows
<1> QED BY <1>2, RunsStays, LeavesStays DEF WorkFits

\* A step that calls no handler and lets none go.
LEMMA NothingRuns ==
  ASSUME RouteInv, UNCHANGED <<event, work, router, calls, dead, dropped, missed>>,
         Confirmed', \A s \in Subscribers : queue'[s] \cup parked'[s] = queue[s] \cup parked[s] /\ routed'[s] = routed[s]
  PROVE  RouteInv'
<1>1. Grows
  BY DEF Grows, Excused
<1>2. \A r \in Replicas : WorkFits(r)'
  BY <1>1, WorkKept DEF RouteInv
<1>3. \A s \in Subscribers : Pending(s)' = Pending(s)
  BY DEF Pending, Held
<1>4. ASSUME NEW s \in Subscribers, NEW c \in routed'[s] PROVE Ended(Pending(s)', c) \/ Settled(s, c)'
  <2>1. \A d \in Pending(s) : Ended(Pending(s)', d)
    BY <1>3 DEF Ended
  <2> QED BY <1>1, <2>1, CopiesKept
<1>5. CallsAreRouted' /\ event' \in [Events -> Published]
  BY DEF RouteInv, CallsAreRouted, Meant, Addressed
<1> QED BY <1>2, <1>4, <1>5 DEF RouteInv

LEMMA PublishRoutes ==
  ASSUME EventInv, RouteInv, NEW e \in Events, Publish(e)
  PROVE  RouteInv'
<1>1. PICK next \in {"first", "raised"} : stage' = [stage EXCEPT ![e] = next]
  BY DEF Publish
<1>2. Confirmed'
  BY <1>1 DEF Publish, Confirmed, RouteInv, EventInv, EventTyped
<1> QED BY <1>2, NothingRuns DEF Publish

LEMMA StartRoutes ==
  ASSUME EventInv, RouteInv, NEW r \in Replicas, Start(r)
  PROVE  RouteInv'
<1>1. Confirmed'
  BY DEF Start, Confirmed, RouteInv
<1> QED BY <1>1, NothingRuns DEF Start

LEMMA RedeliverRoutes ==
  ASSUME EventInv, RouteInv, NEW s \in Subscribers, Redeliver(s)
  PROVE  RouteInv'
<1>1. PICK c \in parked[s] : /\ parked' = [parked EXCEPT ![s] = @ \ {c}]
                             /\ queue' = [queue EXCEPT ![s] = @ \cup {c}]
  BY DEF Redeliver
<1>2. \A t \in Subscribers : queue'[t] \cup parked'[t] = queue[t] \cup parked[t]
  BY <1>1 DEF EventInv, EventTyped, Queues
<1>3. Confirmed'
  BY DEF Redeliver, Confirmed, RouteInv
<1> QED BY <1>2, <1>3, NothingRuns DEF Redeliver

LEMMA AttemptRoutes ==
  ASSUME EventInv, RouteInv, NEW e \in Events, Attempt(e)
  PROVE  RouteInv'
<1> DEFINE copy == [event |-> e, n |-> IF stage[e] = "first" THEN 1 ELSE 2, retry |-> 0]
<1>1. PICK taken \in BOOLEAN :
        /\ Outcome(e, taken)
        /\ queue' = [s \in Subscribers |-> IF taken /\ Receives(s, e) THEN queue[s] \cup {copy} ELSE queue[s]]
        /\ routed' = [s \in Subscribers |-> IF taken /\ Receives(s, e) THEN routed[s] \cup {copy} ELSE routed[s]]
        /\ accepted' = IF taken THEN accepted \cup {copy} ELSE accepted
        /\ UNCHANGED <<event, parked, dead, router, work, dropped, missed, calls>>
  BY DEF Attempt
<1>1a. copy.event = e
  OBVIOUS
<1> HIDE DEF copy
<1>2. Grows
  BY <1>1 DEF Grows, Excused
<1>3. \A r \in Replicas : WorkFits(r)'
  BY <1>1, <1>2, WorkKept DEF RouteInv
<1>4. \A s \in Subscribers : Pending(s) \subseteq Pending(s)'
  BY <1>1 DEF Pending, Held
<1>5. ASSUME NEW s \in Subscribers, NEW c \in routed'[s] PROVE Ended(Pending(s)', c) \/ Settled(s, c)'
  <2>1. CASE c \in routed[s]
    <3>1. \A d \in Pending(s) : Ended(Pending(s)', d)
      BY <1>4 DEF Ended
    <3> QED BY <1>2, <2>1, <3>1, CopiesKept
  <2>2. CASE c \notin routed[s]
    <3>1. c = copy /\ c \in queue'[s]
      BY <1>1, <2>2
    <3> QED BY <3>1 DEF Pending, Ended
  <2> QED BY <2>1, <2>2
<1>6. Confirmed'
  <2> SUFFICES ASSUME NEW x \in Events, stage'[x] = "done" PROVE \E c \in accepted' : c.event = x
    BY DEF Confirmed
  <2>1. CASE x = e
    <3>1. taken
      BY <1>1, <2>1 DEF Outcome, EventInv, EventTyped
    <3> QED BY <1>1, <1>1a, <2>1, <3>1
  <2>2. CASE x # e
    <3>1. stage[x] = "done"
      BY <1>1, <2>2 DEF Outcome, EventInv, EventTyped
    <3> QED BY <1>1, <3>1 DEF RouteInv, Confirmed
  <2> QED BY <2>1, <2>2
<1>7. CallsAreRouted' /\ event' \in [Events -> Published]
  BY <1>1 DEF RouteInv, CallsAreRouted, Meant, Addressed
<1> QED BY <1>3, <1>5, <1>6, <1>7 DEF RouteInv

LEMMA SubscribeRoutes ==
  ASSUME EventInv, RouteInv, NEW r \in Replicas, Subscribe(r)
  PROVE  RouteInv'
<1>1. Grows
  BY DEF Subscribe, Grows, Excused
<1>2. ASSUME NEW x \in Replicas PROVE WorkFits(x)'
  <2>1. CASE x # r
    <3>1. router'[x] = router[x] /\ work'[x] = work[x]
      BY <2>1 DEF Subscribe, EventInv, EventTyped
    <3> QED BY <1>1, <3>1, WorkKept DEF RouteInv
  <2>2. CASE x = r
    <3>1. router[r] # Subscriptions[ServiceOf[r]] /\ work' = work
      <4>1. router[r] \in Seq(Range(Subscriptions[ServiceOf[r]]))
        BY RouterIs
      <4>2. Len(router[r]) < Len(Subscriptions[ServiceOf[r]])
        BY DEF Subscribe
      <4>3. Len(router[r]) \in Nat
        BY <4>1
      <4> QED BY <4>2, <4>3 DEF Subscribe
    <3>2. work[r] # NoWork => Runs(r) /\ work[r].copy \in missed[ServiceOf[r]]
      BY <3>1 DEF RouteInv, WorkFits, LeavesNoneOut
    <3>3. ServiceOf[r] \in Subscribers
      BY EventAssumption
    <3> QED BY <1>1, <2>2, <3>1, <3>2, <3>3, RunsStays DEF WorkFits, Grows
  <2> QED BY <2>1, <2>2
<1>3. \A s \in Subscribers : Pending(s)' = Pending(s)
  BY DEF Subscribe, Pending, Held
<1>4. ASSUME NEW s \in Subscribers, NEW c \in routed'[s] PROVE Ended(Pending(s)', c) \/ Settled(s, c)'
  <2>1. \A d \in Pending(s) : Ended(Pending(s)', d)
    BY <1>3 DEF Ended
  <2>2. c \in routed[s]
    BY DEF Subscribe
  <2> QED BY <1>1, <2>1, <2>2, CopiesKept
<1>5. CallsAreRouted' /\ event' \in [Events -> Published] /\ Confirmed'
  BY DEF Subscribe, RouteInv, CallsAreRouted, Meant, Addressed, Confirmed
<1> QED BY <1>2, <1>4, <1>5 DEF RouteInv

\* What a step has to show.
LEMMA AllKept ==
  ASSUME RouteInv, Grows, Confirmed', CallsAreRouted', \A r \in Replicas : WorkFits(r)',
         \A s \in Subscribers : /\ routed'[s] = routed[s]
                                /\ \A d \in Pending(s) : Ended(Pending(s)', d) \/ Settled(s, d)'
  PROVE  RouteInv'
<1>1. ASSUME NEW s \in Subscribers, NEW c \in routed'[s] PROVE Ended(Pending(s)', c) \/ Settled(s, c)'
  BY CopiesKept
<1>2. event' \in [Events -> Published]
  BY DEF RouteInv, Grows
<1> QED BY <1>1, <1>2 DEF RouteInv

LEMMA FitsIf ==
  ASSUME event' = event, router' = router, NEW r, NEW w, work'[r] = w, NEW c, c = w.copy,
         w.todo \in Seq(Range(w.todo)),
         Range(w.todo) \subseteq Meant(Range(Subscriptions[ServiceOf[r]]), c.event),
         \/ c \in missed'[ServiceOf[r]]
         \/ /\ router[r] = Subscriptions[ServiceOf[r]]
            /\ w.known =>
                 \A h \in Meant(InForce(ServiceOf[r]), c.event) :
                   \/ HandledBy(h, ServiceOf[r], c)' \/ h \in Range(w.todo)
                   \/ ~w.matched /\ h \in Meant(Range(Table(r)), c.event)
  PROVE  WorkFits(r)'
<1> DEFINE s == ServiceOf[r]
           V == Meant(Range(Table(r)), c.event)
           W == Meant(InForce(s), c.event)
<1>1. Table(r)' = Table(r)
  BY DEF Table
<1>2. Runs(r)'
  BY DEF Runs, Meant, Addressed
<1>3. LeavesNoneOut(r)' <=>
        /\ router[r] = Subscriptions[s]
        /\ w.known => \A h \in W : HandledBy(h, s, c)' \/ h \in Range(w.todo) \/ (~w.matched /\ h \in V)
  BY <1>1 DEF LeavesNoneOut, InForce, HandledBy, Meant, Addressed
<1> QED BY <1>2, <1>3 DEF WorkFits

\* The deliveries that are not this one go on.
LEMMA HeldStays ==
  ASSUME EventInv, NEW r \in Replicas, NEW w, work' = [work EXCEPT ![r] = w], NEW s,
         NEW d \in Held(s)
  PROVE  d \in Held(s)' \/ (s = ServiceOf[r] /\ work[r] # NoWork /\ d = work[r].copy)
<1>1. PICK x \in Replicas : ServiceOf[x] = s /\ work[x] # NoWork /\ d = work[x].copy
  BY DEF Held
<1>2. CASE x = r
  BY <1>1, <1>2
<1>3. CASE x # r
  <2>1. work'[x] = work[x]
    BY <1>3 DEF EventInv, EventTyped
  <2> QED BY <1>1, <2>1 DEF Held
<1> QED BY <1>2, <1>3

LEMMA Works ==
  ASSUME EventInv, RouteInv, NEW r \in Replicas, work[r] # NoWork, NEW c, c = work[r].copy
  PROVE  /\ c \in Copies /\ event[c.event] \in Published /\ IsWork(work[r])
         /\ ServiceOf[r] \in Subscribers /\ Runs(r)
         /\ c \in missed[ServiceOf[r]] \/ LeavesNoneOut(r)
<1>1. c \in Copies /\ IsWork(work[r])
  BY DEF EventInv, EventTyped
<1>2. event[c.event] \in Published
  BY <1>1 DEF RouteInv, Copies
<1>3. ServiceOf[r] \in Subscribers
  BY EventAssumption
<1> QED BY <1>1, <1>2, <1>3 DEF RouteInv, WorkFits

LEMMA DeliverRoutes ==
  ASSUME EventInv, RouteInv, NEW r \in Replicas, Deliver(r)
  PROVE  RouteInv'
<1> DEFINE s == ServiceOf[r]
<1>1. PICK c \in queue[s] :
        /\ work[r] = NoWork
        /\ queue' = [queue EXCEPT ![s] = @ \ {c}]
        /\ work' = [work EXCEPT ![r] =
             [copy |-> c, known |-> Known(FactoryOf[r], event[c.event].type),
              todo |-> IF AllHandler(r) = <<>> THEN Route(r, c.event) ELSE AllHandler(r),
              matched |-> AllHandler(r) = <<>>]]
        /\ missed' = IF router[r] = Subscriptions[s] THEN missed ELSE [missed EXCEPT ![s] = @ \cup {c}]
        /\ UNCHANGED <<event, stage, parked, dead, router, up, routed, failed, dropped, calls, accepted>>
  BY DEF Deliver
<1>2. PICK w : w = [copy |-> c, known |-> Known(FactoryOf[r], event[c.event].type),
                 todo |-> IF AllHandler(r) = <<>> THEN Route(r, c.event) ELSE AllHandler(r),
                 matched |-> AllHandler(r) = <<>>]
  OBVIOUS
<1>3. s \in Subscribers /\ c \in Copies /\ event[c.event] \in Published
  <2>1. s \in Subscribers /\ c \in Copies
    BY <1>1, EventAssumption DEF EventInv, EventTyped, Queues
  <2> QED BY <2>1 DEF RouteInv, Copies
<1>4. /\ work' = [work EXCEPT ![r] = w] /\ w.copy = c
      /\ w.todo = IF AllHandler(r) = <<>> THEN Route(r, c.event) ELSE AllHandler(r)
      /\ w.matched = (AllHandler(r) = <<>>)
  BY <1>1, <1>2
<1>5. work'[r] = w /\ \A x \in Replicas \ {r} : work'[x] = work[x]
  BY <1>4 DEF EventInv, EventTyped
<1>6. /\ \A t \in Subscribers : missed[t] \subseteq missed'[t]
      /\ router[r] # Subscriptions[s] => c \in missed'[s]
  BY <1>1, <1>3 DEF EventInv, EventTyped, Queues
<1>7. Grows
  BY <1>1, <1>6 DEF Grows, Excused
<1> HIDE DEF s
<1>8. WorkFits(r)'
  <2> DEFINE todo == w.todo
  <2>1. todo \in Seq(Range(todo)) /\ Range(todo) \subseteq Meant(Range(Subscriptions[s]), c.event)
    <3>1. CASE AllHandler(r) = <<>>
      <4>1. todo = Route(r, c.event)
        BY <1>4, <3>1
      <4> HIDE DEF todo
      <4> QED BY <1>3, <4>1, RouteIs DEF s
    <3>2. CASE AllHandler(r) # <<>>
      <4>1. todo = AllHandler(r)
        BY <1>4, <3>2
      <4>2. \E sub \in Range(router[r]) : AllHandler(r) = <<sub.handler>>
        BY <1>3, <3>2, AllIs
      <4>3. PICK h : AllHandler(r) = <<h>>
        BY <4>2
      <4>4. <<h>> \in Seq({h}) /\ Range(<<h>>) = {h}
        BY DEF Range
      <4>5. Range(AllHandler(r)) \subseteq Meant(Range(Subscriptions[s]), c.event)
        BY <1>3, <3>2, AllIs DEF s
      <4> HIDE DEF todo
      <4> QED BY <4>1, <4>3, <4>4, <4>5
    <3> QED BY <3>1, <3>2
  <2>2. ASSUME router[r] = Subscriptions[s], NEW h \in Meant(InForce(s), c.event)
        PROVE  h \in Range(todo) \/ (~w.matched /\ h \in Meant(Range(Table(r)), c.event))
    <3>1. h \in Range(AllHandler(r)) \/ h \in Range(Route(r, c.event))
      BY <1>3, <2>2, RunsInForce DEF s
    <3>2. Range(Route(r, c.event)) = Meant(Range(Table(r)), c.event)
      BY <1>3, RouteIs
    <3>3. CASE AllHandler(r) = <<>>
      <4>1. todo = Route(r, c.event) /\ h \notin Range(AllHandler(r))
        BY <1>4, <3>3 DEF Range
      <4> QED BY <3>1, <4>1
    <3>4. CASE AllHandler(r) # <<>>
      <4>1. todo = AllHandler(r) /\ ~w.matched
        BY <1>4, <3>4
      <4> HIDE DEF todo
      <4> QED BY <3>1, <3>2, <4>1
    <3> QED BY <3>3, <3>4
  <2>3. event' = event /\ router' = router
    BY <1>1
  <2> QED BY <1>4, <1>5, <1>6, <2>1, <2>2, <2>3, FitsIf DEF s
<1>9. \A x \in Replicas : WorkFits(x)'
  <2>1. ASSUME NEW x \in Replicas, x # r PROVE WorkFits(x)'
    BY <1>1, <1>5, <1>7, <2>1, WorkKept DEF RouteInv
  <2> QED BY <1>8, <2>1
<1>10. ASSUME NEW t \in Subscribers, NEW d \in Pending(t) PROVE d \in Pending(t)'
  <2>1. CASE d = c /\ t = s
    <3>1. w # NoWork
      BY <1>3, <1>4 DEF Copies, NoWork
    <3>2. c \in Held(s)'
      BY <1>4, <1>5, <3>1 DEF Held, s
    <3> QED BY <2>1, <3>2 DEF Pending
  <2>2. CASE d \in Held(t)
    <3>1. d \in Held(t)'
      BY <1>1, <1>4, <2>2, HeldStays
    <3> QED BY <3>1 DEF Pending
  <2>3. CASE d \in queue[t] \cup parked[t] /\ ~(d = c /\ t = s)
    <3>1. d \in queue'[t] \cup parked'[t]
      BY <1>1, <2>3 DEF EventInv, EventTyped, Queues
    <3> QED BY <3>1 DEF Pending
  <2> QED BY <2>1, <2>2, <2>3 DEF Pending
<1>11. Confirmed' /\ CallsAreRouted'
  BY <1>1 DEF RouteInv, CallsAreRouted, Confirmed, Meant, Addressed
<1>12. ASSUME NEW t \in Subscribers, NEW d \in Pending(t) PROVE Ended(Pending(t)', d)
  BY <1>10 DEF Ended
<1> QED BY <1>1, <1>7, <1>9, <1>11, <1>12, AllKept

\* A delivery goes on.
LEMMA WorkRoutes ==
  ASSUME EventInv, RouteInv, NEW r \in Replicas, work[r] # NoWork, NEW w,
         w.copy = work[r].copy,
         work' = [work EXCEPT ![r] = w], Grows, WorkFits(r)', CallsAreRouted',
         UNCHANGED <<stage, queue, parked, router, routed, accepted>>
  PROVE  RouteInv'
<1>1. work'[r] = w /\ \A x \in Replicas \ {r} : work'[x] = work[x]
  BY DEF EventInv, EventTyped
<1>2. \A x \in Replicas : WorkFits(x)'
  <2>1. ASSUME NEW x \in Replicas, x # r PROVE WorkFits(x)'
    BY <1>1, <2>1, WorkKept DEF RouteInv
  <2> QED BY <2>1
<1>3. w # NoWork
  <2>1. w.copy \in Copies
    BY DEF EventInv, EventTyped
  <2>2. w.copy.n # 0
    BY <2>1 DEF Copies
  <2> QED BY <2>2 DEF NoWork
<1>4. ASSUME NEW t \in Subscribers, NEW d \in Pending(t) PROVE Ended(Pending(t)', d)
  <2>1. CASE d \in Held(t)
    <3>1. d \in Held(t)' \/ (t = ServiceOf[r] /\ d = work[r].copy)
      BY <2>1, HeldStays
    <3>2. work[r].copy \in Held(ServiceOf[r])'
      BY <1>1, <1>3 DEF Held
    <3> QED BY <3>1, <3>2 DEF Pending, Ended
  <2>2. CASE d \in queue[t] \cup parked[t]
    BY <2>2 DEF Pending, Ended
  <2> QED BY <2>1, <2>2 DEF Pending
<1>5. Confirmed'
  BY DEF RouteInv, Confirmed
<1> QED BY <1>2, <1>4, <1>5, AllKept

LEMMA LookUpRoutes ==
  ASSUME EventInv, RouteInv, NEW r \in Replicas, LookUp(r)
  PROVE  RouteInv'
<1>1. /\ work[r] # NoWork /\ work[r].known /\ work[r].todo = <<>> /\ ~work[r].matched
      /\ work' = [work EXCEPT ![r].todo = Route(r, work[r].copy.event), ![r].matched = TRUE]
      /\ UNCHANGED <<event, stage, queue, parked, dead, router, routed, failed, dropped, missed, calls, accepted>>
  BY DEF LookUp
<1>2. PICK c : c = work[r].copy
  OBVIOUS
<1>3. PICK known : known = work[r].known
  OBVIOUS
<1>3a. PICK yes : yes = TRUE
  OBVIOUS
<1>4. PICK w : w = [copy |-> c, todo |-> Route(r, c.event), known |-> known, matched |-> yes]
  OBVIOUS
<1>5. c \in Copies /\ event[c.event] \in Published /\ IsWork(work[r]) /\ (c \in missed[ServiceOf[r]] \/ LeavesNoneOut(r))
  BY <1>1, <1>2, Works
<1>6. work' = [work EXCEPT ![r] = w] /\ w.copy = c /\ w.todo = Route(r, c.event) /\ w.known = known
  <2> DEFINE v == [work[r] EXCEPT !.todo = Route(r, work[r].copy.event)]
             u == [v EXCEPT !.matched = yes]
  <2>1. work = [x \in Replicas |-> work[x]]
    BY DEF EventInv, EventTyped
  <2>2. work' = [work EXCEPT ![r] = u]
    BY <1>1, <1>3a, <2>1
  <2> DEFINE route == Route(r, c.event)
             old == work[r]
             a == old.todo
             b == old.matched
  <2>3. old = [copy |-> c, todo |-> a, known |-> known, matched |-> b]
    BY <1>2, <1>3, <1>5 DEF IsWork
  <2>4. v = [old EXCEPT !.todo = route]
    BY <1>2
  <2>5. w = [copy |-> c, todo |-> route, known |-> known, matched |-> yes]
    BY <1>4
  <2> HIDE DEF v, old, a, b, route
  <2>6. v = [copy |-> c, todo |-> route, known |-> known, matched |-> b]
    BY <2>3, <2>4
  <2>7. u = w
    BY <2>5, <2>6
  <2> HIDE DEF u
  <2> QED BY <2>2, <2>5, <2>7 DEF route
<1>7. Grows
  BY <1>1 DEF Grows, Excused
<1>8. WorkFits(r)'
  <2> DEFINE todo == w.todo
  <2>1. /\ todo \in Seq(Range(todo)) /\ Range(todo) \subseteq Meant(Range(Subscriptions[ServiceOf[r]]), c.event)
        /\ Range(todo) = Meant(Range(Table(r)), c.event)
    BY <1>5, <1>6, RouteIs
  <2>2. ASSUME LeavesNoneOut(r), NEW h \in Meant(InForce(ServiceOf[r]), c.event)
        PROVE  HandledBy(h, ServiceOf[r], c) \/ h \in Range(todo)
    <3>1. HandledBy(h, ServiceOf[r], c) \/ h \in Range(work[r].todo) \/ h \in Meant(Range(Table(r)), c.event)
      BY <1>1, <1>2, <2>2 DEF LeavesNoneOut
    <3>2. Range(work[r].todo) = {}
      BY <1>1 DEF Range
    <3> QED BY <2>1, <3>1, <3>2
  <2>3. ASSUME NEW h, HandledBy(h, ServiceOf[r], c) PROVE HandledBy(h, ServiceOf[r], c)'
    BY <1>7, <2>3, HandledStays
  <2>4. LeavesNoneOut(r) => router[r] = Subscriptions[ServiceOf[r]]
    BY DEF LeavesNoneOut
  <2>5. work'[r] = w
    BY <1>6 DEF EventInv, EventTyped
  <2>6. c \in missed'[ServiceOf[r]] \/ (LeavesNoneOut(r) /\ c \notin missed'[ServiceOf[r]])
    BY <1>1, <1>5
  <2>7. event' = event /\ router' = router
    BY <1>1
  <2> QED BY <1>6, <2>1, <2>2, <2>3, <2>4, <2>5, <2>6, <2>7, FitsIf
<1>9. CallsAreRouted'
  BY <1>1 DEF CallsAreRouted, RouteInv, Meant, Addressed
<1> QED BY <1>1, <1>2, <1>6, <1>7, <1>8, <1>9, WorkRoutes

\* A delivery ends: what it worked on is settled, or waits in another queue.
LEMMA EndRoutes ==
  ASSUME EventInv, RouteInv, NEW r \in Replicas, work[r] # NoWork,
         work' = [work EXCEPT ![r] = NoWork],
         Grows, CallsAreRouted',
         \A t \in Subscribers : queue[t] \subseteq queue'[t] /\ parked[t] \subseteq parked'[t],
         \A x \in Replicas \ {r} : router'[x] = router[x],
         UNCHANGED <<stage, routed, accepted>>,
         NEW c, c = work[r].copy,
         Ended(queue'[ServiceOf[r]] \cup parked'[ServiceOf[r]], c) \/ Settled(ServiceOf[r], c)'
  PROVE  RouteInv'
<1>1. work'[r] = NoWork /\ \A x \in Replicas \ {r} : work'[x] = work[x]
  BY DEF EventInv, EventTyped
<1>2. \A x \in Replicas : WorkFits(x)'
  <2>1. ASSUME NEW x \in Replicas, x # r PROVE WorkFits(x)'
    BY <1>1, <2>1, WorkKept DEF RouteInv
  <2>2. WorkFits(r)'
    BY <1>1 DEF WorkFits
  <2> QED BY <2>1, <2>2
<1>5. ASSUME NEW t \in Subscribers, NEW d \in Pending(t) PROVE Ended(Pending(t)', d) \/ Settled(t, d)'
  <2>1. CASE d \in Held(t)
    <3>1. d \in Held(t)' \/ (t = ServiceOf[r] /\ d = c)
      BY <2>1, HeldStays
    <3>2. CASE d \in Held(t)'
      BY <3>2 DEF Pending, Ended
    <3>3. CASE t = ServiceOf[r] /\ d = c
      BY <3>3 DEF Pending, Ended
    <3> QED BY <3>1, <3>2, <3>3
  <2>2. CASE d \in queue[t] \cup parked[t]
    BY <2>2 DEF Pending, Ended
  <2> QED BY <2>1, <2>2 DEF Pending
<1>6. Confirmed'
  BY DEF RouteInv, Confirmed
<1> QED BY <1>2, <1>5, <1>6, AllKept

LEMMA SettleRoutes ==
  ASSUME EventInv, RouteInv, NEW r \in Replicas, work[r] # NoWork, NEW error, Settle(r,
         error),
         event' = event, calls \subseteq calls', CallsAreRouted',
         UNCHANGED <<stage, queue, router, routed, missed, accepted>>
  PROVE  RouteInv'
<1> DEFINE s == ServiceOf[r]
           climbs == MaxRetries[s] > 0 /\ error # "handled"
<1>1. PICK c \in Copies : c = work[r].copy
  BY DEF EventInv, EventTyped
<1>2. s \in Subscribers /\ MaxRetries[s] \in Nat
  BY EventAssumption
<1> DEFINE next == At(c, c.retry + 1)
<1>3. /\ work' = [work EXCEPT ![r] = NoWork]
      /\ parked' = IF climbs /\ c.retry < MaxRetries[s] THEN [parked EXCEPT ![s] = @ \cup {next}] ELSE parked
      /\ dead' = IF climbs /\ c.retry = MaxRetries[s] THEN [dead EXCEPT ![s] = @ \cup {c}] ELSE dead
      /\ dropped' = IF ~climbs THEN [dropped EXCEPT ![s] = @ \cup {c}] ELSE dropped
  BY <1>1 DEF Settle, At
<1>4. next.event = c.event /\ next.n = c.n /\ c.retry \in Nat
  BY DEF At, Copies
<1>5. c.retry <= MaxRetries[s]
  <2>1. c \in Here(s)
    BY <1>1 DEF Here, Held
  <2> QED BY <1>2, <2>1 DEF EventInv, QueuesFit, Earned
<1>6. parked \in Queues /\ dead \in Queues /\ dropped \in Queues
  BY DEF EventInv, EventTyped
<1> HIDE DEF next, climbs, s
<1>7. /\ \A t \in Subscribers : parked[t] \subseteq parked'[t]
      /\ climbs /\ c.retry < MaxRetries[s] => next \in parked'[s]
  BY <1>2, <1>3, <1>6 DEF Queues
<1>8. /\ \A t \in Subscribers : dead[t] \subseteq dead'[t]
      /\ climbs /\ c.retry = MaxRetries[s] => c \in dead'[s]
  BY <1>2, <1>3, <1>6 DEF Queues
<1>9. /\ \A t \in Subscribers : dropped[t] \subseteq dropped'[t]
      /\ ~climbs => c \in dropped'[s]
  BY <1>2, <1>3, <1>6 DEF Queues
<1>10. Grows
  BY <1>8, <1>9 DEF Grows, Excused
<1>11. Ended(queue'[s] \cup parked'[s], c) \/ Settled(s, c)'
  <2>1. CASE climbs /\ c.retry < MaxRetries[s]
    BY <1>4, <1>7, <2>1 DEF Ended
  <2>2. CASE c \in dead'[s] \cup dropped'[s]
    BY <2>2 DEF Settled, Ended, Excused
  <2> QED BY <1>2, <1>4, <1>5, <1>8, <1>9, <2>1, <2>2
<1> QED BY <1>1, <1>3, <1>7, <1>10, <1>11, EndRoutes DEF s


LEMMA CallRoutes ==
  ASSUME EventInv, RouteInv, NEW r \in Replicas, work[r] # NoWork, work[r].todo # <<>>,
         event' = event,
         NEW how, calls' = calls \cup {[copy |-> work[r].copy, handler |-> Head(work[r].todo), how |-> how,
                                         service |-> ServiceOf[r]]}
  PROVE  CallsAreRouted'
<1> DEFINE s == ServiceOf[r]
           c == work[r].copy
           todo == work[r].todo
           h == Head(todo)
<1>1. todo \in Seq(Range(todo)) /\ Range(todo) \subseteq Meant(Range(Subscriptions[s]), c.event)
  BY Works DEF Runs
<1>2. todo # <<>>
  OBVIOUS
<1> HIDE DEF todo, c
<1>3. h \in Range(todo)
  BY <1>1, <1>2
<1>4. h \in Meant(Range(Subscriptions[s]), c.event)
  BY <1>1, <1>3
<1> HIDE DEF h, s
<1>5. calls' = calls \cup {[copy |-> c, handler |-> h, how |-> how, service |-> s]}
  BY DEF c, h, s, todo
<1>6. ASSUME NEW call \in calls'
      PROVE  call.handler \in Meant(Range(Subscriptions[call.service]), call.copy.event)
  <2>1. CASE call \in calls
    BY <2>1 DEF RouteInv, CallsAreRouted, Meant, Addressed
  <2>2. CASE call \notin calls
    <3>1. call.copy = c /\ call.handler = h /\ call.service = s
      BY <1>5, <2>2
    <3> QED BY <1>4, <3>1
  <2> QED BY <2>1, <2>2
<1> QED BY <1>6 DEF CallsAreRouted, Meant, Addressed

LEMMA TodoOn ==
  ASSUME NEW todo, todo \in Seq(Range(todo)), todo # <<>>
  PROVE  Tail(todo) \in Seq(Range(Tail(todo))) /\ Range(todo) = {Head(todo)} \cup Range(Tail(todo))
<1> DEFINE X == Range(todo)
           tail == Tail(todo)
           n == Len(todo)
<1>1. todo \in Seq(X) /\ todo # <<>>
  OBVIOUS
<1> HIDE DEF X
<1>2. /\ tail \in Seq(X) /\ Len(tail) = n - 1 /\ n \in Nat \ {0} /\ Head(todo) = todo[1]
      /\ \A i \in 1..(n - 1) : tail[i] = todo[i + 1]
  BY <1>1, HeadTailProperties
<1>3. tail \in Seq(Range(tail)) /\ Range(tail) = {tail[i] : i \in 1..(n - 1)}
  <2> HIDE DEF tail, n
  <2> QED BY <1>2, OwnRange
<1>4. X = {todo[i] : i \in 1..n}
  BY <1>1, OwnRange DEF X
<1> HIDE DEF tail, n
<1>5. ASSUME NEW i \in 1..n PROVE todo[i] \in {Head(todo)} \cup Range(tail)
  <2>1. CASE i = 1
    BY <1>2, <2>1
  <2>2. CASE i # 1
    <3>1. i - 1 \in 1..(n - 1) /\ (i - 1) + 1 = i
      BY <1>2, <2>2
    <3>2. tail[i - 1] = todo[(i - 1) + 1]
      BY <1>2, <3>1
    <3> QED BY <1>3, <3>1, <3>2
  <2> QED BY <2>1, <2>2
<1>6. \A i \in 1..(n - 1) : tail[i] \in X
  <2> SUFFICES ASSUME NEW i \in 1..(n - 1) PROVE tail[i] \in X
    OBVIOUS
  <2>1. i + 1 \in 1..n /\ tail[i] = todo[i + 1]
    BY <1>2
  <2> QED BY <1>4, <2>1
<1>7. Head(todo) \in X
  <2>1. 1 \in 1..n
    BY <1>2
  <2> QED BY <1>2, <1>4, <2>1
<1> QED BY <1>3, <1>4, <1>5, <1>6, <1>7 DEF X, tail

LEMMA RunHandlerRoutes ==
  ASSUME EventInv, RouteInv, NEW r \in Replicas, RunHandler(r)
  PROVE  RouteInv'
<1>1. /\ work[r] # NoWork /\ work[r].known /\ work[r].todo # <<>>
      /\ UNCHANGED <<event, stage, queue, router, routed, missed, accepted>>
  BY DEF RunHandler
<1>2. PICK c : c = work[r].copy
  OBVIOUS
<1>3. PICK todo : todo = work[r].todo
  OBVIOUS
<1> DEFINE Call(how) == [copy |-> c, handler |-> Head(todo), how |-> how, service |-> ServiceOf[r]]
           s == ServiceOf[r]
<1>4. \/ /\ calls' = calls \cup {Call("done")} /\ work' = [work EXCEPT ![r].todo = Tail(@)]
         /\ UNCHANGED <<parked, dead, dropped>>
      \/ /\ calls' = calls \cup {Call("raised")} /\ \E error \in {"handled", "other"} : Settle(r, error)
  BY <1>2, <1>3 DEF RunHandler
<1>5. CallsAreRouted'
  BY <1>1, <1>2, <1>3, <1>4, CallRoutes
<1>6. CASE \E error \in {"handled", "other"} : Settle(r, error)
  <2>1. calls \subseteq calls'
    BY <1>4
  <2> HIDE DEF Call
  <2> QED BY <1>1, <1>5, <1>6, <2>1, SettleRoutes
<1>7. CASE /\ calls' = calls \cup {Call("done")} /\ work' = [work EXCEPT ![r].todo = Tail(@)]
           /\ UNCHANGED <<parked, dead, dropped>>
  <2>1. c \in Copies /\ IsWork(work[r]) /\ Runs(r) /\ (c \in missed[s] \/ LeavesNoneOut(r))
    BY <1>1, <1>2, Works
  <2>2. PICK w : w = [work[r] EXCEPT !.todo = Tail(work[r].todo)]
    OBVIOUS
  <2>3. work' = [work EXCEPT ![r] = w]
    BY <1>7, <2>2 DEF EventInv, EventTyped
  <2>4. w.copy = c /\ w.todo = Tail(todo) /\ w.known = work[r].known /\ w.matched = work[r].matched
    BY <1>2, <1>3, <2>1, <2>2 DEF IsWork
  <2>5. Grows
    BY <1>1, <1>7 DEF Grows, Excused
  <2>6. w.todo \in Seq(Range(w.todo)) /\ Range(todo) = {Head(todo)} \cup Range(w.todo)
    <3>1. todo \in Seq(Range(todo)) /\ todo # <<>>
      BY <1>1, <1>3, <2>1 DEF Runs
    <3> QED BY <2>4, <3>1, TodoOn
  <2>7. Range(w.todo) \subseteq Meant(Range(Subscriptions[s]), c.event)
    BY <1>2, <1>3, <2>1, <2>6 DEF Runs
  <2>8. HandledBy(Head(todo), s, c)'
    <3>1. Call("done") \in calls'
      BY <1>7
    <3> QED BY <3>1 DEF HandledBy
  <2>9. ASSUME LeavesNoneOut(r), NEW h \in Meant(InForce(s), c.event)
        PROVE  HandledBy(h, s, c)' \/ h \in Range(w.todo) \/ (~w.matched /\ h \in Meant(Range(Table(r)), c.event))
    <3>1. HandledBy(h, s, c) \/ h \in Range(todo) \/ (~work[r].matched /\ h \in Meant(Range(Table(r)), c.event))
      BY <1>1, <1>2, <1>3, <2>9 DEF LeavesNoneOut
    <3>2. HandledBy(h, s, c) => HandledBy(h, s, c)'
      BY <2>5, HandledStays
    <3> QED BY <2>4, <2>6, <2>8, <3>1, <3>2
  <2>10. LeavesNoneOut(r) => router[r] = Subscriptions[s]
    BY DEF LeavesNoneOut
  <2>11. work'[r] = w /\ event' = event /\ router' = router /\ missed' = missed
    BY <1>1, <2>3 DEF EventInv, EventTyped
  <2>12. c \in missed'[s] \/ (LeavesNoneOut(r) /\ c \notin missed'[s])
    BY <2>1, <2>11
  <2>13. WorkFits(r)'
    BY <2>4, <2>6, <2>7, <2>9, <2>10, <2>11, <2>12, FitsIf
  <2> HIDE DEF Call
  <2> QED BY <1>1, <1>2, <1>5, <1>7, <2>3, <2>4, <2>5, <2>13, WorkRoutes
<1> QED BY <1>4, <1>6, <1>7

LEMMA FailToDecodeRoutes ==
  ASSUME EventInv, RouteInv, NEW r \in Replicas, FailToDecode(r)
  PROVE  RouteInv'
<1>1. CallsAreRouted'
  BY DEF FailToDecode, RouteInv, CallsAreRouted, Meant, Addressed
<1> QED BY <1>1, SettleRoutes DEF FailToDecode

\* Acknowledged: every handler in force that matches has handled it.
LEMMA AckRoutes ==
  ASSUME EventInv, RouteInv, NEW r \in Replicas, Ack(r)
  PROVE  RouteInv'
<1>1. /\ work[r] # NoWork /\ work[r].known /\ work[r].todo = <<>> /\ work[r].matched
      /\ work' = [work EXCEPT ![r] = NoWork]
      /\ UNCHANGED <<event, stage, queue, parked, dead, router, routed, dropped, missed, calls, accepted>>
  BY DEF Ack
<1>2. PICK c : c = work[r].copy
  OBVIOUS
<1>3. c \in missed[ServiceOf[r]] \/ LeavesNoneOut(r)
  BY <1>1, <1>2, Works
<1>4. Settled(ServiceOf[r], c)
  <2>1. CASE c \in missed[ServiceOf[r]]
    BY <2>1 DEF Settled, Ended, Excused
  <2>2. CASE LeavesNoneOut(r)
    <3>1. Range(work[r].todo) = {}
      BY <1>1 DEF Range
    <3>2. Ready(ServiceOf[r], c)
      BY <1>1, <1>2, <2>2, <3>1 DEF LeavesNoneOut, Ready
    <3> QED BY <3>2 DEF Settled
  <2> QED BY <1>3, <2>1, <2>2
<1>5. Grows /\ CallsAreRouted'
  BY <1>1 DEF Grows, Excused, CallsAreRouted, RouteInv, Meant, Addressed
<1>6. Settled(ServiceOf[r], c)'
  <2>1. ServiceOf[r] \in Subscribers
    BY EventAssumption
  <2> QED BY <1>4, <1>5, <2>1, SettledStays
<1> QED BY <1>1, <1>2, <1>5, <1>6, EndRoutes

LEMMA CrashRoutes ==
  ASSUME EventInv, RouteInv, NEW r \in Replicas, Crash(r)
  PROVE  RouteInv'
<1> DEFINE s == ServiceOf[r]
<1>1. /\ router' = [router EXCEPT ![r] = <<>>] /\ work' = [work EXCEPT ![r] = NoWork]
      /\ queue' = IF work[r] = NoWork THEN queue ELSE [queue EXCEPT ![s] = @ \cup {work[r].copy}]
      /\ UNCHANGED <<event, stage, parked, dead, routed, dropped, missed, calls, accepted>>
  BY DEF Crash
<1>2. Grows /\ CallsAreRouted' /\ Confirmed'
  BY <1>1 DEF Grows, Excused, CallsAreRouted, Meant, Addressed, RouteInv, Confirmed
<1>3. \A x \in Replicas \ {r} : router'[x] = router[x] /\ work'[x] = work[x]
  BY <1>1 DEF EventInv, EventTyped
<1>4. work'[r] = NoWork
  BY <1>1 DEF EventInv, EventTyped
<1>5. CASE work[r] = NoWork
  <2>1. \A x \in Replicas : WorkFits(x)'
    <3>1. ASSUME NEW x \in Replicas, x # r PROVE WorkFits(x)'
      BY <1>2, <1>3, <3>1, WorkKept DEF RouteInv
    <3>2. WorkFits(r)'
      BY <1>4 DEF WorkFits
    <3> QED BY <3>1, <3>2
  <2>2. \A t \in Subscribers : Pending(t)' = Pending(t)
    BY <1>1, <1>3, <1>4, <1>5 DEF Pending, Held
  <2>3. ASSUME NEW t \in Subscribers, NEW d \in Pending(t) PROVE Ended(Pending(t)', d)
    BY <2>2 DEF Ended
  <2> QED BY <1>1, <1>2, <2>1, <2>3, AllKept
<1>6. CASE work[r] # NoWork
  <2>1. PICK c : c = work[r].copy
    OBVIOUS
  <2>2. queue \in Queues /\ s \in Subscribers
    BY EventAssumption DEF EventInv, EventTyped
  <2>3. (\A t \in Subscribers : queue[t] \subseteq queue'[t]) /\ c \in queue'[s]
    BY <1>1, <1>6, <2>1, <2>2 DEF Queues
  <2>4. Ended(queue'[s] \cup parked'[s], c)
    BY <2>3 DEF Ended
  <2> QED BY <1>1, <1>2, <1>3, <1>6, <2>1, <2>3, <2>4, EndRoutes
<1> QED BY <1>5, <1>6

LEMMA RouteInitHolds == Init => RouteInv
<1> SUFFICES ASSUME Init PROVE RouteInv
  OBVIOUS
<1>1. /\ event \in [Events -> Published] /\ stage = [e \in Events |-> "idle"]
      /\ routed = [s \in Subscribers |-> {}] /\ work = [r \in Replicas |-> NoWork] /\ calls = {}
  BY DEF Init
<1>2. \A r \in Replicas : WorkFits(r)
  BY <1>1 DEF WorkFits
<1> QED BY <1>1, <1>2 DEF RouteInv, CallsAreRouted, Confirmed, Meant, Addressed

LEMMA RouteNextKeeps == EventInv /\ RouteInv /\ [Next]_vars => RouteInv'
<1> SUFFICES ASSUME EventInv, RouteInv, [Next]_vars PROVE RouteInv'
  OBVIOUS
<1>1. CASE EventNext
  BY <1>1, PublishRoutes, AttemptRoutes, StartRoutes, SubscribeRoutes, DeliverRoutes,
     LookUpRoutes,
     RunHandlerRoutes, FailToDecodeRoutes, AckRoutes, CrashRoutes, RedeliverRoutes DEF EventNext
<1>2. CASE UNCHANGED eventVars
  <2>1. Confirmed'
    BY <1>2 DEF eventVars, RouteInv, Confirmed
  <2> QED BY <1>2, <2>1, NothingRuns DEF eventVars
<1> QED BY <1>1, <1>2 DEF Next, vars

LEMMA RouteInvHolds == Spec => [](EventInv /\ RouteInv)
  BY EventInitHolds, EventNextKeeps, RouteInitHolds, RouteNextKeeps, PTL DEF Spec

\* The trie finds exactly the handlers RabbitMQ's rule gives, each once, on any table and topic, and a handler runs
\* for an event only if a pattern it was subscribed under matches the routing key, or the topic of the body where there
\* is no key (default_handler of EventListener).
THEOREM RoutingStaysExact == Spec => []RoutingIsExact
<1>1. EventInv /\ RouteInv => EventTypeOK /\ CallsAreRouted
  BY EventTypesAre DEF RouteInv
<1>2. TrieIsExact
  BY TrieAlwaysExact
<1>3. EventInv /\ RouteInv => RoutingIsExact
  BY <1>1, <1>2 DEF RoutingIsExact
<1> QED BY <1>3, RouteInvHolds, PTL

\* A publish() that returned is with the broker, and a queue that is done with an event has it handled by every
\* handler in force that matches, or has an explanation.
THEOREM EventsAreHandled == Spec => []HandledOrExplained
<1>1. EventInv /\ RouteInv => HandledOrExplained
  <2> SUFFICES ASSUME EventInv, RouteInv PROVE HandledOrExplained
    OBVIOUS
  <2>1. \A e \in Events : stage[e] = "done" => \E c \in accepted : c.event = e
    BY DEF RouteInv, Confirmed
  <2>2. ASSUME NEW s \in Subscribers, NEW c \in routed[s], Over(s, c), ~Ended(dead[s] \cup dropped[s] \cup missed[s], c),
               NEW h \in Meant(InForce(s), c.event)
        PROVE  HandledBy(h, s, c)
    <3>1. ~Ended(Pending(s), c)
      BY <2>2 DEF Over, Ended, Pending, Held
    <3>2. Ready(s, c)
      BY <2>2, <3>1 DEF RouteInv, Settled, Excused
    <3> QED BY <3>2 DEF Ready
  <2>3. HandledUnless(missed)
    BY <2>2 DEF HandledUnless
  <2> QED BY <2>1, <2>3 DEF HandledOrExplained
<1> QED BY <1>1, RouteInvHolds, PTL

================================================================================

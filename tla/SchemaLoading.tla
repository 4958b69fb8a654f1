----------------------------- MODULE SchemaLoading -----------------------------
(***************************************************************************)
(* The schemas of a process: MessageFactory.init() loading files in         *)
(* dependency order, parse() adding the schema of a service, and            *)
(* register_type() (protobus/message_factory.py, proto_parser.py,           *)
(* custom_types.py).                                                        *)
(*                                                                          *)
(* Every factory has a root of its own; the custom types of all of them are *)
(* in one process-wide registry.  A name is the sequence of its segments, a *)
(* file is its text, and a text is what it declares and what it refers to.  *)
(***************************************************************************)
EXTENDS Naturals, Sequences, FiniteSets, SequencesExt

CONSTANTS
  Factories,
  Texts,        \* schema texts
  Schema,       \* text -> [types, services : sets of names, references]
  Locations,    \* the sequences of files init() may find, in the order it finds them
  CustomTypes,  \* names of one segment
  Wires,        \* their wire types
  MaxInits,     \* init() calls of a factory (a bound)
  MaxParses     \* parse() and register_type() calls, of all factories (a bound)

NoWire == "none"

\* A reference is relative to a scope; an absolute one has the scope <<>>.
ASSUME SchemaAssumption ==
  /\ \A t \in Texts : \A r \in Schema[t].references : r.name \in Seq(STRING) /\ r.scope \in Seq(STRING)
  /\ Locations \subseteq Seq(Texts)
  /\ NoWire \notin Wires
ASSUME SchemaBounds == MaxInits \in Nat /\ MaxParses \in Nat

NoRoot == [files |-> {}, wrappers |-> {}, bound |-> {}, built |-> FALSE]
Idle   == [busy |-> FALSE, pending |-> <<>>, remaining |-> <<>>, progressed |-> FALSE]

VARIABLES
  registry,     \* _custom_type_registry
  root,         \* per factory: files added, wrapper messages, references bound
  parsed,       \* _parsed_schemas
  initialized,  \* _is_initialized
  load,         \* the loop of _load_files
  told,         \* how the last init() ended
  wanted,       \* the files it was given, and the custom types it had (history)
  late,         \* types registered through another factory since init() (history)
  inits, parses \* calls made

schemaVars == <<registry, root, parsed, initialized, load, told, wanted, late, inits, parses>>

--------------------------------------------------------------------------------
(* Names. *)

Registered == {c \in CustomTypes : registry[c] # NoWire}

\* lookup_kind: what the pool knows.
Names(r) == (UNION {Schema[t].types : t \in r.files}) \cup {<<w[1]>> : w \in r.wrappers}
ServiceNames(r) == UNION {Schema[t].services : t \in r.files}

\* The candidates of a reference, by the length of the scope they are looked up in.
Candidate(ref, n) == SubSeq(ref.scope, 1, n) \o ref.name
Found(ref, names) == {n \in 0..Len(ref.scope) : Candidate(ref, n) \in names}

\* Mutant of Target: from the root inwards.
Target_outermost(ref, names) ==
  Candidate(ref, CHOOSE n \in Found(ref, names) : \A m \in Found(ref, names) : n <= m)

\* _resolve_name: the innermost scope that has the name.
Target(ref, names) ==
  Candidate(ref, CHOOSE n \in Found(ref, names) : \A m \in Found(ref, names) : m <= n)

--------------------------------------------------------------------------------
(* Adding a text to a root: add_proto. *)

Visible(t, r) == Names(r) \cup Schema[t].types

\* A reference the parser finds nowhere passes if it is a registered custom type,
\* to be looked for in the synthetic file of those.
Unknown(t, r) ==
  {ref \in Schema[t].references : Found(ref, Visible(t, r)) = {} /\ ref.name \notin {<<c>> : c \in Registered}}

\* The pool refuses a name it has, and a custom type that its own root lacks.
Refused(t, r) ==
  \/ Schema[t].types \cap Names(r) # {} \/ Schema[t].services \cap ServiceNames(r) # {}
  \/ \E ref \in Schema[t].references : Found(ref, Visible(t, r)) = {}

Added(t, r) ==
  [r EXCEPT !.files = @ \cup {t},
            !.bound = @ \cup {[text |-> t, ref |-> ref, to |-> Target(ref, Visible(t, r))] :
                              ref \in Schema[t].references}]

--------------------------------------------------------------------------------
Results == {"none", "loading", "loaded", "unknown type", "refused"}

SchemaTypeOK ==
  /\ registry \in [CustomTypes -> Wires \cup {NoWire}]
  /\ \A f \in Factories : root[f].files \subseteq Texts /\ root[f].wrappers \subseteq CustomTypes \X Wires
  /\ parsed \in [Factories -> SUBSET Texts]
  /\ initialized \in [Factories -> BOOLEAN]
  /\ \A f \in Factories : Range(load[f].pending) \cup Range(load[f].remaining) \subseteq Texts
  /\ told \in [Factories -> Results]
  /\ late \in [Factories -> SUBSET CustomTypes]
  /\ inits \in [Factories -> 0..MaxInits] /\ parses \in 0..MaxParses

SchemaInit ==
  /\ registry = [c \in CustomTypes |-> NoWire]
  /\ root = [f \in Factories |-> NoRoot]
  /\ parsed = [f \in Factories |-> {}]
  /\ initialized = [f \in Factories |-> FALSE]
  /\ load = [f \in Factories |-> Idle]
  /\ told = [f \in Factories |-> "none"]
  /\ wanted = [f \in Factories |-> [files |-> {}, customs |-> {}]]
  /\ late = [f \in Factories |-> {}]
  /\ inits = [f \in Factories |-> 0] /\ parses = 0

\* init() is synchronous: nothing else runs until it returns or raises.
Free == \A f \in Factories : ~load[f].busy

--------------------------------------------------------------------------------
(* init(). *)

\* A fresh root holds the types registered so far.  A factory that was initialized
\* before stays so.
StartInit(f) ==
  /\ Free /\ inits[f] < MaxInits
  /\ inits' = [inits EXCEPT ![f] = @ + 1]
  /\ root' = [root EXCEPT ![f] =
                [NoRoot EXCEPT !.built = TRUE, !.wrappers = {<<c, registry[c]>> : c \in Registered}]]
  /\ parsed' = [parsed EXCEPT ![f] = {}]
  /\ late' = [late EXCEPT ![f] = {}]
  /\ told' = [told EXCEPT ![f] = "loading"]
  /\ \E files \in Locations :
       /\ load' = [load EXCEPT ![f] = [Idle EXCEPT !.busy = TRUE, !.pending = files]]
       /\ wanted' = [wanted EXCEPT ![f] = [files |-> Range(files), customs |-> Registered]]
  /\ UNCHANGED <<registry, initialized, parses>>

Raised(f, result) ==
  /\ load' = [load EXCEPT ![f] = Idle]
  /\ told' = [told EXCEPT ![f] = result]

\* One file of a pass: skipped if its text is in already, set aside if it refers to
\* a type that nothing declared yet.  The pool's refusal ends the load.
LoadFile(f) ==
  /\ load[f].busy /\ load[f].pending # <<>>
  /\ LET t == Head(load[f].pending)
         Then(aside, progress) ==
           /\ load' = [load EXCEPT ![f].pending = Tail(@), ![f].remaining = @ \o aside,
                                   ![f].progressed = @ \/ progress]
           /\ UNCHANGED told
     IN  IF t \in parsed[f] THEN Then(<<>>, TRUE) /\ UNCHANGED <<root, parsed>>
         ELSE IF Unknown(t, root[f]) # {} THEN Then(<<t>>, FALSE) /\ UNCHANGED <<root, parsed>>
         ELSE IF Refused(t, root[f]) THEN Raised(f, "refused") /\ UNCHANGED <<root, parsed>>
         ELSE /\ Then(<<>>, TRUE)
              /\ root' = [root EXCEPT ![f] = Added(t, @)]
              /\ parsed' = [parsed EXCEPT ![f] = @ \cup {t}]
  /\ UNCHANGED <<registry, initialized, wanted, late, inits, parses>>

\* Mutant of NextPass: what the first pass set aside is given up.
NextPass_once(f) ==
  /\ load[f].busy /\ load[f].pending = <<>>
  /\ IF load[f].remaining = <<>>
       THEN Raised(f, "loaded") /\ initialized' = [initialized EXCEPT ![f] = TRUE]
       ELSE Raised(f, "unknown type") /\ UNCHANGED initialized
  /\ UNCHANGED <<registry, root, parsed, wanted, late, inits, parses>>

\* The end of a pass: done, stuck, or another pass over what was set aside.
NextPass(f) ==
  /\ load[f].busy /\ load[f].pending = <<>>
  /\ IF load[f].remaining = <<>>
       THEN Raised(f, "loaded") /\ initialized' = [initialized EXCEPT ![f] = TRUE]
       ELSE /\ IF load[f].progressed
                 THEN /\ load' = [load EXCEPT ![f] = [Idle EXCEPT !.busy = TRUE, !.pending = load[f].remaining]]
                      /\ UNCHANGED told
                 ELSE Raised(f, "unknown type")
            /\ UNCHANGED initialized
  /\ UNCHANGED <<registry, root, parsed, wanted, late, inits, parses>>

--------------------------------------------------------------------------------
(* parse() and register_type(). *)

\* _register_schema and parse: nothing is added if the service is known by the name
\* it runs under, or the text is in; a text that fails leaves no trace.
Parse(f) ==
  /\ Free /\ initialized[f] /\ parses < MaxParses
  /\ parses' = parses + 1
  /\ \E t \in Texts, name \in UNION {Schema[u].services : u \in Texts} :
       LET skip == name \in ServiceNames(root[f]) \/ t \in parsed[f]
       IN  /\ ~skip /\ Unknown(t, root[f]) = {} /\ ~Refused(t, root[f])
           /\ root' = [root EXCEPT ![f] = Added(t, @)]
           /\ parsed' = [parsed EXCEPT ![f] = @ \cup {t}]
  /\ UNCHANGED <<registry, initialized, load, told, wanted, late, inits>>

\* Mutants of Register: any wire type is taken; the root at hand is left as it is.
Register_anyWire(f, c, wire) ==
  /\ registry' = [registry EXCEPT ![c] = wire]
  /\ root' = IF root[f].built /\ <<c>> \notin Names(root[f])
               THEN [root EXCEPT ![f].wrappers = @ \cup {<<c, wire>>}] ELSE root

Register_nextRoot(f, c, wire) ==
  /\ registry[c] \in {NoWire, wire}
  /\ registry' = [registry EXCEPT ![c] = wire]
  /\ UNCHANGED root

\* register_custom_type and refresh_custom_type_codec refuse another wire type; the
\* factory's own root gets the wrapper, the others do not.
Register(f, c, wire) ==
  /\ registry[c] \in {NoWire, wire}
  /\ registry' = [registry EXCEPT ![c] = wire]
  /\ root' = IF root[f].built /\ <<c>> \notin Names(root[f])
               THEN [root EXCEPT ![f].wrappers = @ \cup {<<c, wire>>}] ELSE root

RegisterType(f) ==
  /\ Free /\ parses < MaxParses
  /\ parses' = parses + 1
  /\ \E c \in CustomTypes, wire \in Wires :
       /\ Register(f, c, wire)
       /\ late' = [g \in Factories |->
                     IF g = f THEN late[g] \ {c}
                     ELSE IF registry[c] = NoWire /\ root[g].built THEN late[g] \cup {c}
                     ELSE late[g]]
  /\ UNCHANGED <<parsed, initialized, load, told, wanted, inits>>

SchemaNext == \E f \in Factories :
  StartInit(f) \/ LoadFile(f) \/ NextPass(f) \/ Parse(f) \/ RegisterType(f)

--------------------------------------------------------------------------------
(* Properties. *)

\* The texts of F that can be loaded at all: the least set that contains every text
\* of F whose references it, the text itself and the custom types resolve.
Loadable(F, customs) ==
  LET Closed(G) == \A t \in F :
        (\A ref \in Schema[t].references :
           Found(ref, (UNION {Schema[u].types : u \in G \cup {t}}) \cup {<<c>> : c \in customs}) # {})
        => t \in G
  IN  {t \in F : \A G \in SUBSET F : Closed(G) => t \in G}

\* "Files are loaded in dependency order however they are found": init() fails with
\* an unknown type only if what it did not load cannot be loaded in any order, and
\* then everything else is in; if it succeeds, everything is.  (A second init() that
\* fails leaves a factory to which parse() may add more.)
LoadIsComplete ==
  \A f \in Factories :
    /\ told[f] = "loaded" => wanted[f].files \subseteq root[f].files
    /\ told[f] = "unknown type" /\ ~initialized[f] =>
         root[f].files = Loadable(wanted[f].files, wanted[f].customs) /\ root[f].files # wanted[f].files

\* A factory that says it is initialized has loaded what it was given - unless a
\* second init() failed, or is at work, on top of the first.
ReadyMeansLoaded ==
  \A f \in Factories : initialized[f] /\ told[f] # "loaded" => inits[f] > 1

\* Every reference of a file in the pool is bound, once, to a type in the pool, and
\* no type of an outer scope hides the one the file declares itself.
PoolIsClosed ==
  \A f \in Factories : \A t \in root[f].files : \A ref \in Schema[t].references :
    LET ends == {b.to : b \in {b \in root[f].bound : b.text = t /\ b.ref = ref}}
    IN  /\ Cardinality(ends) = 1 /\ ends \subseteq Names(root[f])
        /\ \A n \in Found(ref, Schema[t].types) : \A to \in ends : Len(to) >= Len(Candidate(ref, n))

\* Two factories given the same files understand them alike, whatever the order in
\* which each found them - except a reference with candidates in two scopes, which
\* is bound to the innermost of those loaded by then.
OrderDoesNotMatter ==
  \A f, g \in Factories : told[f] = "loaded" /\ told[g] = "loaded" /\ wanted[f].files = wanted[g].files =>
    \A b \in root[f].bound, d \in root[g].bound :
      /\ b.text = d.text /\ b.ref = d.ref
      /\ Cardinality(Found(b.ref, Names(root[f]) \cup Names(root[g]))) = 1
      => b.to = d.to

\* A custom type is carried the same way by every factory of the process, and every
\* root has it - except those built before another factory registered it.
CustomTypesAgree ==
  \A f \in Factories : root[f].built =>
    /\ \A w \in root[f].wrappers : w[2] = registry[w[1]]
    /\ \A c \in Registered : <<c>> \in Names(root[f]) \/ c \in late[f]

SchemasAreWhole ==
  SchemaTypeOK /\ LoadIsComplete /\ ReadyMeansLoaded /\ PoolIsClosed /\ OrderDoesNotMatter /\ CustomTypesAgree

================================================================================

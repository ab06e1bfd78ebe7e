----------------------------- MODULE ModuleNames -----------------------------
(***************************************************************************)
(* What require.js takes a module's name for: relative ids, the `map`,     *)
(* packages, bundles and paths of the configuration, and the url of the    *)
(* script.  The configuration may change while modules wait for their      *)
(* scripts.  A name or a url is the sequence of its segments.              *)
(***************************************************************************)
EXTENDS Naturals, Sequences, FiniteSets, SequencesExt, TLC

CONSTANTS
  Configs,      \* what configure is called with
  Asked,        \* what modules ask for: [plugin, name], plugin <<>> for none
  UrlSegments,  \* segments with a colon, a question mark or the suffix .js
  MaxStamps,    \* bounds of unnormalizedCounter and of the modules known,
  MaxModules    \* in the model

VARIABLES
  config, registry,   \* module ids to their maps, while not executed
  inited,             \* ids whose define was called
  defined,            \* ids that were executed
  stamps              \* unnormalizedCounter

namingVars == <<config, registry, inited, defined, stamps>>

Here == "."
Up == ".."
Star == <<"*">>
Unset == <<>>

NoConfig == [baseUrl |-> <<>>, paths |-> <<>>, map |-> <<>>, pkgs |-> <<>>,
             bundles |-> <<>>, shim |-> <<>>]

ValueOf(f, key) == IF key \in DOMAIN f THEN f[key] ELSE Unset
Directory(name) == IF name = <<>> THEN <<>> ELSE Front(name)

(* trimDots: the segment at i of what is left of the name *)
RECURSIVE TrimDots(_, _)
TrimDots(ary, i) ==
  LET second == i = 2 /\ ((Len(ary) > 2 /\ ary[3] = Up) \/ ary[1] = Up)
  IN IF i > Len(ary) \/ (ary[i] = Up /\ second) THEN ary
     ELSE IF ary[i] = Here THEN TrimDots(RemoveAt(ary, i), i)
     ELSE IF ary[i] = Up /\ i > 1
       THEN TrimDots(SubSeq(ary, 1, i - 2) \o SubSeq(ary, i + 1, Len(ary)), i - 1)
     ELSE TrimDots(ary, i + 1)

Resolved(name, base) ==
  IF name = <<>> \/ Head(name) \notin {Here, Up} THEN name
  ELSE IF base # <<>> THEN TrimDots(Directory(base) \o name, 1)
  ELSE IF Head(name) = Here THEN Tail(name) ELSE name

(* The longest part of the name that the map of the longest part of the     *)
(* base, or else the map of all, has a value for                            *)
Parts(name) == {SubSeq(name, 1, i) : i \in 1 .. Len(name)}
Longest(S) == CHOOSE p \in S : \A q \in S : Len(q) <= Len(p)
Replaced(name, part, value) == value \o SubSeq(name, Len(part) + 1, Len(name))

Mapped(c, name, base) ==
  LET has(b, part) == part \in DOMAIN ValueOf(c.map, b)
      mine == {part \in Parts(name) : \E b \in Parts(base) : has(b, part)}
      stars == {part \in Parts(name) : has(Star, part)}
      part == Longest(IF mine # {} THEN mine ELSE stars)
      of == IF mine = {} THEN Star ELSE Longest({b \in Parts(base) : has(b, part)})
  IN IF mine \cup stars = {} THEN name ELSE Replaced(name, part, c.map[of][part])

Normalize(c, name, base, applyMap) ==
  LET resolved == Resolved(name, base)
      mapped == IF applyMap THEN Mapped(c, resolved, base) ELSE resolved
  IN IF mapped \in DOMAIN c.pkgs THEN c.pkgs[mapped] ELSE mapped

(* nameToUrl *)
RECURSIVE NameToUrl(_, _)
NameToUrl(c, asked) ==
  LET name == IF asked \in DOMAIN c.pkgs THEN c.pkgs[asked] ELSE asked
      known == Parts(name) \cap DOMAIN c.paths
      path == IF known = {} THEN name ELSE Replaced(name, Longest(known), c.paths[Longest(known)])
      plain == \E i \in DOMAIN name : name[i] \in UrlSegments
  IN IF name \in DOMAIN c.bundles THEN NameToUrl(c, c.bundles[name])
     ELSE IF plain THEN [path |-> name, suffix |-> FALSE]
     ELSE [path |-> IF path # <<>> /\ Head(path) = "" THEN path ELSE c.baseUrl \o path,
           suffix |-> TRUE]

(* makeModuleMap.  An id with a plugin that is not loaded yet is stamped,   *)
(* since only the plugin could tell what the name normalizes to.            *)
MakeModuleMap(c, asked, parent, applyMap, known, stamp) ==
  LET plugin == IF asked.plugin = <<>> THEN <<>> ELSE Normalize(c, asked.plugin, parent, applyMap)
      name == Normalize(c, asked.name, parent, applyMap)
      loaded == [plugin |-> <<>>, name |-> plugin, stamp |-> 0] \in known
      transient == plugin # <<>> /\ ~loaded
  IN [id |-> [plugin |-> plugin, name |-> name, stamp |-> IF transient THEN stamp ELSE 0],
      url |-> IF plugin = <<>> THEN NameToUrl(c, name) ELSE Unset]

-----------------------------------------------------------------------------
NameInit == /\ config = NoConfig /\ registry = <<>> /\ inited = {} /\ defined = {}
            /\ stamps = 0

MergedMap(old, new) == [b \in DOMAIN old \cup DOMAIN new |-> ValueOf(new, b) @@ ValueOf(old, b)]

Located(c) == [p \in {q \in DOMAIN c.packages : c.packages[q].location # <<>>} |->
                 c.packages[p].location]
Mains(c) == [p \in DOMAIN c.packages |->
               LET main == c.packages[p].main
               IN p \o (IF Head(main) = Here THEN Tail(main) ELSE main)]
Bundled(c) == [v \in {w \in UNION {c.bundles[b] : b \in DOMAIN c.bundles} : w \notin DOMAIN c.bundles} |->
                 CHOOSE b \in DOMAIN c.bundles : v \in c.bundles[b]]

(* configure: what modules still wait for follows the new configuration *)
Configure(c) ==
  LET asked(id) == [plugin |-> id.plugin, name |-> id.name]
      waits(id) == id \notin inited /\ id.stamp = 0
  IN /\ config' = [baseUrl |-> IF c.baseUrl # <<>> THEN c.baseUrl ELSE config.baseUrl,
                   paths |-> Located(c) @@ c.paths @@ config.paths,
                   map |-> MergedMap(config.map, c.map),
                   pkgs |-> Mains(c) @@ config.pkgs,
                   bundles |-> Bundled(c) @@ config.bundles,
                   shim |-> c.shim @@ config.shim]
     /\ registry' = [id \in DOMAIN registry |->
          IF waits(id) THEN MakeModuleMap(config', asked(id), <<>>, FALSE, defined, stamps + 1)
          ELSE registry[id]]
     /\ UNCHANGED <<inited, defined, stamps>>

(* A dependency of the module `parent`, or of a top-level require *)
Depend(asked, parent) ==
  LET m == MakeModuleMap(config, asked, parent, TRUE, defined, stamps + 1)
  IN /\ m.id.stamp <= MaxStamps
     /\ m.id \notin defined \cup DOMAIN registry
     /\ Cardinality(DOMAIN registry \cup defined) < MaxModules
     /\ registry' = registry @@ (m.id :> m)
     /\ stamps' = IF m.id.stamp # 0 THEN m.id.stamp ELSE stamps
     /\ UNCHANGED <<config, inited, defined>>

Arrive(id) ==
  /\ id \in DOMAIN registry \ inited
  /\ inited' = inited \cup {id}
  /\ UNCHANGED <<config, registry, defined, stamps>>

Executed(id) ==
  /\ id \in inited \cap DOMAIN registry
  /\ defined' = defined \cup {id}
  /\ registry' = [other \in DOMAIN registry \ {id} |-> registry[other]]
  /\ UNCHANGED <<config, inited, stamps>>

NameNext ==
  \/ \E c \in Configs : Configure(c)
  \/ \E asked \in Asked, parent \in {<<>>} \cup {id.name : id \in DOMAIN registry} : Depend(asked, parent)
  \/ \E id \in DOMAIN registry : Arrive(id)
  \/ \E id \in DOMAIN registry : Executed(id)

NameSpec == NameInit /\ [][NameNext]_namingVars

-----------------------------------------------------------------------------
(* The place a path with dots means: so many directories up, then down. *)
Place(path) ==
  FoldLeft(LAMBDA at, s : CASE s = Here -> at
                            [] s = Up /\ at.down = <<>> -> [at EXCEPT !.up = @ + 1]
                            [] s = Up /\ at.down # <<>> -> [at EXCEPT !.down = Front(@)]
                            [] OTHER -> [at EXCEPT !.down = Append(@, s)],
           [up |-> 0, down |-> <<>>], path)

HasDots(name) == {Here, Up} \cap ToSet(name) # {}

(* A relative id means what it would as a path from its parent's directory, *)
(* with no dots left unless it leaves the root; to resolve it again changes *)
(* nothing.  (An id with no parent is taken from the base url.)             *)
RelativeIdsResolve ==
  \A asked \in {a \in Asked : Head(a.name) \in {Here, Up}}, parent \in {id.name : id \in DOMAIN registry} :
    LET resolved == Resolved(asked.name, parent)
        meant == Place(Directory(parent) \o asked.name)
    IN /\ Place(resolved) = meant
       /\ meant.up = 0 => resolved = meant.down
       /\ TrimDots(resolved, 1) = resolved

Plain(id) == id.plugin = <<>>
Again(id) == MakeModuleMap(config, [plugin |-> id.plugin, name |-> id.name], <<>>, FALSE, defined, 1)

(* A module that waits is fetched from where the configuration of now says  *)
(* it is, also when it was asked for under an older one.                    *)
WaitingFollowConfig ==
  \A id \in DOMAIN registry \ inited :
    Plain(id) => registry[id].url = NameToUrl(config, id.name)

(* No script is fetched for two modules, unless one waited under a name     *)
(* that has become a package's or a bundle's, or under a path out of the    *)
(* root.                                                                    *)
OneScriptOneModule ==
  \A i, j \in {id \in DOMAIN registry \ inited : Plain(id) /\ ~HasDots(id.name)} :
    /\ i # j /\ {i.name, j.name} \cap (DOMAIN config.bundles \cup {config.bundles[b] : b \in DOMAIN config.bundles}) = {}
    /\ Again(i).id = i /\ Again(j).id = j
    => Place(registry[i].url.path) # Place(registry[j].url.path)

(* Names resolve to the scripts that the configuration and the place of     *)
(* the asking module mean.                                                  *)
NamesMeanScripts == RelativeIdsResolve /\ WaitingFollowConfig /\ OneScriptOneModule
=============================================================================

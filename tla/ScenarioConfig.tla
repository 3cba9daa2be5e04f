--------------------------- MODULE ScenarioConfig ---------------------------
(***************************************************************************)
(* Loading a scenario (sim/config.rs): a YAML file and the chain of files  *)
(* it extends, merged from the far end, then parsed and validated.         *)
(*                                                                         *)
(* A document maps each section to a value: absent, a plain value (scalar  *)
(* or sequence), or a mapping from SubKeys to numbers, 0 where the key is  *)
(* absent.                                                                 *)
(***************************************************************************)
EXTENDS Integers, Sequences, FiniteSets

CONSTANTS
    Files,      \* the YAML files
    Root,       \* the one load_scenario is given
    Documents,  \* what a file may hold
    Sections,   \* "initial_state", "derived" and others
    SubKeys     \* keys within a section

NoParent == "none"
Missing == "missing"     \* a path where there is no file

ASSUME ScenarioConfigAssumption ==
    /\ IsFiniteSet(Files) /\ Root \in Files /\ NoParent \notin Files /\ Missing \notin Files
    /\ {"initial_state", "derived"} \subseteq Sections /\ {"used", "total"} \subseteq SubKeys
    /\ \A d \in Documents : \A s \in Sections :
          d[s].is \in {"absent", "plain", "map"} /\ (d[s].is = "map" => d[s].m \in [SubKeys -> Nat])

VARIABLES
    parent,     \* the `extends' of each file
    document,   \* what each file holds besides
    target,     \* the path the recursion is about to open, or NoParent while it returns
    stack,      \* the files being loaded, the innermost last
    visited,
    merged,     \* the value the innermost call has returned
    outcome     \* "loading", "loaded" or a LoadError; "given" where nothing is loaded

loadVars == <<parent, document, target, stack, visited, merged, outcome>>

Absent == [is |-> "absent"]
Plain(v) == [is |-> "plain", v |-> v]
Map(m) == [is |-> "map", m |-> m]

NoDocument == [s \in Sections |-> Absent]

LoadInit ==
    /\ parent \in [Files -> Files \cup {NoParent, Missing}]
    /\ document \in [Files -> Documents]
    /\ target = Root /\ stack = <<>> /\ visited = {}
    /\ merged = NoDocument
    /\ outcome = "loading"

-----------------------------------------------------------------------------
\* A faulty variant of merge_value.
Mut_replace_section(b, o) == IF o.is = "absent" THEN b ELSE o

\* Mappings merge key by key; anything else of the child replaces what the parent has.
merge_value(b, o) ==
    IF b.is = "map" /\ o.is = "map"
    THEN Map([k \in SubKeys |-> IF o.m[k] = 0 THEN b.m[k] ELSE o.m[k]])
    ELSE IF o.is = "absent" THEN b ELSE o

deep_merge(base, override) == [s \in Sections |-> merge_value(base[s], override[s])]

is_visited(f) == f \in visited

Refuse(error) ==
    /\ outcome' = error
    /\ UNCHANGED <<parent, document, target, stack, visited, merged>>

\* load_yaml_with_extends up to the recursive call: a file on the way to itself, a file that
\* cannot be read, or the next one to open.
OpenFile ==
    /\ outcome = "loading" /\ target # NoParent
    /\ CASE is_visited(target) -> Refuse("CircularExtends")
         [] target = Missing   -> Refuse("Io")
         [] OTHER ->
              /\ stack' = Append(stack, target)
              /\ visited' = visited \cup {target}
              /\ target' = parent[target]
              /\ UNCHANGED <<parent, document, merged, outcome>>

\* ... and from its return: the child's document over the parent's.
CloseFile ==
    /\ outcome = "loading" /\ target = NoParent /\ stack # <<>>
    /\ LET f == stack[Len(stack)]
       IN  /\ merged' = IF parent[f] = NoParent THEN document[f] ELSE deep_merge(merged, document[f])
           /\ visited' = visited \ {f}
    /\ stack' = SubSeq(stack, 1, Len(stack) - 1)
    /\ UNCHANGED <<parent, document, target, outcome>>

\* serde: the sections without a default must be there, initial_state as a mapping with all
\* its keys.
Parses(doc) ==
    /\ doc["derived"].is = "plain"
    /\ doc["initial_state"].is = "map" /\ \A k \in SubKeys : doc["initial_state"].m[k] # 0

\* validate_device_memory, and likewise for the KV cache and its tokens.
Valid(doc) == doc["initial_state"].m["used"] <= doc["initial_state"].m["total"]

\* validate_expressions: an expression passes if it yields a number, a boolean or a string on
\* the dry-run context.
Evaluates(doc) == doc["derived"].v \in {"number", "boolean", "string"}

Conclude ==
    /\ outcome = "loading" /\ target = NoParent /\ stack = <<>>
    /\ outcome' = IF ~Parses(merged) THEN "Parse" ELSE IF ~Valid(merged) THEN "Validation"
                  ELSE IF ~Evaluates(merged) THEN "Expression" ELSE "loaded"
    /\ UNCHANGED <<parent, document, target, stack, visited, merged>>

LoadStep == OpenFile \/ CloseFile \/ Conclude

-----------------------------------------------------------------------------
LoadTypeOK ==
    /\ target \in Files \cup {NoParent, Missing}
    /\ stack \in Seq(Files) /\ visited \subseteq Files
    /\ DOMAIN merged = Sections
    /\ outcome \in {"loading", "given", "loaded", "CircularExtends", "Io", "Parse", "Validation", "Expression"}

\* The files that extending leads to from the root, the root first: up to the first that extends
\* no file, or one of those before it.
IsChain(c) ==
    /\ c[1] = Root
    /\ \A i \in 1..(Len(c) - 1) : c[i + 1] = parent[c[i]]
    /\ \A i, j \in 1..Len(c) : c[i] = c[j] => i = j
    /\ parent[c[Len(c)]] \in Files => \E i \in 1..Len(c) : c[i] = parent[c[Len(c)]]

Chains == {c \in UNION {[1..n -> Files] : n \in 1..Cardinality(Files)} : IsChain(c)}

ChainOfRoot == CHOOSE c \in Chains : TRUE

\* The value the chain gives to a key of a section: from the nearest file with that key,
\* unless a nearer one has the section as something else than a mapping.
NearestValue(chain, s, k) ==
    LET holds(i)  == document[chain[i]][s]
        hidden(i) == \E j \in 1..(i - 1) : holds(j).is = "plain"
        found     == {i \in DOMAIN chain : holds(i).is = "map" /\ ~hidden(i) /\ holds(i).m[k] # 0}
    IN  IF found = {} THEN 0 ELSE holds(CHOOSE i \in found : \A j \in found : i <= j).m[k]

\* "child가 parent를 override": every key of a merged section has the
\* value of the nearest file that gives it one, over a chain of any
\* length, and the memory used at the start of a loaded scenario fits.
\* The checks see the whole chain: a child may repair what its parent gets
\* wrong and break what it has right.
NearestWins ==
    outcome \in {"loaded", "Parse", "Validation", "Expression"} =>
        LET chain == ChainOfRoot
            init  == [k \in SubKeys |-> NearestValue(chain, "initial_state", k)]
        IN  /\ merged["initial_state"].is = "map" => merged["initial_state"].m = init
            /\ outcome = "loaded" => init["used"] <= init["total"]

\* A chain of extends that comes back to a file is refused as circular,
\* whether the root is on the cycle or only leads to it, and only such a
\* chain is.
CycleRefused ==
    outcome # "loading" =>
        LET chain == ChainOfRoot
        IN  (outcome = "CircularExtends") <=> (parent[chain[Len(chain)]] \in Files)

(***************************************************************************)
(* What a chain of extends comes to, whatever its length and shape: the    *)
(* nearest file's value for every key, or a refusal of exactly the chains  *)
(* that come back to a file.                                               *)
(***************************************************************************)
ExtendsResolved == NearestWins /\ CycleRefused

=============================================================================

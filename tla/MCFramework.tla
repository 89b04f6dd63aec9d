---------------------------- MODULE MCFramework ----------------------------
(***************************************************************************)
(* Parts of the connector's framework that share no state: a behaviour is  *)
(* one of one of them, chosen in the initial state.                        *)
(***************************************************************************)
EXTENDS Imports, Backends, Mappers, FiniteSets, TLC

CONSTANTS j1, j2, j3, partner, other, category, version, generic, m1, m2, m3, m4, f

VARIABLE part   \* the one which moves

vars == <<importsVars, backendsVars, mappersVars, part>>

\* The jobs of a behaviour of another part
ImportsOver ==
  /\ job = [j \in Job |-> "done"]
  /\ retry = [j \in Job |-> 0]
  /\ bindings = [r \in Record |-> 0]
  /\ seen = [j \in Job |-> bindings]
  /\ changed = [j \in Job |-> {}]
  /\ created = [j \in Job |-> {}]
  /\ updated = [j \in Job |-> {}]
  /\ pos = [j \in Job |-> 0]
  /\ lock = [r \in Record |-> NoJob]
  /\ late = {}
  /\ offline = {}

Init ==
  /\ part \in {"imports", "backends", "mappers"}
  /\ IF part = "imports" THEN ImportsInit ELSE ImportsOver
  /\ BackendsInit
  /\ MappersInit

ImportsMove == UNCHANGED <<backendsVars, mappersVars, part>> /\ part = "imports"

Next ==
  \/ ImportsNext /\ ImportsMove
  \/ part = "backends" /\ BackendsNext /\ UNCHANGED <<importsVars, mappersVars, part>>
  \/ part = "mappers" /\ MappersNext /\ UNCHANGED <<importsVars, backendsVars, part>>

MCSpec ==
  Init /\ [][Next]_vars /\ \A j \in Job : WF_vars(ImportStep(j) /\ ImportsMove)

\* Two partners of the same category, which a third job imports alone
Dependencies == j1 :> <<partner, category>> @@ j2 :> <<other, category>> @@ j3 :> <<category>>

VersionOfGeneric == version :> generic @@ generic :> NoBackend

\* The mappers are written in one order, and declare one field at most.  One method
\* is for new records only, and one field is mapped directly, in the first class.
Small ==
  /\ \A c \in Mapper : class[c].defined =>
       /\ c = m2 => class[m1].defined
       /\ c = m3 => class[m2].defined
       /\ c = m4 => class[m3].defined
       /\ class[c].direct \subseteq IF c = m1 THEN {f} ELSE {}
       /\ class[c].create => c = m2
       /\ Cardinality(class[c].own) <= 1
  /\ Len(entries[generic]) <= 1 /\ Len(entries[generic]) + Len(entries[version]) <= 4

-----------------------------------------------------------------------------
\* The variables of the framework hold what they may.
TypeOK == ImportsTypeOK /\ BackendsTypeOK /\ MappersTypeOK
=============================================================================

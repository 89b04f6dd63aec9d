------------------------------- MODULE Mappers -------------------------------
(***************************************************************************)
(* The classes of mappers (connector/unit/mapper.py): how a class gathers  *)
(* what its bases and itself declare, and which mappings are applied when  *)
(* some fields of a record have changed.  The methods of a class do not    *)
(* influence each other, so there is one mapping method here.              *)
(*                                                                         *)
(* A class without a declaration of its own shares the definition of its   *)
(* first base, a reference to the same set.  A definition is named after   *)
(* the class that declared it.                                             *)
(***************************************************************************)
EXTENDS Naturals, Sequences

CONSTANTS
  Mapper,       \* the classes
  NoMapper,
  Field         \* the fields of the source

ASSUME MappersAssumption == NoMapper \notin Mapper

VARIABLES
  class,        \* what each class was written as, or NoClass
  ancestors,    \* the classes it comes from, itself included
  definition,   \* the class whose definition of the method a class uses, or NoMapper
  changedBy,    \* the set in the definition of each class
  fields,       \* _changed_by_fields of each class
  merged        \* history: definitions whose set other bases have changed

mappersVars == <<class, ancestors, definition, changedBy, fields, merged>>

\* mapping: is there a method decorated with @mapping, @changed_by(own) and, if
\* create, @only_create?
ClassRow == [bases : Seq(Mapper), direct : SUBSET Field,
             mapping : BOOLEAN, own : SUBSET Field, create : BOOLEAN, defined : BOOLEAN]

NoClass == [bases |-> <<>>, direct |-> {}, mapping |-> FALSE, own |-> {}, create |-> FALSE,
            defined |-> FALSE]

MappersTypeOK ==
  /\ class \in [Mapper -> ClassRow]
  /\ ancestors \in [Mapper -> SUBSET Mapper]
  /\ definition \in [Mapper -> Mapper \cup {NoMapper}]
  /\ {changedBy, fields} \subseteq [Mapper -> SUBSET Field]
  /\ merged \subseteq Mapper

MappersInit ==
  /\ class = [c \in Mapper |-> NoClass]
  /\ ancestors = [c \in Mapper |-> {}]
  /\ definition = [c \in Mapper |-> NoMapper]
  /\ changedBy = [c \in Mapper |-> {}]
  /\ fields = [c \in Mapper |-> {}]
  /\ merged = {}

-----------------------------------------------------------------------------
(* The metaclass *)

\* The bases that have the method, by their places
Inherited(bases) == {k \in DOMAIN bases : definition[bases[k]] # NoMapper}

\* The definition of the first of them
FirstOf(bases) ==
  definition[bases[CHOOSE k \in Inherited(bases) : \A n \in Inherited(bases) : k <= n]]

\* As a bug would have it: the first base that has the method hides the others.
FirstBaseOnly(bases) == changedBy

\* __new__: the sets of the other bases are added to the set of the first one, in
\* place.
Merged(bases) ==
  IF Inherited(bases) = {} THEN changedBy
  ELSE [changedBy EXCEPT ![FirstOf(bases)] =
          UNION {changedBy[definition[bases[k]]] : k \in Inherited(bases)}]

\* Python refuses a base before one that comes from it.
Ordered(bases) ==
  \A k, n \in DOMAIN bases : k < n => bases[k] \notin ancestors[bases[n]]

\* __new__, then __init__
DefineClass(c, new) ==
  LET from == IF Inherited(new.bases) = {} THEN NoMapper ELSE FirstOf(new.bases)
      after == Merged(new.bases)
      own == new.own \cup (IF from = NoMapper THEN {} ELSE after[from])
      source == IF new.mapping THEN c ELSE from
  IN  /\ ~class[c].defined
      /\ \A k \in DOMAIN new.bases : class[new.bases[k]].defined
      /\ Ordered(new.bases)
      /\ class' = [class EXCEPT ![c] = [new EXCEPT !.defined = TRUE]]
      /\ ancestors' = [ancestors EXCEPT ![c] =
           {c} \cup UNION {ancestors[new.bases[k]] : k \in DOMAIN new.bases}]
      /\ definition' = [definition EXCEPT ![c] = source]
      /\ changedBy' = IF new.mapping THEN [after EXCEPT ![c] = own] ELSE after
      /\ fields' = [fields EXCEPT ![c] =
           new.direct \cup (IF source = NoMapper THEN {} ELSE changedBy'[source])
             \cup UNION {fields[new.bases[k]] : k \in DOMAIN new.bases}]
      /\ merged' = IF after = changedBy THEN merged ELSE merged \cup {from}

-----------------------------------------------------------------------------
(* Mapping a record *)

\* _apply_with_options: is the method called, when F are the fields that changed,
\* or {} when all are mapped?
Applied(c, F, forCreate) ==
  LET d == definition[c]
  IN  /\ d # NoMapper
      /\ F = {} \/ changedBy[d] = {} \/ changedBy[d] \cap F # {}
      /\ class[d].create => forCreate

-----------------------------------------------------------------------------
Bases == UNION {[1 .. n -> Mapper] : n \in 0 .. 2}

Written == [bases : Bases, direct : SUBSET Field, mapping : BOOLEAN,
            own : SUBSET Field, create : BOOLEAN, defined : {FALSE}]

\* Only a decorated method declares something, and Python refuses a base twice.
MayWrite(new) ==
  /\ ~new.mapping => new.own = {} /\ ~new.create
  /\ Len(new.bases) = 2 => new.bases[1] # new.bases[2]

MappersNext == \E c \in Mapper, new \in Written : MayWrite(new) /\ DefineClass(c, new)

MappersSpec == MappersInit /\ [][MappersNext]_mappersVars

-----------------------------------------------------------------------------
(* Properties *)

\* What the class and those it comes from declare
Declared(c) == UNION {class[a].own : a \in ancestors[c]}

\* When a field changes that a class or one it comes from declares, the change is
\* known to concern the class, and its method is called, unless it is for new
\* records only; and a method for which none is declared is called for every
\* change, unless the set of an ancestor was changed by a class with several bases.
ChangedFieldIsMapped ==
  \A c \in Mapper, F \in SUBSET Field \ {{}} :
    LET always == definition[c] # NoMapper /\ Declared(c) = {} /\ ancestors[c] \cap merged = {}
        toUpdate == definition[c] # NoMapper => ~class[definition[c]].create
    IN  /\ F \cap Declared(c) # {} => fields[c] \cap F # {}
        /\ (F \cap Declared(c) # {} \/ always) /\ toUpdate => Applied(c, F, FALSE)
=============================================================================

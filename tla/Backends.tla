------------------------------ MODULE Backends ------------------------------
(***************************************************************************)
(* The registries of classes of the connector's backends                   *)
(* (connector/backend.py).  While the modules of the server are imported,  *)
(* classes are registered in a backend, some of them to replace others; a  *)
(* backend has a parent, which is asked when the backend has nothing to    *)
(* offer.  The same registries serve all databases, in which different     *)
(* modules are installed.                                                  *)
(*                                                                         *)
(* Whether a class is usable, that is, its module is installed and it is   *)
(* of the class and for the model that is asked for, is a set of classes   *)
(* here.  An entry of replaced_by points to a later entry; it is kept as   *)
(* its inverse, the set of the indices an entry replaces.                  *)
(***************************************************************************)
EXTENDS Naturals, Sequences, FiniteSetsExt

CONSTANTS
  Backend, Class,
  Parent,         \* the parent of a backend, or NoBackend
  NoBackend,
  EntryBound      \* a backend has at most that many entries

ASSUME BackendsAssumption ==
  /\ NoBackend \notin Backend
  /\ Parent \in [Backend -> Backend \cup {NoBackend}]
  /\ EntryBound \in Nat

VARIABLES
  entries,      \* the entries of each backend, in the order they were made
  replacement   \* history: <<b, new, old>> when new was registered to replace old

backendsVars == <<entries, replacement>>

\* listed: is it in _class_entries, or only in the replaced_by of another one?
Entry == [cls : Class, replaces : SUBSET (1 .. EntryBound), listed : BOOLEAN]

BackendsTypeOK ==
  /\ \A b \in Backend : \A i \in DOMAIN entries[b] : entries[b][i] \in Entry
  /\ replacement \subseteq Backend \X Class \X Class

BackendsInit ==
  /\ entries = [b \in Backend |-> <<>>]
  /\ replacement = {}

-----------------------------------------------------------------------------
\* The listed entries of a class
EntriesOf(b, cls) == {i \in DOMAIN entries[b] : entries[b][i].listed /\ entries[b][i].cls = cls}

\* register_class.  Of the classes to replace, each is replaced in its first
\* entry; at one that is not registered, an error leaves the others replaced by an
\* entry that is not listed.
RegisterClass(b, cls, replacing) ==
  LET known(k) == EntriesOf(b, replacing[k]) # {}
      replaced == {k \in DOMAIN replacing : \A n \in 1 .. k : known(n)}
      done == replaced = DOMAIN replacing
      entry == [cls |-> cls, listed |-> done,
                replaces |-> {Min(EntriesOf(b, replacing[k])) : k \in replaced}]
  IN  /\ Len(entries[b]) < EntryBound
      /\ replacing # <<cls>>
      /\ done \/ replaced # {}
      /\ entries' = [entries EXCEPT ![b] = Append(@, entry)]
      /\ replacement' = replacement \cup {<<b, cls, replacing[k]>> : k \in replaced}

-----------------------------------------------------------------------------
(* _get_classes *)

\* As a bug would have it: an entry that is replaced is never a candidate.
FollowEntries(es, usable) ==
  {es[i].cls : i \in {k \in DOMAIN es : /\ es[k].cls \in usable
                                        /\ \A n \in DOMAIN es : k \notin es[n].replaces}}

\* follow_replacing, of _class_entries.  The candidates for an entry are those for
\* the entries that replace it, or its own class when there are none.
FollowReplacing(es, usable) ==
  LET candidates[i \in DOMAIN es] ==
        LET replacings == UNION {candidates[k] : k \in {n \in DOMAIN es : i \in es[n].replaces}}
        IN  IF replacings # {} THEN replacings ELSE {es[i].cls} \cap usable
  IN  UNION {candidates[i] : i \in {k \in DOMAIN es : es[k].listed}}

\* The backend itself, then its parent
GetClasses(b, usable) ==
  LET own == FollowReplacing(entries[b], usable)
  IN  IF own = {} /\ Parent[b] # NoBackend
      THEN FollowReplacing(entries[Parent[b]], usable)
      ELSE own

-----------------------------------------------------------------------------
BackendsNext ==
  \E b \in Backend, cls \in Class :
    \/ RegisterClass(b, cls, <<>>)
    \/ \E old \in Class : RegisterClass(b, cls, <<old>>)
    \/ \E old, other \in Class : RegisterClass(b, cls, <<old, other>>)

BackendsSpec == BackendsInit /\ [][BackendsNext]_backendsVars

-----------------------------------------------------------------------------
(* Properties *)

Listed(b, cls) == EntriesOf(b, cls) # {}

\* Only the first entry of a class is replaced.
RegisteredTwice(b, cls) == Cardinality({i \in DOMAIN entries[b] : entries[b][i].cls = cls}) > 1

\* Does new replace old, or a replacement of it, each registered only once?
Replaces(b, new, old) ==
  LET direct == {e \in Class \X Class : /\ <<b, e[1], e[2]>> \in replacement
                                        /\ ~RegisteredTwice(b, e[2])}
  IN  \A S \in SUBSET Class :
        old \in S /\ (\A e \in direct : e[2] \in S => e[1] \in S) => new \in S

\* Whatever is installed and asked for: where something usable is registered, a
\* class is found; and a class is not found next to one that replaces it, unless it
\* was registered twice.
ReplacedNotChosen ==
  \A b \in Backend, usable \in SUBSET Class :
    LET chosen == GetClasses(b, usable)
    IN  /\ (\E cls \in usable : Listed(b, cls)) => chosen # {}
        /\ \A old \in chosen, new \in usable :
             new # old /\ Listed(b, old) => ~Replaces(b, new, old)
=============================================================================

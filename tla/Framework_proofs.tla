-------------------------- MODULE Framework_proofs --------------------------
(***************************************************************************)
(* Proofs about the imports, the registries of the backends and the        *)
(* classes of mappers, for any jobs, records, backends and classes.        *)
(*                                                                         *)
(* Imports: the lock of a record stays with the job that created it until  *)
(* that job's transaction ends, so that two jobs can create a record only  *)
(* when the second began before the first one committed and locked the     *)
(* record after.                                                           *)
(*                                                                         *)
(* Mappers: what a class declares is in its own set and in the one of the  *)
(* definition it uses; sets that are shared only grow, and those of a      *)
(* class that declares nothing stay empty unless they are merged.          *)
(*                                                                         *)
(* Backends: an entry is replaced by later ones only, so that the          *)
(* candidates of the entries can be found from the last one on; where an   *)
(* entry of a class is replaced by a usable one, its candidates are other  *)
(* classes.                                                                *)
(***************************************************************************)
EXTENDS MCFramework, FiniteSetTheorems, SequenceTheorems, WellFoundedInduction, TLAPS

-----------------------------------------------------------------------------
\* A nonempty set of natural numbers has a least element.
LEMMA LeastNat ==
  ASSUME NEW T \in SUBSET Nat, T # {}
  PROVE  \E n \in T : \A m \in T : n <= m
<1>1. PICK n \in T : \A m \in T : ~(<<m, n>> \in OpToRel(<, Nat))
  BY WFMin, NatLessThanWellFounded
<1>2. \A m \in T : ~(m < n)
  BY <1>1 DEF OpToRel
<1> QED BY <1>2

-----------------------------------------------------------------------------
(* Imports *)

\* A job that runs was tried.
Tried == \A j \in Job : job[j] = "running" => retry[j] > 0

\* A job that has created a record has its lock, and nobody created it before, or
\* only where the job could not see it.
Alone ==
  \A j \in Job, r \in Record :
    job[j] = "running" /\ r \in created[j] =>
      /\ lock[r] = j
      /\ r \notin late => bindings[r] = 0

ImportsInv == ImportsTypeOK /\ Tried /\ Alone /\ ImportedOnce

-----------------------------------------------------------------------------
LEMMA Constants ==
  /\ NoJob \notin Job
  /\ Needs \in [Job -> Seq(Record)]
  /\ MaxRetries \in Nat
BY ImportsAssumption

LEMMA InitInv == ImportsInit => ImportsInv
BY Constants DEF ImportsInit, ImportsInv, ImportsTypeOK, Tried, Alone, ImportedOnce

\* What a job wants is a record.
LEMMA WantedIsRecord ==
  ASSUME ImportsTypeOK, NEW j \in Job, Unfinished(j)
  PROVE  Wanted(j) \in Record /\ job[j] = "running"
<1>1. pos[j] + 1 \in 1 .. Len(Needs[j]) /\ Needs[j] \in Seq(Record)
  BY Constants DEF ImportsTypeOK, Unfinished
<1> QED BY <1>1 DEF Wanted, Unfinished

LEMMA ReleasedTyped ==
  ASSUME ImportsTypeOK, NEW j \in Job
  PROVE  Released(j) \in [Record -> Job \cup {NoJob}]
BY DEF ImportsTypeOK, Released

\* A rollback ends what a transaction created and locked, and nothing else.
LEMMA RollbackInv ==
  ASSUME ImportsInv, NEW j \in Job, NEW s \in {"pending", "failed"}, Rollback(j, s),
         retry' \in [Job -> Nat], \A k \in Job : k # j => retry'[k] = retry[k],
         offline' \subseteq Job
  PROVE  ImportsInv'
<1> USE Constants
<1>1. ImportsTypeOK'
  BY ReleasedTyped DEF ImportsInv, ImportsTypeOK, Rollback, transaction
<1>2. job' = [job EXCEPT ![j] = s] /\ job \in [Job -> {"pending", "running", "done", "failed"}]
  BY DEF Rollback, ImportsInv, ImportsTypeOK
<1>3. Tried'
  BY <1>2 DEF ImportsInv, Tried
<1>4. Alone'
  BY <1>2 DEF ImportsInv, Alone, Rollback, transaction, Released
<1>5. ImportedOnce'
  BY DEF ImportsInv, ImportedOnce, Rollback
<1> QED BY <1>1, <1>3, <1>4, <1>5 DEF ImportsInv

LEMMA BeginInv == ASSUME ImportsInv, NEW j \in Job, Begin(j) PROVE ImportsInv'
<1> USE Constants
<1>1. ImportsTypeOK'
  BY DEF ImportsInv, ImportsTypeOK, Begin
<1>2. Tried'
  BY DEF ImportsInv, ImportsTypeOK, Tried, Begin
<1>3. Alone'
  BY DEF ImportsInv, ImportsTypeOK, Alone, Begin
<1>4. ImportedOnce'
  BY DEF ImportsInv, ImportedOnce, Begin
<1> QED BY <1>1, <1>2, <1>3, <1>4 DEF ImportsInv

\* A record is created under its lock, by nobody else who runs.
LEMMA CreateInv == ASSUME ImportsInv, NEW j \in Job, Create(j) PROVE ImportsInv'
<1> USE Constants
<1> DEFINE w == Wanted(j)
<1>0. w \in Record /\ job[j] = "running" /\ lock[w] \in {j, NoJob}
  BY WantedIsRecord DEF ImportsInv, Create, Acquired
<1>1. /\ lock' = [lock EXCEPT ![w] = j]
      /\ created' = [created EXCEPT ![j] = @ \cup {w}]
      /\ pos' = [pos EXCEPT ![j] = @ + 1]
      /\ late' = IF bindings[w] > 0 THEN late \cup {w} ELSE late
      /\ UNCHANGED <<job, retry, bindings, seen, changed, updated, offline>>
  BY DEF Create
<1> HIDE DEF w
<1>2. ImportsTypeOK'
  BY <1>0, <1>1 DEF ImportsInv, ImportsTypeOK
<1>3. Tried'
  BY <1>1 DEF ImportsInv, Tried
<1>4. Alone'
  BY <1>0, <1>1 DEF ImportsInv, ImportsTypeOK, Alone
<1>5. ImportedOnce'
  BY <1>0, <1>1 DEF ImportsInv, ImportsTypeOK, ImportedOnce
<1> QED BY <1>2, <1>3, <1>4, <1>5 DEF ImportsInv

LEMMA UpdateInv == ASSUME ImportsInv, NEW j \in Job, Update(j) PROVE ImportsInv'
<1> USE Constants
<1> DEFINE w == Wanted(j)
<1>0. w \in Record /\ job[j] = "running" /\ lock[w] \in {j, NoJob}
  BY WantedIsRecord DEF ImportsInv, Update, Acquired
<1>1. /\ lock' = [lock EXCEPT ![w] = j]
      /\ updated' = [updated EXCEPT ![j] = @ \cup ({w} \ created[j])]
      /\ pos' = [pos EXCEPT ![j] = @ + 1]
      /\ UNCHANGED <<job, retry, bindings, seen, changed, created, late, offline>>
  BY DEF Update
<1> HIDE DEF w
<1>2. ImportsTypeOK'
  BY <1>0, <1>1 DEF ImportsInv, ImportsTypeOK
<1>3. Tried'
  BY <1>1 DEF ImportsInv, Tried
<1>4. Alone'
  BY <1>0, <1>1 DEF ImportsInv, ImportsTypeOK, Alone
<1>5. ImportedOnce'
  BY <1>1 DEF ImportsInv, ImportedOnce
<1> QED BY <1>2, <1>3, <1>4, <1>5 DEF ImportsInv

\* What a job commits was created by nobody before it.
LEMMA CommitInv == ASSUME ImportsInv, NEW j \in Job, Commit(j) PROVE ImportsInv'
<1> USE Constants
<1>1. /\ job' = [job EXCEPT ![j] = "done"] /\ job[j] = "running"
      /\ bindings' = [r \in Record |-> bindings[r] + (IF r \in created[j] THEN 1 ELSE 0)]
      /\ changed' = [k \in Job |-> changed[k] \cup updated[j]]
      /\ lock' = Released(j)
      /\ UNCHANGED <<retry, seen, created, updated, pos, late, offline>>
  BY DEF Commit
<1>2. ImportsTypeOK'
  BY <1>1, ReleasedTyped DEF ImportsInv, ImportsTypeOK
<1>3. Tried'
  BY <1>1 DEF ImportsInv, ImportsTypeOK, Tried
<1>4. Alone'
  BY <1>1 DEF ImportsInv, ImportsTypeOK, Alone, Released
<1>5. ImportedOnce'
  BY <1>1 DEF ImportsInv, ImportsTypeOK, Alone, ImportedOnce
<1> QED BY <1>2, <1>3, <1>4, <1>5 DEF ImportsInv

\* A step preserves the invariant.
LEMMA StepInv == ASSUME ImportsInv, [ImportsNext]_importsVars PROVE ImportsInv'
<1> USE Constants
<1>1. ASSUME NEW j \in Job, TwoBindings(j) \/ Conflict(j) \/ LockOrRetry(j) \/ NetworkError(j)
      PROVE  ImportsInv'
  <2>1. retry \in [Job -> Nat] /\ (job[j] = "running" => retry[j] > 0)
    BY DEF ImportsInv, ImportsTypeOK, Tried
  <2>2. offline' \subseteq Job
    BY <1>1 DEF ImportsInv, ImportsTypeOK, TwoBindings, Conflict, LockOrRetry, NetworkError
  <2>3. retry' \in [Job -> Nat] /\ \A k \in Job : k # j => retry'[k] = retry[k]
    BY <1>1, <2>1
       DEF TwoBindings, Conflict, LockOrRetry, NetworkError, Unfinished
  <2>4. PICK s \in {"pending", "failed"} : Rollback(j, s)
    BY <1>1 DEF TwoBindings, Conflict, LockOrRetry, NetworkError, Limited
  <2> QED BY <2>2, <2>3, <2>4, RollbackInv
<1>2. CASE UNCHANGED importsVars
  BY <1>2 DEF importsVars, ImportsInv, ImportsTypeOK, Tried, Alone, ImportedOnce
<1> QED
  BY <1>1, <1>2, BeginInv, CreateInv, UpdateInv, CommitInv DEF ImportsNext, ImportStep

-----------------------------------------------------------------------------
(* The theorems *)

\* The invariant of the imports
THEOREM ImportsInvHolds == ImportsSpec => []ImportsInv
BY InitInv, StepInv, PTL DEF ImportsSpec

\* The variables of the imports keep their types.
THEOREM ImportsTypeCorrect == ImportsSpec => []ImportsTypeOK
<1>1. ImportsInv => ImportsTypeOK
  BY DEF ImportsInv
<1> QED BY <1>1, ImportsInvHolds, PTL

\* No record is bound twice, unless its creator was out of date (ImportedOnce).
THEOREM ImportedOnceHolds == ImportsSpec => []ImportedOnce
<1>1. ImportsInv => ImportedOnce
  BY DEF ImportsInv
<1> QED BY <1>1, ImportsInvHolds, PTL

-----------------------------------------------------------------------------
(* Mappers *)

\* A class that is not defined has nothing; one that is has its bases' ancestors,
\* and uses the definition of one of its ancestors.
Defined ==
  \A c \in Mapper :
    /\ ~class[c].defined => ancestors[c] = {} /\ definition[c] = NoMapper
    /\ class[c].defined => c \in ancestors[c]
    /\ \A a \in ancestors[c] : class[a].defined
    /\ definition[c] # NoMapper => definition[c] \in ancestors[c]

\* What a class declares is known of it, and to the definition it uses; and that
\* definition declares nothing more, unless an ancestor's was changed.
Gathered ==
  \A c \in Mapper :
    /\ Declared(c) \subseteq fields[c]
    /\ Declared(c) \subseteq IF definition[c] = NoMapper THEN {} ELSE changedBy[definition[c]]
    /\ definition[c] # NoMapper /\ Declared(c) = {} /\ ancestors[c] \cap merged = {} =>
         changedBy[definition[c]] = {}

MappersInv == MappersTypeOK /\ Defined /\ Gathered

LEMMA MappersInitInv == MappersInit => MappersInv
<1> SUFFICES ASSUME MappersInit PROVE MappersInv
  OBVIOUS
<1>1. NoClass \in ClassRow /\ ~NoClass.defined
  BY DEF NoClass, ClassRow
<1>2. MappersTypeOK
  BY <1>1 DEF MappersInit, MappersTypeOK
<1>3. Defined
  BY <1>1 DEF MappersInit, Defined
<1>4. Gathered
  BY DEF MappersInit, Gathered, Declared
<1> QED BY <1>2, <1>3, <1>4 DEF MappersInv

LEMMA WrittenTyped ==
  ASSUME NEW new \in Written
  PROVE  /\ new.bases \in Seq(Mapper)
         /\ \A k \in DOMAIN new.bases : new.bases[k] \in Mapper
         /\ new.direct \subseteq Field /\ new.own \subseteq Field
         /\ [new EXCEPT !.defined = TRUE] \in ClassRow
         /\ [new EXCEPT !.defined = TRUE].defined
         /\ [new EXCEPT !.defined = TRUE].own = new.own
<1>1. ASSUME NEW s \in Bases PROVE s \in Seq(Mapper)
  <2>1. PICK n \in 0 .. 2 : s \in [1 .. n -> Mapper]
    BY <1>1 DEF Bases
  <2> QED BY <2>1
<1>2. new.bases \in Seq(Mapper) /\ new.direct \subseteq Field /\ new.own \subseteq Field
  BY <1>1 DEF Written
<1>3. [new EXCEPT !.defined = TRUE] \in ClassRow
  BY <1>1 DEF Written, ClassRow
<1>4. [new EXCEPT !.defined = TRUE].defined /\ [new EXCEPT !.defined = TRUE].own = new.own
  BY DEF Written
<1> QED BY <1>2, <1>3, <1>4

\* The definition of the first base that has the method is that of a base.
LEMMA FirstIsInherited ==
  ASSUME MappersTypeOK, NEW new \in Written, Inherited(new.bases) # {}
  PROVE  \E k \in Inherited(new.bases) : FirstOf(new.bases) = definition[new.bases[k]]
<1> DEFINE I == Inherited(new.bases)
<1>1. DOMAIN new.bases \subseteq Nat
  <2>1. new.bases \in Seq(Mapper)
    BY WrittenTyped
  <2>2. DOMAIN new.bases = 1 .. Len(new.bases) /\ Len(new.bases) \in Nat
    BY <2>1
  <2> QED BY <2>2
<1>2. I \in SUBSET Nat
  BY <1>1 DEF Inherited
<1>3. \E k \in I : \A n \in I : k <= n
  BY <1>2, LeastNat
<1>4. (CHOOSE k \in I : \A n \in I : k <= n) \in I
  <2> HIDE DEF I
  <2> QED BY <1>3
<1> QED BY <1>4 DEF FirstOf

\* The sets only grow, but for the one that the class itself makes.
LEMMA MappersStepInv == ASSUME MappersInv, [MappersNext]_mappersVars PROVE MappersInv'
<1>1. CASE UNCHANGED mappersVars
  BY <1>1 DEF mappersVars, MappersInv, MappersTypeOK, Defined, Gathered, Declared
<1>2. ASSUME NEW c \in Mapper, NEW new \in Written, MayWrite(new), DefineClass(c, new)
      PROVE  MappersInv'
  <2> DEFINE I == Inherited(new.bases)
             from == IF I = {} THEN NoMapper ELSE FirstOf(new.bases)
             after == Merged(new.bases)
             own == new.own \cup (IF from = NoMapper THEN {} ELSE after[from])
             source == IF new.mapping THEN c ELSE from
             base(k) == new.bases[k]
  <2>1. /\ new.direct \subseteq Field /\ new.own \subseteq Field
        /\ ~new.mapping => new.own = {}
        /\ \A k \in DOMAIN new.bases : base(k) \in Mapper
    BY <1>2, WrittenTyped DEF MayWrite
  <2>2. /\ changedBy \in [Mapper -> SUBSET Field] /\ fields \in [Mapper -> SUBSET Field]
        /\ definition \in [Mapper -> Mapper \cup {NoMapper}]
    BY DEF MappersInv, MappersTypeOK
  <2>3. /\ I \subseteq DOMAIN new.bases
        /\ \A k \in DOMAIN new.bases : k \in I <=> definition[base(k)] # NoMapper
    BY DEF Inherited
  <2>4. I # {} => \E k \in I : from = definition[base(k)]
    BY FirstIsInherited DEF MappersInv
  <2>5. from # NoMapper <=> I # {}
    BY <2>3, <2>4
  <2>6. /\ \A k \in DOMAIN new.bases : definition[base(k)] \in Mapper \cup {NoMapper}
        /\ from # NoMapper => from \in Mapper
    BY <2>1, <2>2, <2>3, <2>4, <2>5
  <2>7. /\ I = {} => after = changedBy
        /\ I # {} => after = [changedBy EXCEPT ![from] =
                                UNION {changedBy[definition[base(k)]] : k \in I}]
    BY DEF Merged
  <2>8. after \in [Mapper -> SUBSET Field]
    <3>1. CASE I = {}
      BY <2>2, <2>7, <3>1
    <3>2. CASE I # {}
      <4>1. \A k \in I : changedBy[definition[base(k)]] \subseteq Field
        BY <2>2, <2>3, <2>6
      <4>2. UNION {changedBy[definition[base(k)]] : k \in I} \in SUBSET Field
        BY <4>1
      <4> HIDE DEF I, from, base
      <4> QED BY <2>2, <2>7, <3>2, <4>2
    <3> HIDE DEF I
    <3> QED BY <3>1, <3>2
  <2>9. /\ from # NoMapper => \A k \in I : changedBy[definition[base(k)]] \subseteq after[from]
        /\ \A d \in Mapper : changedBy[d] \subseteq after[d]
        /\ \A d \in Mapper : d # from => after[d] = changedBy[d]
    <3>1. CASE I = {}
      BY <2>5, <2>7, <3>1
    <3>2. CASE I # {}
      <4>1. after[from] = UNION {changedBy[definition[base(k)]] : k \in I}
        BY <2>2, <2>5, <2>6, <2>7, <3>2
      <4>2. \A k \in I : changedBy[definition[base(k)]] \subseteq after[from]
        BY <4>1
      <4>3. changedBy[from] \subseteq after[from]
        BY <2>4, <3>2, <4>2
      <4>4. \A d \in Mapper : d # from => after[d] = changedBy[d]
        BY <2>2, <2>7, <3>2
      <4> QED BY <4>2, <4>3, <4>4
    <3> HIDE DEF I
    <3> QED BY <3>1, <3>2
  <2> HIDE DEF I, from, after
  <2>10. /\ ~class[c].defined /\ \A k \in DOMAIN new.bases : class[base(k)].defined
         /\ class' = [class EXCEPT ![c] = [new EXCEPT !.defined = TRUE]]
         /\ ancestors' = [ancestors EXCEPT ![c] =
              {c} \cup UNION {ancestors[base(k)] : k \in DOMAIN new.bases}]
         /\ definition' = [definition EXCEPT ![c] = source]
         /\ changedBy' = IF new.mapping THEN [after EXCEPT ![c] = own] ELSE after
         /\ fields' = [fields EXCEPT ![c] =
              new.direct \cup (IF source = NoMapper THEN {} ELSE changedBy'[source])
                \cup UNION {fields[base(k)] : k \in DOMAIN new.bases}]
         /\ merged' = IF after = changedBy THEN merged ELSE merged \cup {from}
    BY <1>2 DEF DefineClass, I, from, after
  <2>11. own \subseteq Field /\ (new.mapping => source = c) /\ (~new.mapping => source = from)
    BY <2>1, <2>6, <2>8
  <2>12. changedBy' \in [Mapper -> SUBSET Field]
    BY <2>8, <2>10, <2>11
  <2>13. source \in Mapper \cup {NoMapper}
    BY <2>5, <2>6
  <2>14. MappersTypeOK'
    <3>1. class' \in [Mapper -> ClassRow]
      BY <2>10, WrittenTyped DEF MappersInv, MappersTypeOK
    <3>2. ancestors' \in [Mapper -> SUBSET Mapper]
      <4>1. UNION {ancestors[base(k)] : k \in DOMAIN new.bases} \subseteq Mapper
        BY <2>1 DEF MappersInv, MappersTypeOK
      <4> QED BY <2>10, <4>1 DEF MappersInv, MappersTypeOK
    <3>3. definition' \in [Mapper -> Mapper \cup {NoMapper}]
      BY <2>2, <2>10, <2>13
    <3>4. fields' \in [Mapper -> SUBSET Field]
      <4>1. UNION {fields[base(k)] : k \in DOMAIN new.bases} \subseteq Field
        BY <2>1, <2>2
      <4>2. (IF source = NoMapper THEN {} ELSE changedBy'[source]) \subseteq Field
        BY <2>12, <2>13
      <4> QED BY <2>1, <2>2, <2>10, <4>1, <4>2
    <3>5. merged' \subseteq Mapper
      <4>1. after # changedBy => from \in Mapper
        BY <2>5, <2>6, <2>7
      <4> QED BY <2>10, <4>1 DEF MappersInv, MappersTypeOK
    <3> QED BY <2>12, <3>1, <3>2, <3>3, <3>4, <3>5 DEF MappersTypeOK
  \* What the other classes were stays so.
  <2>15. /\ class \in [Mapper -> ClassRow] /\ ancestors \in [Mapper -> SUBSET Mapper]
         /\ merged \subseteq Mapper
    BY DEF MappersInv, MappersTypeOK
  <2>16. /\ class'[c].defined /\ class'[c].own = new.own
         /\ \A d \in Mapper : d # c => class'[d] = class[d]
         /\ ancestors'[c] = {c} \cup UNION {ancestors[base(k)] : k \in DOMAIN new.bases}
         /\ \A d \in Mapper : d # c => ancestors'[d] = ancestors[d]
         /\ definition'[c] = source
         /\ \A d \in Mapper : d # c => definition'[d] = definition[d]
         /\ fields'[c] = new.direct \cup (IF source = NoMapper THEN {} ELSE changedBy'[source])
                           \cup UNION {fields[base(k)] : k \in DOMAIN new.bases}
         /\ \A d \in Mapper : d # c => fields'[d] = fields[d]
         /\ changedBy'[c] = IF new.mapping THEN own ELSE after[c]
         /\ \A d \in Mapper : d # c => changedBy'[d] = after[d]
    <3>1. /\ class'[c].defined /\ class'[c].own = new.own
          /\ \A d \in Mapper : d # c => class'[d] = class[d]
      <4>1. [new EXCEPT !.defined = TRUE].defined /\ [new EXCEPT !.defined = TRUE].own = new.own
        BY WrittenTyped
      <4> QED BY <2>10, <2>15, <4>1
    <3> QED BY <2>2, <2>8, <2>10, <2>15, <3>1
  <2>17. \A d \in Mapper : /\ c \notin ancestors[d]
                           /\ definition[d] # c
    <3>1. c # NoMapper
      BY MappersAssumption
    <3> QED BY <2>10, <3>1 DEF MappersInv, Defined
  <2>18. Defined'
    <3>1. ASSUME NEW d \in Mapper, d # c
          PROVE  /\ ~class'[d].defined => ancestors'[d] = {} /\ definition'[d] = NoMapper
                 /\ class'[d].defined => d \in ancestors'[d]
                 /\ \A a \in ancestors'[d] : class'[a].defined
                 /\ definition'[d] # NoMapper => definition'[d] \in ancestors'[d]
      BY <2>15, <2>16, <2>17, <3>1 DEF MappersInv, Defined
    <3>2. c \in ancestors'[c] /\ \A a \in ancestors'[c] : class'[a].defined
      <4>1. ASSUME NEW k \in DOMAIN new.bases, NEW a \in ancestors[base(k)]
            PROVE  class'[a].defined
        BY <2>1, <2>15, <2>16, <2>17 DEF MappersInv, Defined
      <4> QED BY <2>16, <4>1
    <3>3. source # NoMapper => source \in ancestors'[c]
      <4>1. ASSUME ~new.mapping, from # NoMapper PROVE from \in ancestors'[c]
        <5>1. PICK k \in I : from = definition[base(k)]
          BY <2>4, <2>5, <4>1
        <5>2. from \in ancestors[base(k)]
          BY <2>1, <2>3, <4>1, <5>1 DEF MappersInv, Defined
        <5> QED BY <2>3, <2>16, <5>1, <5>2
      <4> QED BY <2>11, <2>16, <4>1
    <3> QED BY <2>16, <3>1, <3>2, <3>3 DEF Defined
  <2>19. \A d \in Mapper : d # c => Declared(d)' = Declared(d)
    BY <2>15, <2>16, <2>17 DEF Declared
  <2>20. Declared(c)' = new.own \cup UNION {Declared(base(k)) : k \in DOMAIN new.bases}
    <3>1. ASSUME NEW k \in DOMAIN new.bases, NEW a \in ancestors[base(k)]
          PROVE  class'[a].own = class[a].own
      BY <2>1, <2>15, <2>16, <2>17
    <3>2. c \in ancestors'[c] /\ class'[c].own = new.own
      BY <2>16
    <3> HIDE DEF base
    <3>3. ASSUME NEW x PROVE x \in Declared(c)' <=>
                               \/ x \in new.own
                               \/ \E k \in DOMAIN new.bases : x \in Declared(base(k))
      BY <2>16, <3>1, <3>2 DEF Declared
    <3> QED BY <3>3
  <2>21. ASSUME NEW k \in DOMAIN new.bases
         PROVE  /\ Declared(base(k)) \subseteq fields[base(k)]
                /\ k \notin I => Declared(base(k)) = {}
                /\ k \in I => Declared(base(k)) \subseteq after[from]
    BY <2>1, <2>3, <2>5, <2>9 DEF MappersInv, Gathered
  <2>22. Gathered'
    <3>1. ASSUME NEW d \in Mapper, d # c
          PROVE  /\ Declared(d)' \subseteq fields'[d]
                 /\ Declared(d)' \subseteq IF definition'[d] = NoMapper THEN {}
                                           ELSE changedBy'[definition'[d]]
                 /\ definition'[d] # NoMapper /\ Declared(d)' = {}
                    /\ ancestors'[d] \cap merged' = {} => changedBy'[definition'[d]] = {}
      <4>1. definition[d] # NoMapper =>
              /\ definition[d] \in Mapper /\ definition[d] # c
              /\ changedBy'[definition[d]] = after[definition[d]]
              /\ definition[d] \in ancestors[d]
        BY <2>2, <2>16, <2>17 DEF MappersInv, Defined
      <4>2. /\ Declared(d) \subseteq fields[d]
            /\ Declared(d) \subseteq IF definition[d] = NoMapper THEN {} ELSE changedBy[definition[d]]
            /\ definition[d] # NoMapper /\ Declared(d) = {} /\ ancestors[d] \cap merged = {} =>
                 changedBy[definition[d]] = {}
        BY DEF MappersInv, Gathered
      <4>3. Declared(d)' \subseteq fields'[d]
        BY <2>16, <2>19, <3>1, <4>2
      <4>4. Declared(d)' \subseteq IF definition'[d] = NoMapper THEN {}
                                  ELSE changedBy'[definition'[d]]
        BY <2>9, <2>16, <2>19, <3>1, <4>1, <4>2
      <4>5. ASSUME definition'[d] # NoMapper, Declared(d)' = {}, ancestors'[d] \cap merged' = {}
            PROVE  changedBy'[definition'[d]] = {}
        <5>1. changedBy[definition[d]] = {} /\ definition[d] # NoMapper
          BY <2>10, <2>16, <2>19, <3>1, <4>2, <4>5
        <5>2. after # changedBy => definition[d] # from
          BY <2>10, <2>16, <3>1, <4>1, <4>5, <5>1
        <5>3. after[definition[d]] = changedBy[definition[d]]
          BY <2>9, <4>1, <5>1, <5>2
        <5> QED BY <2>16, <3>1, <4>1, <5>1, <5>3
      <4> QED BY <4>3, <4>4, <4>5
    <3>2. Declared(c)' \subseteq new.own \cup (IF I = {} THEN {} ELSE after[from])
      BY <2>20, <2>21
    <3>3. source # NoMapper => Declared(c)' \subseteq changedBy'[source]
      <4>1. CASE new.mapping
        BY <2>5, <2>11, <2>16, <3>2, <4>1
      <4>2. CASE ~new.mapping
        BY <2>1, <2>5, <2>10, <2>11, <3>2, <4>2
      <4> QED BY <4>1, <4>2
    <3>4. source = NoMapper => Declared(c)' = {}
      BY <2>1, <2>5, <2>11, <3>2, MappersAssumption
    <3>5. Declared(c)' \subseteq fields'[c]
      BY <2>16, <3>3, <3>4
    <3>6. ASSUME source # NoMapper, Declared(c)' = {}, ancestors'[c] \cap merged' = {}
          PROVE  changedBy'[source] = {}
      <4>1. new.own = {} /\ \A k \in DOMAIN new.bases : Declared(base(k)) = {}
        BY <2>20, <3>6
      <4>2. CASE from = NoMapper
        BY <2>11, <2>16, <3>6, <4>1, <4>2
      <4>3. CASE from # NoMapper
        <5>1. PICK k \in I : from = definition[base(k)]
          BY <2>4, <2>5, <4>3
        <5>2. k \in DOMAIN new.bases /\ base(k) \in Mapper
          BY <2>1, <2>3
        <5>3. from \in ancestors[base(k)] /\ ancestors[base(k)] \subseteq ancestors'[c]
          BY <2>16, <4>3, <5>1, <5>2 DEF MappersInv, Defined
        <5>4. after = changedBy /\ merged \subseteq merged'
          BY <2>10, <3>6, <5>3
        <5>5. changedBy[from] = {}
          BY <3>6, <4>1, <4>3, <5>1, <5>2, <5>3, <5>4 DEF MappersInv, Gathered
        <5>6. own = {}
          BY <4>1, <4>3, <5>4, <5>5
        <5>7. CASE new.mapping
          BY <2>11, <2>16, <5>6, <5>7
        <5>8. CASE ~new.mapping
          BY <2>10, <2>11, <5>4, <5>5, <5>8
        <5> QED BY <5>7, <5>8
      <4> QED BY <4>2, <4>3
    <3> QED BY <2>16, <3>1, <3>3, <3>4, <3>5, <3>6 DEF Gathered
  <2> QED BY <2>14, <2>18, <2>22 DEF MappersInv
<1> QED BY <1>1, <1>2 DEF MappersNext

LEMMA MappersInvAlways == MappersSpec => []MappersInv
BY MappersInitInv, MappersStepInv, PTL DEF MappersSpec

\* A change of a field that a class or one it comes from declares reaches the class.
THEOREM ChangedFieldIsMappedAlways == MappersSpec => []ChangedFieldIsMapped
<1>1. MappersInv => ChangedFieldIsMapped
  <2> SUFFICES ASSUME MappersInv, NEW c \in Mapper, NEW F \in SUBSET Field \ {{}}
               PROVE  LET always == definition[c] # NoMapper /\ Declared(c) = {}
                                      /\ ancestors[c] \cap merged = {}
                          toUpdate == definition[c] # NoMapper => ~class[definition[c]].create
                      IN  /\ F \cap Declared(c) # {} => fields[c] \cap F # {}
                          /\ (F \cap Declared(c) # {} \/ always) /\ toUpdate => Applied(c, F, FALSE)
    BY DEF ChangedFieldIsMapped
  <2> QED BY DEF MappersInv, Gathered, Applied
<1> QED BY <1>1, MappersInvAlways, PTL

-----------------------------------------------------------------------------
(* Backends *)

BackendsInv ==
  /\ entries \in [Backend -> Seq(Entry)]
  /\ \A b \in Backend : Len(entries[b]) <= EntryBound
  /\ replacement \subseteq Backend \X Class \X Class

LEMMA BackendsInitInv == BackendsInit => BackendsInv
<1> SUFFICES ASSUME BackendsInit PROVE BackendsInv
  OBVIOUS
<1>1. <<>> \in Seq(Entry) /\ Len(<<>>) = 0
  OBVIOUS
<1> QED BY <1>1, BackendsAssumption DEF BackendsInit, BackendsInv

\* A class is registered as an entry that replaces earlier ones.
LEMMA RegisterClassInv ==
  ASSUME BackendsInv, NEW b \in Backend, NEW cls \in Class, NEW replacing \in Seq(Class),
         RegisterClass(b, cls, replacing)
  PROVE  BackendsInv'
<1> DEFINE known(k) == EntriesOf(b, replacing[k]) # {}
           replaced == {k \in DOMAIN replacing : \A n \in 1 .. k : known(n)}
           done == replaced = DOMAIN replacing
           entry == [cls |-> cls, listed |-> done,
                     replaces |-> {Min(EntriesOf(b, replacing[k])) : k \in replaced}]
<1>1. /\ Len(entries[b]) < EntryBound
      /\ entries' = [entries EXCEPT ![b] = Append(@, entry)]
      /\ replacement' = replacement \cup {<<b, cls, replacing[k]>> : k \in replaced}
  BY DEF RegisterClass
<1>2. /\ DOMAIN replacing = 1 .. Len(replacing) /\ Len(replacing) \in Nat
      /\ \A k \in DOMAIN replacing : replacing[k] \in Class
  OBVIOUS
<1>3. entries[b] \in Seq(Entry) /\ Len(entries[b]) \in Nat
  BY DEF BackendsInv
<1>4. ASSUME NEW k \in replaced
      PROVE  Min(EntriesOf(b, replacing[k])) \in 1 .. EntryBound
  <2> DEFINE T == EntriesOf(b, replacing[k])
  <2>1. T # {}
    BY <1>2
  <2>2. T \subseteq 1 .. Len(entries[b])
    BY <1>3 DEF EntriesOf
  <2>3. T \in SUBSET Nat
    BY <2>2
  <2> HIDE DEF T
  <2>4. \E n \in T : \A m \in T : n <= m
    BY <2>1, <2>3, LeastNat
  <2>5. Min(T) \in T
    <3>1. PICK n \in T : \A m \in T : n <= m
      BY <2>4
    <3>2. n \in T /\ \A m \in T : n =< m
      BY <3>1
    <3> QED BY <3>2, Zenon DEF Min
  <2>6. Min(T) \in 1 .. EntryBound
    <3>1. Len(entries[b]) < EntryBound /\ EntryBound \in Nat
      BY <1>1, BackendsAssumption
    <3>2. Min(T) \in 1 .. Len(entries[b])
      BY <2>2, <2>5
    <3> HIDE DEF entry
    <3> QED BY <1>3, <3>1, <3>2
  <2> QED BY <2>6 DEF T
<1>5. entry \in Entry
  <2>1. {Min(EntriesOf(b, replacing[k])) : k \in replaced} \in SUBSET (1 .. EntryBound)
    BY <1>4
  <2>2. done \in BOOLEAN
    OBVIOUS
  <2> QED BY <2>1, <2>2 DEF Entry
<1> HIDE DEF entry
<1>6. Append(entries[b], entry) \in Seq(Entry) /\ Len(Append(entries[b], entry)) = Len(entries[b]) + 1
  BY <1>3, <1>5
<1>7. Len(entries[b]) + 1 <= EntryBound
  BY <1>1, <1>3, BackendsAssumption
<1>8. {<<b, cls, replacing[k]>> : k \in replaced} \subseteq Backend \X Class \X Class
  BY <1>2
<1> QED BY <1>1, <1>6, <1>7, <1>8 DEF BackendsInv

LEMMA BackendsStepInv == BackendsInv /\ [BackendsNext]_backendsVars => BackendsInv'
<1> SUFFICES ASSUME BackendsInv, [BackendsNext]_backendsVars PROVE BackendsInv'
  OBVIOUS
<1>1. ASSUME NEW old \in Class, NEW another \in Class
      PROVE  <<>> \in Seq(Class) /\ <<old>> \in Seq(Class) /\ <<old, another>> \in Seq(Class)
  OBVIOUS
<1>2. <<>> \in Seq(Class)
  OBVIOUS
<1>3. CASE UNCHANGED backendsVars
  BY <1>3 DEF backendsVars, BackendsInv
<1> QED BY <1>1, <1>2, <1>3, RegisterClassInv DEF BackendsNext

LEMMA BackendsTyped == BackendsInv => BackendsTypeOK
<1> SUFFICES ASSUME BackendsInv, NEW b \in Backend, NEW i \in DOMAIN entries[b]
             PROVE  entries[b][i] \in Entry
  BY DEF BackendsInv, BackendsTypeOK
<1>1. entries[b] \in Seq(Entry)
  BY DEF BackendsInv
<1> QED BY <1>1

-----------------------------------------------------------------------------
(* What is found instead of a class *)

\* An entry replaces earlier ones.
Later == \A b \in Backend : \A n \in DOMAIN entries[b] : entries[b][n].replaces \subseteq 1 .. n - 1

\* What is registered to replace a class is an entry that replaces one of it.
Replacing(b, new, old) ==
  \E n \in DOMAIN entries[b] :
    /\ entries[b][n].cls = new
    /\ \E i \in entries[b][n].replaces : entries[b][i].cls = old

Remembered == \A b \in Backend, new, old \in Class :
                <<b, new, old>> \in replacement => Replacing(b, new, old)

LEMMA FirstEntry ==
  ASSUME BackendsInv, NEW b \in Backend, NEW cls, EntriesOf(b, cls) # {}
  PROVE  /\ Min(EntriesOf(b, cls)) \in DOMAIN entries[b]
         /\ entries[b][Min(EntriesOf(b, cls))].cls = cls
<1> DEFINE T == EntriesOf(b, cls)
<1>1. T \subseteq DOMAIN entries[b] /\ \A i \in T : entries[b][i].cls = cls
  BY DEF EntriesOf
<1>2. entries[b] \in Seq(Entry)
  BY DEF BackendsInv
<1>3. T \in SUBSET Nat
  BY <1>1, <1>2
<1> HIDE DEF T
<1>4. PICK n \in T : \A m \in T : n <= m
  BY <1>3, LeastNat DEF T
<1>5. n \in T /\ \A m \in T : n =< m
  BY <1>4
<1>6. Min(T) \in T
  BY <1>5, Zenon DEF Min
<1> QED BY <1>1, <1>6 DEF T

LEMMA RegisterClassLater ==
  ASSUME BackendsInv, Later, Remembered,
         NEW b \in Backend, NEW cls \in Class, NEW replacing \in Seq(Class),
         RegisterClass(b, cls, replacing)
  PROVE  Later' /\ Remembered'
<1> DEFINE known(k) == EntriesOf(b, replacing[k]) # {}
           replaced == {k \in DOMAIN replacing : \A n \in 1 .. k : known(n)}
           done == replaced = DOMAIN replacing
           olds == {Min(EntriesOf(b, replacing[k])) : k \in replaced}
           entry == [cls |-> cls, listed |-> done, replaces |-> olds]
           before == entries[b]
           L == Len(before)
<1>1. /\ entries' = [entries EXCEPT ![b] = Append(before, entry)]
      /\ replacement' = replacement \cup {<<b, cls, replacing[k]>> : k \in replaced}
  BY DEF RegisterClass
<1>2. /\ DOMAIN replacing = 1 .. Len(replacing) /\ Len(replacing) \in Nat
  OBVIOUS
<1>3. before \in Seq(Entry) /\ entries \in [Backend -> Seq(Entry)]
  BY DEF BackendsInv
<1>4. ASSUME NEW k \in replaced
      PROVE  /\ Min(EntriesOf(b, replacing[k])) \in DOMAIN before
             /\ before[Min(EntriesOf(b, replacing[k]))].cls = replacing[k]
  <2>1. EntriesOf(b, replacing[k]) # {}
    BY <1>2
  <2> QED BY <2>1, FirstEntry
<1>5. entry.cls = cls /\ entry.replaces = olds /\ olds \subseteq DOMAIN before
  BY <1>4
<1> HIDE DEF entry, olds
<1>6. /\ L \in Nat /\ DOMAIN before = 1 .. L /\ DOMAIN Append(before, entry) = 1 .. L + 1
      /\ \A n \in 1 .. L : Append(before, entry)[n] = before[n]
      /\ Append(before, entry)[L + 1] = entry
  BY <1>3, AppendProperties
<1>7. /\ entries'[b] = Append(before, entry)
      /\ \A c \in Backend \ {b} : entries'[c] = entries[c]
  BY <1>1, <1>3
<1>8. /\ DOMAIN entries'[b] = 1 .. L + 1 /\ L + 1 \in DOMAIN entries'[b]
      /\ \A n \in 1 .. L : entries'[b][n] = before[n] /\ n \in DOMAIN entries'[b]
      /\ entries'[b][L + 1] = entry
  BY <1>6, <1>7
<1> HIDE DEF before, L, replaced
<1>9. \A r \in replacement' : r \in replacement \/ \E k \in replaced : r = <<b, cls, replacing[k]>>
  BY <1>1
<1>10. Later'
  <2> SUFFICES ASSUME NEW c \in Backend, NEW n \in DOMAIN entries'[c]
               PROVE  entries'[c][n].replaces \subseteq 1 .. n - 1
    BY DEF Later
  <2>1. CASE c # b
    BY <1>7, <2>1 DEF Later
  <2>2. CASE c = b /\ n = L + 1
    BY <1>5, <1>6, <1>8, <2>2
  <2>3. CASE c = b /\ n \in 1 .. L
    <3>1. entries'[c][n] = entries[b][n] /\ n \in DOMAIN entries[b]
      BY <1>6, <1>8, <2>3 DEF before
    <3> QED BY <3>1 DEF Later
  <2> QED BY <1>6, <1>8, <2>1, <2>2, <2>3
<1>11. ASSUME NEW c \in Backend, NEW new \in Class, NEW old \in Class,
              <<c, new, old>> \in replacement'
       PROVE  Replacing(c, new, old)'
  <2>1. CASE <<c, new, old>> \in replacement
    <3>1. PICK n \in DOMAIN entries[c] :
            /\ entries[c][n].cls = new
            /\ \E i \in entries[c][n].replaces : entries[c][i].cls = old
      BY <2>1 DEF Remembered, Replacing
    <3>2. PICK i \in entries[c][n].replaces : entries[c][i].cls = old
      BY <3>1
    <3>3. CASE c # b
      BY <1>7, <3>1, <3>3 DEF Replacing
    <3>4. CASE c = b
      <4>1. n \in 1 .. L /\ i \in 1 .. n - 1
        BY <1>6, <3>4 DEF Later, before
      <4>2. i \in 1 .. L
        BY <1>6, <4>1
      <4>3. entries'[c][n] = entries[c][n] /\ entries'[c][i] = entries[c][i] /\ n \in DOMAIN entries'[c]
        BY <1>8, <3>4, <4>1, <4>2 DEF before
      <4> QED BY <3>1, <3>2, <4>3 DEF Replacing
    <3> QED BY <3>3, <3>4
  <2>2. CASE <<c, new, old>> \notin replacement
    <3>1. PICK k \in replaced : <<c, new, old>> = <<b, cls, replacing[k]>>
      BY <1>9, <1>11, <2>2
    <3> DEFINE i == Min(EntriesOf(b, replacing[k]))
    <3>2. i \in olds
      BY DEF olds
    <3>3. i \in 1 .. L /\ before[i].cls = old
      BY <1>4, <1>6, <3>1
    <3> HIDE DEF i
    <3>4. entries'[b][i].cls = old
      BY <1>8, <3>3
    <3>5. c = b /\ L + 1 \in DOMAIN entries'[b] /\ entries'[b][L + 1].cls = new
          /\ i \in entries'[b][L + 1].replaces
      BY <1>5, <1>8, <3>1, <3>2
    <3> QED BY <3>4, <3>5 DEF Replacing
  <2> QED BY <2>1, <2>2
<1> QED BY <1>10, <1>11 DEF Remembered

\* The classes that it finds in place of an entry, and the rule they follow
Instead(it, es, i) == UNION {it[k] : k \in {n \in DOMAIN es : i \in es[n].replaces}}

Found(it, es, usable, i) ==
  IF Instead(it, es, i) # {} THEN Instead(it, es, i) ELSE {es[i].cls} \cap usable

Candidates(it, es, usable) == it = [i \in DOMAIN es |-> Found(it, es, usable, i)]

LEMMA FollowIs ==
  ASSUME NEW es, NEW usable
  PROVE  FollowReplacing(es, usable) =
           UNION {(CHOOSE it : Candidates(it, es, usable))[i] : i \in {k \in DOMAIN es : es[k].listed}}
BY DEF FollowReplacing, Candidates, Found, Instead

\* Entries are replaced by later ones only, so that the candidates of an entry can
\* be found from the last one on.
LEMMA CandidatesExist ==
  ASSUME NEW es, NEW usable, NEW L \in Nat, DOMAIN es = 1 .. L,
         \A n \in 1 .. L : es[n].replaces \subseteq 1 .. n - 1
  PROVE  \E it : Candidates(it, es, usable)
<1> DEFINE From(m, it) == /\ it = [i \in 1 .. L |-> it[i]]
                          /\ \A i \in 1 .. L : i > L - m => it[i] = Found(it, es, usable, i)
           Bad == {m \in Nat : m <= L /\ ~ \E it : From(m, it)}
<1>1. ASSUME Bad # {} PROVE FALSE
  <2>1. PICK m \in Bad : \A n \in Bad : m <= n
    <3>1. Bad \in SUBSET Nat
      OBVIOUS
    <3> HIDE DEF Bad
    <3> QED BY <1>1, <3>1, LeastNat
  <2>2. m \in Nat /\ m <= L /\ ~ \E it : From(m, it)
    OBVIOUS
  <2>3. From(0, [i \in 1 .. L |-> {}])
    <3>1. \A i \in 1 .. L : ~(i > L - 0)
      OBVIOUS
    <3> QED BY <3>1
  <2>4. m # 0
    BY <2>2, <2>3
  <2>5. m - 1 \notin Bad /\ m - 1 \in Nat /\ m - 1 <= L
    BY <2>1, <2>2, <2>4
  <2>6. PICK it : From(m - 1, it)
    BY <2>5
  <2> DEFINE e == L - m + 1
             new == [it EXCEPT ![e] = Found(it, es, usable, e)]
  <2>7. e \in 1 .. L
    BY <2>2, <2>4
  <2>8. /\ it = [i \in 1 .. L |-> it[i]]
        /\ \A i \in 1 .. L : i > e => it[i] = Found(it, es, usable, i)
    BY <2>2, <2>6
  <2> HIDE DEF Bad, From
  <2>9. /\ new = [i \in 1 .. L |-> new[i]] /\ new[e] = Found(it, es, usable, e)
        /\ \A i \in (1 .. L) \ {e} : new[i] = it[i]
    BY <2>7, <2>8
  <2> HIDE DEF new, e
  <2>10. ASSUME NEW i \in 1 .. L, i >= e
         PROVE  Found(new, es, usable, i) = Found(it, es, usable, i)
    <3>1. \A n \in DOMAIN es : i \in es[n].replaces => new[n] = it[n]
      <4> SUFFICES ASSUME NEW n \in DOMAIN es, i \in es[n].replaces PROVE new[n] = it[n]
        OBVIOUS
      <4>1. i \in 1 .. n - 1 /\ n \in 1 .. L
        OBVIOUS
      <4>2. n # e
        BY <2>7, <2>10, <4>1
      <4> QED BY <2>9, <4>1, <4>2
    <3>2. Instead(new, es, i) = Instead(it, es, i)
      BY <3>1 DEF Instead
    <3> QED BY <3>2 DEF Found
  <2>11. \A i \in 1 .. L : i >= e => new[i] = Found(new, es, usable, i)
    <3> SUFFICES ASSUME NEW i \in 1 .. L, i >= e PROVE new[i] = Found(new, es, usable, i)
      OBVIOUS
    <3>1. Found(new, es, usable, i) = Found(it, es, usable, i)
      BY <2>10
    <3>2. CASE i = e
      BY <2>9, <3>1, <3>2
    <3>3. CASE i # e
      BY <2>7, <2>8, <2>9, <3>1, <3>3
    <3> QED BY <3>2, <3>3
  <2>12. From(m, new)
    BY <2>2, <2>9, <2>11 DEF From, e
  <2> QED BY <2>2, <2>12
<1>2. L \notin Bad
  BY <1>1
<1>3. PICK it : From(L, it)
  BY <1>2
<1>4. it = [i \in 1 .. L |-> it[i]] /\ \A i \in 1 .. L : it[i] = Found(it, es, usable, i)
  BY <1>3
<1>5. it = [i \in DOMAIN es |-> Found(it, es, usable, i)]
  BY <1>4
<1> QED BY <1>5 DEF Candidates

\* What the entries of a backend have as candidates
CandidatesOf(b, usable) == CHOOSE it : Candidates(it, entries[b], usable)

LEMMA CandidatesFollow ==
  ASSUME BackendsInv, Later, NEW b \in Backend, NEW usable
  PROVE  /\ FollowReplacing(entries[b], usable) =
              UNION {CandidatesOf(b, usable)[i] : i \in {k \in DOMAIN entries[b] : entries[b][k].listed}}
         /\ \A i \in DOMAIN entries[b] :
              CandidatesOf(b, usable)[i] = Found(CandidatesOf(b, usable), entries[b], usable, i)
<1>1. entries[b] \in Seq(Entry)
  BY DEF BackendsInv
<1>2. DOMAIN entries[b] = 1 .. Len(entries[b]) /\ Len(entries[b]) \in Nat
  BY <1>1
<1>3. \A n \in 1 .. Len(entries[b]) : entries[b][n].replaces \subseteq 1 .. n - 1
  BY <1>2 DEF Later
<1>4. \E it : Candidates(it, entries[b], usable)
  BY <1>2, <1>3, CandidatesExist
<1>5. Candidates(CandidatesOf(b, usable), entries[b], usable)
  BY <1>4 DEF CandidatesOf
<1> QED BY <1>5, FollowIs DEF Candidates, CandidatesOf

AsItself(b, usable, cls) ==
  \E k \in DOMAIN entries[b] :
    /\ entries[b][k].cls = cls /\ cls \in usable
    /\ Instead(CandidatesOf(b, usable), entries[b], k) = {}

\* A class that is found for an entry is that of an entry for which nothing else is.
LEMMA FoundAsItself ==
  ASSUME BackendsInv, Later, NEW b \in Backend, NEW usable,
         NEW i \in DOMAIN entries[b], NEW cls \in CandidatesOf(b, usable)[i]
  PROVE  AsItself(b, usable, cls)
<1> DEFINE it == CandidatesOf(b, usable)
           es == entries[b]
           L == Len(es)
           Bad == {n \in Nat : L - n \in DOMAIN es /\ cls \in it[L - n]}
<1>1. es \in Seq(Entry)
  BY DEF BackendsInv
<1>2. DOMAIN es = 1 .. L /\ L \in Nat
  BY <1>1
<1>3. /\ \A j \in DOMAIN es : it[j] = Found(it, es, usable, j)
      /\ \A n \in DOMAIN es : es[n].replaces \subseteq 1 .. n - 1
  BY CandidatesFollow DEF Later
<1> HIDE DEF it, es, L
<1>4. L - i \in Nat /\ L - (L - i) = i /\ i \in DOMAIN es /\ cls \in it[i]
  BY <1>2 DEF it, es
<1>5. L - i \in Bad
  BY <1>4
<1>6. PICK n \in Bad : \A m \in Bad : n <= m
  <2>1. Bad \in SUBSET Nat
    OBVIOUS
  <2> HIDE DEF Bad
  <2> QED BY <1>5, <2>1, LeastNat
<1> DEFINE k == L - n
<1>7. k \in DOMAIN es /\ cls \in it[k] /\ n = L - k
  BY <1>2, <1>6
<1>8. ASSUME NEW j \in DOMAIN es, k \in es[j].replaces PROVE cls \notin it[j]
  <2>1. k \in 1 .. j - 1
    BY <1>3, <1>8
  <2>2. L - j \in Nat /\ L - (L - j) = j /\ L - j < n
    BY <1>2, <1>7, <2>1
  <2>3. L - j \notin Bad
    BY <1>6, <2>2
  <2> QED BY <2>2, <2>3
<1> HIDE DEF k, Bad
<1>9. cls \notin Instead(it, es, k)
  BY <1>8 DEF Instead
<1>10. Instead(it, es, k) = {} /\ cls \in {es[k].cls} \cap usable
  BY <1>3, <1>7, <1>9 DEF Found
<1> QED BY <1>7, <1>10 DEF it, es, AsItself

\* The entry of a class that is replaced by a usable one has other candidates.
LEMMA ReplacedHasOther ==
  ASSUME BackendsInv, Later, Remembered, NEW b \in Backend, NEW usable \in SUBSET Class,
         NEW old \in Class, NEW new \in usable, new # old, Replaces(b, new, old)
  PROVE  \E i \in DOMAIN entries[b] :
           /\ entries[b][i].cls = old
           /\ \A k \in DOMAIN entries[b] : entries[b][k].cls = old => k = i
           /\ Instead(CandidatesOf(b, usable), entries[b], i) # {}
<1> DEFINE it == CandidatesOf(b, usable)
           es == entries[b]
           Only(i) == i \in DOMAIN es /\ \A k \in DOMAIN es : es[k].cls = es[i].cls => k = i
           Other == \E i \in DOMAIN es : es[i].cls = old /\ Only(i) /\ Instead(it, es, i) # {}
           Fed(c) == \A k \in DOMAIN es : es[k].cls = c => it[k] # {}
           S == {c \in Class : c # old /\ Fed(c) => Other}
           direct == {e \in Class \X Class : /\ <<b, e[1], e[2]>> \in replacement
                                             /\ ~RegisteredTwice(b, e[2])}
<1>1. es \in Seq(Entry) /\ DOMAIN es = 1 .. Len(es) /\ Len(es) \in Nat
  BY DEF BackendsInv
<1>2. \A j \in DOMAIN es : it[j] = Found(it, es, usable, j)
  BY CandidatesFollow
<1>3. \A c \in Class : ~RegisteredTwice(b, c) =>
        \A i, k \in DOMAIN es : es[i].cls = c /\ es[k].cls = c => i = k
  <2> SUFFICES ASSUME NEW c \in Class, NEW i \in DOMAIN es, NEW k \in DOMAIN es,
                      es[i].cls = c, es[k].cls = c, i # k
               PROVE  RegisteredTwice(b, c)
    OBVIOUS
  <2> DEFINE T == {n \in DOMAIN es : es[n].cls = c}
  <2>1. IsFiniteSet(T)
    <3>1. IsFiniteSet(1 .. Len(es)) /\ T \subseteq 1 .. Len(es)
      BY <1>1, FS_Interval
    <3> QED BY <3>1, FS_Subset
  <2>2. i \in T /\ k \in T \ {i}
    OBVIOUS
  <2>3. /\ IsFiniteSet(T \ {i}) /\ Cardinality(T \ {i}) = Cardinality(T) - 1
        /\ Cardinality(T) \in Nat
    BY <2>1, <2>2, FS_RemoveElement, FS_CardinalityType
  <2>4. Cardinality(T \ {i}) # 0
    BY <2>2, <2>3, FS_EmptySet
  <2>5. Cardinality(T \ {i}) \in Nat
    BY <2>3, FS_CardinalityType
  <2>6. Cardinality(T) > 1
    BY <2>3, <2>4, <2>5
  <2> QED BY <2>6 DEF RegisteredTwice, es
<1> HIDE DEF it, es
<1>4. old \in S
  OBVIOUS
<1>5. ASSUME NEW e \in direct, e[2] \in S PROVE e[1] \in S
  <2> DEFINE c == e[1]
             d == e[2]
  <2>1. c \in Class /\ d \in Class /\ <<b, c, d>> \in replacement /\ ~RegisteredTwice(b, d)
    OBVIOUS
  <2>2. PICK n \in DOMAIN es : es[n].cls = c /\ \E j \in es[n].replaces : es[j].cls = d
    BY <2>1 DEF Remembered, Replacing, es
  <2>3. PICK j \in es[n].replaces : es[j].cls = d
    BY <2>2
  <2>4. j \in DOMAIN es
    BY <1>1, <2>2, <2>3 DEF Later, es
  <2>5. \A k \in DOMAIN es : es[k].cls = d => k = j
    BY <1>3, <2>1, <2>3, <2>4
  <2>6. ASSUME Fed(c) PROVE Other
    <3>1. it[n] # {}
      BY <2>2, <2>6
    <3>2. Instead(it, es, j) # {}
      BY <2>3, <3>1 DEF Instead
    <3>3. CASE d = old
      BY <2>3, <2>4, <2>5, <3>2, <3>3
    <3>4. CASE d # old
      <4>1. it[j] # {}
        BY <1>2, <2>4, <3>2 DEF Found
      <4>2. Fed(d)
        BY <2>5, <4>1
      <4> QED BY <1>5, <3>4, <4>2
    <3> QED BY <3>3, <3>4
  <2> QED BY <2>1, <2>6
<1>6. new \in S
  <2>1. S \in SUBSET Class /\ new \in Class
    OBVIOUS
  <2> HIDE DEF S
  <2> QED BY <1>4, <1>5, <2>1 DEF Replaces
<1>7. Fed(new)
  <2> SUFFICES ASSUME NEW k \in DOMAIN es, es[k].cls = new PROVE it[k] # {}
    OBVIOUS
  <2>1. it[k] = Found(it, es, usable, k)
    BY <1>2
  <2> QED BY <2>1 DEF Found
<1>8. Other
  BY <1>6, <1>7
<1> QED BY <1>8 DEF it, es

LEMMA FollowedAsItself ==
  ASSUME BackendsInv, Later, NEW b \in Backend, NEW usable,
         NEW cls \in FollowReplacing(entries[b], usable)
  PROVE  AsItself(b, usable, cls)
<1>1. PICK j \in DOMAIN entries[b] : cls \in CandidatesOf(b, usable)[j]
  BY CandidatesFollow
<1> QED BY <1>1, FoundAsItself

LEMMA ChosenNotReplaced ==
  ASSUME BackendsInv, Later, Remembered
  PROVE  ReplacedNotChosen
<1> SUFFICES ASSUME NEW b \in Backend, NEW usable \in SUBSET Class
             PROVE  /\ (\E cls \in usable : Listed(b, cls)) => GetClasses(b, usable) # {}
                    /\ \A old \in GetClasses(b, usable), new \in usable :
                         new # old /\ Listed(b, old) => ~Replaces(b, new, old)
  BY DEF ReplacedNotChosen
<1> DEFINE it == CandidatesOf(b, usable)
           es == entries[b]
           own == FollowReplacing(es, usable)
<1>1. \A j \in DOMAIN es : it[j] = Found(it, es, usable, j)
  BY CandidatesFollow
<1>2. own = UNION {it[i] : i \in {k \in DOMAIN es : es[k].listed}}
  BY CandidatesFollow
<1>3. /\ own # {} => GetClasses(b, usable) = own
      /\ GetClasses(b, usable) # {} => own = GetClasses(b, usable) \/ own = {}
  BY DEF GetClasses
<1>4. ASSUME NEW cls \in usable, Listed(b, cls) PROVE own # {}
  <2>1. PICK i \in DOMAIN es : es[i].listed /\ es[i].cls = cls
    BY <1>4 DEF Listed, EntriesOf
  <2>2. it[i] # {}
    BY <1>1, <2>1 DEF Found
  <2> QED BY <1>2, <2>1, <2>2
<1>5. ASSUME NEW old \in GetClasses(b, usable), NEW new \in usable, new # old, Listed(b, old),
             Replaces(b, new, old)
      PROVE  FALSE
  <2>1. PICK k \in DOMAIN es : es[k].listed /\ es[k].cls = old
    BY <1>5 DEF Listed, EntriesOf
  <2>2. old \in Class
    <3>1. es \in Seq(Entry)
      BY DEF BackendsInv
    <3>2. es[k] \in Entry
      BY <2>1, <3>1
    <3> QED BY <2>1, <3>2 DEF Entry
  <2>3. PICK i \in DOMAIN es : /\ es[i].cls = old
                               /\ \A n \in DOMAIN es : es[n].cls = old => n = i
                               /\ Instead(it, es, i) # {}
    BY <1>5, <2>2, ReplacedHasOther
  <2>4. k = i
    BY <2>1, <2>3
  <2>5. it[k] # {}
    BY <1>1, <2>3, <2>4 DEF Found
  <2>6. own # {}
    BY <1>2, <2>1, <2>5
  <2>7. old \in own
    BY <1>3, <1>5, <2>6
  <2>8. old \in FollowReplacing(entries[b], usable)
    BY <2>7
  <2>9. PICK n \in DOMAIN entries[b] :
          entries[b][n].cls = old /\ Instead(CandidatesOf(b, usable), entries[b], n) = {}
    <3>1. AsItself(b, usable, old)
      <4> HIDE DEF own, it, es
      <4> QED BY <2>8, FollowedAsItself
    <3> QED BY <3>1 DEF AsItself
  <2> QED BY <2>3, <2>9
<1> QED BY <1>3, <1>4, <1>5

LEMMA BackendsNextLater ==
  BackendsInv /\ Later /\ Remembered /\ [BackendsNext]_backendsVars => Later' /\ Remembered'
<1> SUFFICES ASSUME BackendsInv, Later, Remembered, [BackendsNext]_backendsVars
             PROVE  Later' /\ Remembered'
  OBVIOUS
<1>1. ASSUME NEW old \in Class, NEW another \in Class
      PROVE  <<>> \in Seq(Class) /\ <<old>> \in Seq(Class) /\ <<old, another>> \in Seq(Class)
  OBVIOUS
<1>2. <<>> \in Seq(Class)
  OBVIOUS
<1>3. CASE UNCHANGED backendsVars
  BY <1>3 DEF backendsVars, Later, Remembered, Replacing
<1> QED BY <1>1, <1>2, <1>3, RegisterClassLater DEF BackendsNext

\* For any backends, classes and registrations in any order: a class is not found
\* next to one that replaces it, and something is found where something usable is
\* registered (register_class, _get_classes).
THEOREM ReplacedNotChosenHolds == BackendsSpec => []ReplacedNotChosen
<1>1. BackendsInit => BackendsInv /\ Later /\ Remembered
  BY BackendsInitInv DEF BackendsInit, Later, Remembered
<1> QED BY <1>1, BackendsStepInv, BackendsNextLater, ChosenNotReplaced, PTL DEF BackendsSpec

-----------------------------------------------------------------------------
(* The parts together *)

FrameworkInv == ImportsInv /\ BackendsInv /\ MappersInv

LEMMA ImportsOverInv == ImportsOver => ImportsInv
BY Constants DEF ImportsOver, ImportsInv, ImportsTypeOK, Tried, Alone, ImportedOnce

LEMMA EachPartSteps ==
  [Next]_vars => /\ [ImportsNext]_importsVars /\ [BackendsNext]_backendsVars
                 /\ [MappersNext]_mappersVars
BY DEF Next, ImportsMove, vars

LEMMA FrameworkInvHolds == MCSpec => []FrameworkInv
<1>1. Init => FrameworkInv
  BY InitInv, ImportsOverInv, BackendsInitInv, MappersInitInv DEF Init, FrameworkInv
<1>2. FrameworkInv /\ [Next]_vars => FrameworkInv'
  BY EachPartSteps, StepInv, BackendsStepInv, MappersStepInv DEF FrameworkInv
<1> QED BY <1>1, <1>2, PTL DEF MCSpec

\* Whichever part moves, the variables of all of them keep their types.
THEOREM FrameworkTypeCorrect == MCSpec => []TypeOK
<1>1. FrameworkInv => TypeOK
  BY BackendsTyped DEF FrameworkInv, ImportsInv, MappersInv, TypeOK
<1> QED BY <1>1, FrameworkInvHolds, PTL

\* Whichever part moves, what each promises on its own holds: a record is bound once,
\* but for a job that began too early (bind, advisory_lock_or_retry), no replaced class
\* of a backend is found (_get_classes), and a field that may have changed is mapped
\* (the mappers' changed_by).
THEOREM FrameworkSafe ==
  MCSpec => []ImportedOnce /\ []ReplacedNotChosen /\ []ChangedFieldIsMapped
<1>1. FrameworkInv => ImportedOnce
  BY DEF FrameworkInv, ImportsInv
<1>2. MCSpec => []ImportedOnce
  BY <1>1, FrameworkInvHolds, PTL
<1>3. Init => BackendsInit /\ MappersInit
  BY DEF Init
<1>4. MCSpec => BackendsSpec /\ MappersSpec
  BY <1>3, EachPartSteps, PTL DEF MCSpec, BackendsSpec, MappersSpec
<1> QED BY <1>2, <1>4, ReplacedNotChosenHolds, ChangedFieldIsMappedAlways, PTL
=============================================================================

-------------------- MODULE ConfigurationRegistryProofs --------------------
(***************************************************************************)
(* What the table of configurations keeps, for any ids, names, workers and *)
(* calls, with failing statements.                                         *)
(*                                                                         *)
(* Rows never go away, and their names and versions never change.  What a  *)
(* worker has read of a row therefore stays true of it as far as it goes:  *)
(* the version before the one it will insert is there, and what was        *)
(* published is no draft again.                                            *)
(***************************************************************************)
EXTENDS ConfigurationRegistry, TLAPS

USE NameAssumption, EnvironmentAssumption

\* Version v of the name n follows one that is there, or is the first.
Follows(n, v, rows) ==
    v = 1 \/ \E i \in Ids : rows[i].status # "none" /\ rows[i].name = n /\ rows[i].version = v - 1

WasPublished(i, rows) == rows[i].status \in {"published", "deprecated"}

\* What the job j was told of the rows is still so.
JobSound(j, rows) ==
    /\ j.pc = "insert" => j.version >= 1 /\ (NamesApart => Follows(j.name, j.version, rows))
    /\ j.pc \in {"publish", "deprecate", "rollout"} => j.id \in Ids /\ rows[j.id].status # "none"
    /\ j.pc \in {"deprecate", "rollout"} => WasPublished(j.id, rows)

RowsSound ==
    \A i \in Ids :
        conf[i].status # "none" =>
            /\ conf[i].version >= 1
            /\ NamesApart => Follows(conf[i].name, conf[i].version, conf)
            /\ \A j \in Ids :
                  conf[j].status # "none" /\ conf[j].name = conf[i].name /\ conf[j].version = conf[i].version
                      => i = j

IInv ==
    /\ RowsSound
    /\ \A w \in Workers : JobSound(job[w], conf)
    /\ \A r \in Rollouts : rollouts[r] # Nothing => WasPublished(rollouts[r], conf)

-----------------------------------------------------------------------------

\* Rows stay, with their names and versions, and what was published was.
Keeps(rows, later) ==
    \A i \in Ids :
        /\ rows[i].status # "none" => /\ later[i].status # "none"
                                      /\ later[i].name = rows[i].name
                                      /\ later[i].version = rows[i].version
        /\ WasPublished(i, rows) => WasPublished(i, later)

LEMMA SoundKept ==
    ASSUME NEW rows, NEW later, Keeps(rows, later), NEW j, JobSound(j, rows)
    PROVE  JobSound(j, later)
  BY DEF Keeps, JobSound, Follows, WasPublished

LEMMA IdleType == Idle \in Job /\ Idle.pc = "idle"
  BY DEF Idle, NoName, Job

\* A step that changes no row: the worker w goes on as j.
LEMMA ReadStep ==
    ASSUME TypeOK, IInv, UNCHANGED <<conf, rollouts>>,
           NEW w \in Workers, NEW j \in Job, Become(w, j), JobSound(j, conf)
    PROVE  TypeOK' /\ IInv'
<1>1. TypeOK'
  BY DEF TypeOK, Become
<1>2. \A x \in Workers : JobSound(job'[x], conf)
  BY DEF TypeOK, IInv, Become
<1> QED BY <1>1, <1>2 DEF IInv, RowsSound

LEMMA CreateStep ==
    ASSUME TypeOK, IInv, NEW w \in Workers, NEW n \in Names, Create(w, n)
    PROVE  TypeOK' /\ IInv'
<1>1. PICK v \in NextVersion(n) :
         Become(w, [Idle EXCEPT !.pc = "insert", !.name = n, !.version = v])
  BY DEF Create
<1>2. v \in Nat /\ v >= 1 /\ (NamesApart => Follows(n, v, conf))
  <2>1. CASE v = 1
    BY <2>1 DEF Follows
  <2>2. CASE \E i \in Ids : First(n, i) /\ v = conf[i].version + 1
    <3> PICK i \in Ids : First(n, i) /\ v = conf[i].version + 1
      BY <2>2
    <3>1. conf[i].status # "none" /\ conf[i].version \in Nat /\ <<n, conf[i].name>> \in Matches
          /\ conf[i].name \in Names
      BY DEF First, Listed, Stored, TypeOK, Configuration
    <3> QED BY <3>1 DEF NamesApart, Follows
  <2> QED BY <1>1, <2>1, <2>2 DEF NextVersion
<1> DEFINE j == [Idle EXCEPT !.pc = "insert", !.name = n, !.version = v]
<1>3. j \in Job /\ j.pc = "insert" /\ j.name = n /\ j.version = v
  BY <1>2 DEF Idle, NoName, Job
<1> HIDE DEF j
<1>4. JobSound(j, conf)
  BY <1>2, <1>3 DEF JobSound
<1> QED BY <1>1, <1>3, <1>4, ReadStep DEF Create, j

LEMMA ChooseStep ==
    ASSUME TypeOK, IInv, NEW w \in Workers, NEW i \in Ids,
           Publish(w, i) \/ Deprecate(w, i) \/ Load(w, i)
    PROVE  TypeOK' /\ IInv'
<1>1. PICK pc \in {"publish", "deprecate", "rollout"} :
         /\ Become(w, [Idle EXCEPT !.pc = pc, !.id = i])
         /\ conf[i].status # "none"
         /\ pc # "publish" => WasPublished(i, conf)
         /\ UNCHANGED <<conf, rollouts>>
  BY DEF Publish, Deprecate, Load, WasPublished
<1> DEFINE j == [Idle EXCEPT !.pc = pc, !.id = i]
<1>2. j \in Job /\ j.pc = pc /\ j.id = i
  BY DEF Idle, NoName, Job
<1> HIDE DEF j
<1>3. JobSound(j, conf)
  BY <1>1, <1>2 DEF JobSound
<1> QED BY <1>1, <1>2, <1>3, ReadStep DEF j

LEMMA AbortStep ==
    ASSUME TypeOK, IInv, NEW w \in Workers, Abort(w)
    PROVE  TypeOK' /\ IInv'
  BY IdleType, ReadStep DEF Abort, JobSound

\* A step after which the rows are those of a table that keeps what was there.
LEMMA WriteStep ==
    ASSUME TypeOK, IInv, NEW w \in Workers, Become(w, Idle), UNCHANGED rollouts,
           conf' \in [Ids -> Configuration], Keeps(conf, conf'), RowsSound'
    PROVE  TypeOK' /\ IInv'
<1>1. TypeOK'
  BY IdleType DEF TypeOK, Become
<1>2. \A x \in Workers : JobSound(job'[x], conf')
  <2> SUFFICES ASSUME NEW x \in Workers PROVE JobSound(job'[x], conf')
    OBVIOUS
  <2>1. JobSound(job[x], conf')
    BY SoundKept DEF IInv
  <2>2. JobSound(Idle, conf')
    BY IdleType DEF JobSound
  <2> QED BY <2>1, <2>2 DEF Become, TypeOK
<1>3. \A r \in Rollouts : rollouts'[r] # Nothing => WasPublished(rollouts'[r], conf')
  BY DEF IInv, Keeps, TypeOK
<1> QED BY <1>1, <1>2, <1>3 DEF IInv

LEMMA InsertStep ==
    ASSUME TypeOK, IInv, NEW w \in Workers, Insert(w)
    PROVE  TypeOK' /\ IInv'
<1> DEFINE n == job[w].name
           v == job[w].version
           row == [name |-> n, version |-> v, status |-> "draft"]
<1>1. n \in Names /\ v \in Nat /\ v >= 1 /\ (NamesApart => Follows(n, v, conf)) /\ row \in Configuration
  BY DEF Insert, TypeOK, Job, IInv, JobSound, Configuration, Status
<1>2. CASE UNCHANGED conf
  <2>1. Keeps(conf, conf') /\ RowsSound'
    BY <1>2 DEF Keeps, WasPublished, IInv, RowsSound
  <2> QED BY <1>2, <2>1, WriteStep DEF Insert, TypeOK
<1>3. CASE /\ \A i \in Stored : conf[i].name # n \/ conf[i].version # v
           /\ \E i \in Ids \ Stored : conf' = [conf EXCEPT ![i] = row]
  <2> PICK i \in Ids \ Stored : conf' = [conf EXCEPT ![i] = row]
    BY <1>3
  <2>1. /\ conf' \in [Ids -> Configuration] /\ conf[i].status = "none"
        /\ conf'[i].name = n /\ conf'[i].version = v /\ conf'[i].status = "draft"
        /\ \A x \in Ids : x # i => conf'[x] = conf[x]
    BY <1>1 DEF TypeOK, Stored
  <2>2. Keeps(conf, conf')
    BY <2>1 DEF Keeps, WasPublished
  <2>3. \A m, u : Follows(m, u, conf) => Follows(m, u, conf')
    BY <2>2 DEF Follows, Keeps
  <2>4. \A x \in Ids : conf[x].status # "none" => conf[x].name # n \/ conf[x].version # v
    BY <1>3 DEF Stored
  <2>5. RowsSound'
    <3> SUFFICES ASSUME NEW x \in Ids, conf'[x].status # "none"
                 PROVE  /\ conf'[x].version >= 1
                        /\ NamesApart => Follows(conf'[x].name, conf'[x].version, conf')
                        /\ \A y \in Ids :
                              conf'[y].status # "none" /\ conf'[y].name = conf'[x].name
                                 /\ conf'[y].version = conf'[x].version => x = y
      BY DEF RowsSound, NamesApart
    <3>1. CASE x = i
      BY <3>1, <1>1, <2>1, <2>3, <2>4
    <3>2. CASE x # i
      BY <3>2, <2>1, <2>3, <2>4 DEF IInv, RowsSound
    <3> QED BY <3>1, <3>2
  <2> QED BY <2>1, <2>2, <2>5, WriteStep DEF Insert
<1> QED BY <1>2, <1>3 DEF Insert

LEMMA UpdateStatusStep ==
    ASSUME TypeOK, IInv, NEW w \in Workers, UpdateStatus(w)
    PROVE  TypeOK' /\ IInv'
<1> DEFINE i == job[w].id
<1>1. i \in Ids /\ conf[i].status # "none"
  BY DEF UpdateStatus, IInv, JobSound
<1>2. /\ conf' \in [Ids -> Configuration]
      /\ conf'[i].status \in {"published", "deprecated"}
      /\ conf'[i].name = conf[i].name /\ conf'[i].version = conf[i].version
      /\ \A x \in Ids : x # i => conf'[x] = conf[x]
  BY <1>1 DEF UpdateStatus, TypeOK, Configuration, Status
<1> HIDE DEF i
<1>3. Keeps(conf, conf')
  BY <1>1, <1>2 DEF Keeps, WasPublished
<1>4. \A x \in Ids : /\ conf'[x].status # "none" <=> conf[x].status # "none"
                     /\ conf'[x].name = conf[x].name /\ conf'[x].version = conf[x].version
  BY <1>1, <1>2
<1>5. RowsSound'
  <2>1. \A m, u : Follows(m, u, conf) => Follows(m, u, conf')
    BY <1>3 DEF Follows, Keeps
  <2> QED BY <1>4, <2>1 DEF IInv, RowsSound, NamesApart
<1> QED BY <1>2, <1>3, <1>5, WriteStep DEF UpdateStatus

LEMMA RolloutStep ==
    ASSUME TypeOK, IInv, NEW w \in Workers, CreateRollout(w)
    PROVE  TypeOK' /\ IInv'
<1>1. job[w].id \in Ids /\ WasPublished(job[w].id, conf)
  BY DEF CreateRollout, IInv, JobSound
<1>2. TypeOK'
  BY <1>1, IdleType DEF TypeOK, CreateRollout, Become
<1>3. \A x \in Workers : JobSound(job'[x], conf)
  BY IdleType DEF TypeOK, IInv, CreateRollout, Become, JobSound
<1>4. \A r \in Rollouts : rollouts'[r] # Nothing => WasPublished(rollouts'[r], conf)
  BY <1>1 DEF TypeOK, IInv, CreateRollout
<1> QED BY <1>2, <1>3, <1>4 DEF IInv, RowsSound, CreateRollout, WasPublished

-----------------------------------------------------------------------------

LEMMA InitSound == Init => TypeOK /\ IInv
<1> SUFFICES ASSUME Init PROVE TypeOK /\ IInv
  OBVIOUS
<1>1. TypeOK
  BY IdleType DEF Init, TypeOK, Configuration, Status, NoName
<1>2. \A w \in Workers : JobSound(job[w], conf)
  BY IdleType DEF Init, JobSound
<1> QED BY <1>1, <1>2 DEF Init, IInv, RowsSound

LEMMA NextSound == TypeOK /\ IInv /\ [Next]_vars => TypeOK' /\ IInv'
<1> SUFFICES ASSUME TypeOK, IInv, [Next]_vars PROVE TypeOK' /\ IInv'
  OBVIOUS
<1>1. CASE Next
  BY <1>1, CreateStep, InsertStep, ChooseStep, UpdateStatusStep, RolloutStep, AbortStep DEF Next
<1>2. CASE UNCHANGED vars
  BY <1>2 DEF vars, TypeOK, IInv, RowsSound, JobSound, WasPublished, Follows
<1> QED BY <1>1, <1>2

\* Every reachable state has its types and satisfies the inductive invariant.
THEOREM TypeAndInvariant == Spec => [](TypeOK /\ IInv)
  BY InitSound, NextSound, PTL DEF Spec

\* Overlapping creations, some of which could not read, leave no gap between the
\* versions of a name and give none twice.
THEOREM VersionsHold == Spec => []VersionsContiguous
<1>1. TypeOK /\ IInv => VersionsContiguous
  <2> SUFFICES ASSUME TypeOK, IInv, NamesApart, NEW i \in Stored
               PROVE  /\ conf[i].version > 1 =>
                            \E j \in Stored : /\ conf[j].name = conf[i].name
                                              /\ conf[j].version = conf[i].version - 1
                      /\ \A j \in Stored :
                            conf[j].name = conf[i].name /\ conf[j].version = conf[i].version => i = j
    BY DEF VersionsContiguous
  <2> QED BY DEF IInv, RowsSound, Follows, Stored
<1> QED BY <1>1, TypeAndInvariant, PTL

\* No rollout is ever of a draft: status goes one way, whatever overlaps.
THEOREM RolledOutHolds == Spec => []RolledOutPublished
<1>1. TypeOK /\ IInv => RolledOutPublished
  BY DEF IInv, RolledOutPublished, WasPublished
<1> QED BY <1>1, TypeAndInvariant, PTL
=============================================================================

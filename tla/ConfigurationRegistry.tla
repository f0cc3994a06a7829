----------------------- MODULE ConfigurationRegistry -----------------------
(***************************************************************************)
(* The table of configurations and the handlers that create, publish and   *)
(* deprecate them, and that create rollouts of them.                       *)
(*                                                                         *)
(* Each handler reads, decides, and writes in a later statement, with      *)
(* other handlers in between, as in RolloutControl.  A handler that        *)
(* refuses leaves everything as it is and is no step here.                 *)
(***************************************************************************)
EXTENDS Integers

CONSTANTS
    Ids,       \* ids that new configurations get
    Names,
    NameOrder, \* the place of each name in the order of names
    Matches,   \* pairs <<n, m>> such that m LIKE '%n%'
    Rollouts,  \* ids that new rollouts get
    Nothing,   \* no configuration
    Workers,
    MayFail    \* whether statements fail and the process dies

ASSUME NameAssumption ==
    /\ Matches \subseteq Names \X Names
    /\ \A n \in Names : <<n, n>> \in Matches
    /\ Names # {}
    /\ NameOrder \in [Names -> Nat]
    /\ \A n, m \in Names : NameOrder[n] = NameOrder[m] => n = m

ASSUME EnvironmentAssumption ==
    /\ Nothing \notin Ids
    /\ MayFail \in BOOLEAN

Status == {"none", "draft", "published", "deprecated"}

Configuration == [name : Names, version : Nat, status : Status]

\* What a worker has read, and the statement it issues next.
Job == [pc      : {"idle", "insert", "publish", "deprecate", "rollout"},
        name    : Names,
        version : Nat,
        id      : Ids \cup {Nothing}]

VARIABLES
    conf,     \* the rows of configurations; status "none" is no row
    rollouts, \* configuration_id of each rollout
    job

vars == <<conf, rollouts, job>>

TypeOK ==
    /\ conf \in [Ids -> Configuration]
    /\ rollouts \in [Rollouts -> Ids \cup {Nothing}]
    /\ job \in [Workers -> Job]

NoName == CHOOSE n \in Names : TRUE

Idle == [pc |-> "idle", name |-> NoName, version |-> 0, id |-> Nothing]

Init ==
    /\ conf = [i \in Ids |-> [name |-> NoName, version |-> 0, status |-> "none"]]
    /\ rollouts = [r \in Rollouts |-> Nothing]
    /\ job = [w \in Workers |-> Idle]

-----------------------------------------------------------------------------

Stored == {i \in Ids : conf[i].status # "none"}

\* A free worker picks up a call that somebody makes.
Called(w) == job[w].pc = "idle"

Become(w, j) == job' = [job EXCEPT ![w] = j]

Listed(n) == {i \in Stored : <<n, conf[i].name>> \in Matches}

\* ORDER BY name, version DESC LIMIT 1; the Sort of the filter is not looked at.
First(n, i) ==
    /\ i \in Listed(n)
    /\ \A j \in Listed(n) :
          \/ NameOrder[conf[i].name] < NameOrder[conf[j].name]
          \/ conf[i].name = conf[j].name /\ conf[i].version >= conf[j].version

\* The version after that of the first row listed, or 1 when there is none or
\* the rows cannot be read.
NextVersion(n) ==
    {conf[i].version + 1 : i \in {j \in Ids : First(n, j)}}
        \cup {v \in {1} : Listed(n) = {} \/ MayFail}

\* CreateConfiguration, up to the lookup of the version.
Create(w, n) ==
    /\ Called(w)
    /\ \E v \in NextVersion(n) :
          Become(w, [Idle EXCEPT !.pc = "insert", !.name = n, !.version = v])
    /\ UNCHANGED <<conf, rollouts>>

\* Slip: the table has no UNIQUE(name, version).
InsertUnchecked(w) ==
    /\ job[w].pc = "insert"
    /\ \E i \in Ids \ Stored :
          conf' = [conf EXCEPT ![i] = [name |-> job[w].name, version |-> job[w].version,
                                       status |-> "draft"]]
    /\ Become(w, Idle)
    /\ UNCHANGED rollouts

\* UNIQUE(name, version) refuses a row that is there already.
Insert(w) ==
    /\ job[w].pc = "insert"
    /\ \/ /\ \A i \in Stored : conf[i].name # job[w].name \/ conf[i].version # job[w].version
          /\ \E i \in Ids \ Stored :
                conf' = [conf EXCEPT ![i] = [name |-> job[w].name, version |-> job[w].version,
                                             status |-> "draft"]]
       \/ /\ \E i \in Stored : conf[i].name = job[w].name /\ conf[i].version = job[w].version
          /\ UNCHANGED conf
    /\ Become(w, Idle)
    /\ UNCHANGED rollouts

Publish(w, i) ==
    /\ Called(w)
    /\ conf[i].status = "draft"
    /\ Become(w, [Idle EXCEPT !.pc = "publish", !.id = i])
    /\ UNCHANGED <<conf, rollouts>>

Deprecate(w, i) ==
    /\ Called(w)
    /\ conf[i].status = "published"
    /\ Become(w, [Idle EXCEPT !.pc = "deprecate", !.id = i])
    /\ UNCHANGED <<conf, rollouts>>

\* UpdateConfigurationStatus, by id.
UpdateStatus(w) ==
    /\ job[w].pc \in {"publish", "deprecate"}
    /\ conf' = [conf EXCEPT ![job[w].id].status =
                    IF job[w].pc = "publish" THEN "published" ELSE "deprecated"]
    /\ Become(w, Idle)
    /\ UNCHANGED rollouts

\* Slip: a draft can be rolled out.
LoadAny(w, i) ==
    /\ Called(w)
    /\ i \in Stored
    /\ Become(w, [Idle EXCEPT !.pc = "rollout", !.id = i])
    /\ UNCHANGED <<conf, rollouts>>

\* CreateRollout reads the configuration; its targets are read after it.
Load(w, i) ==
    /\ Called(w)
    /\ conf[i].status = "published"
    /\ Become(w, [Idle EXCEPT !.pc = "rollout", !.id = i])
    /\ UNCHANGED <<conf, rollouts>>

\* The transaction that inserts the rollout and its targets.
CreateRollout(w) ==
    /\ job[w].pc = "rollout"
    /\ \E r \in Rollouts :
          /\ rollouts[r] = Nothing
          /\ rollouts' = [rollouts EXCEPT ![r] = job[w].id]
    /\ Become(w, Idle)
    /\ UNCHANGED conf

\* A statement fails, or the process dies and all its handlers with it.
Abort(w) ==
    /\ MayFail
    /\ job[w].pc # "idle"
    /\ Become(w, Idle)
    /\ UNCHANGED <<conf, rollouts>>

Next ==
    \E w \in Workers :
        \/ \E n \in Names : Create(w, n)
        \/ Insert(w)
        \/ \E i \in Ids : Publish(w, i) \/ Deprecate(w, i) \/ Load(w, i)
        \/ UpdateStatus(w)
        \/ CreateRollout(w)
        \/ Abort(w)

Spec == Init /\ [][Next]_vars

-----------------------------------------------------------------------------
(* Properties.                                                             *)

\* No name matches another one.
NamesApart == \A n, m \in Names : <<n, m>> \in Matches => n = m

\* With names apart, the versions of a name are 1 and those that follow it, each once:
\* of two creations that have read the same version one is refused, and so is one that
\* could not read and falls back to 1.
VersionsContiguous ==
    NamesApart =>
        \A i \in Stored :
            /\ conf[i].version > 1 =>
                  \E j \in Stored : /\ conf[j].name = conf[i].name
                                    /\ conf[j].version = conf[i].version - 1
            /\ \A j \in Stored :
                  conf[j].name = conf[i].name /\ conf[j].version = conf[i].version => i = j

\* What is rolled out has been published, although the rollout is inserted some
\* statements after its configuration was read.
RolledOutPublished ==
    \A r \in Rollouts :
        rollouts[r] # Nothing => conf[rollouts[r]].status \in {"published", "deprecated"}
=============================================================================

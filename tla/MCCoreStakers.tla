--------------------------- MODULE MCCoreStakers ---------------------------
(***************************************************************************)
(* One run for two components that share no state: the update of the core  *)
(* and the stakers.  part says which of them the behaviour is about; the   *)
(* other rests in one state.  The states of the run are the sum of the     *)
(* states of the two, not their product.                                   *)
(***************************************************************************)
EXTENDS CoreUpdate, Stakers

VARIABLE part

coreStakersVars == <<part, vars, stakerVars>>

StakersRest == StakersInit /\ \A c \in Client : container[c] = "absent"

CoreStakersInit ==
  /\ part \in {"core", "stakers"}
  /\ Init
  /\ IF part = "stakers" THEN StakersInit ELSE StakersRest

CoreStakersNext ==
  \/ part = "core" /\ Next /\ UNCHANGED <<part, stakerVars>>
  \/ part = "stakers" /\ StakersNext /\ UNCHANGED <<part, vars>>

\* Steps of the parts that are scheduled.
CoreDoes(A)  == part = "core" /\ A
StakersDo(A) == part = "stakers" /\ A

(* The fairness of the parts, in the behaviours that are about them. *)
CoreStakersFairness ==
  /\ WF_vars(CoreDoes(RunPackages)) /\ WF_vars(CoreDoes(UpdateEnds))
  /\ \A c \in Call : WF_vars(CoreDoes(CallStep(c)))
  /\ WF_vars(CoreDoes(ScriptStep)) /\ WF_vars(CoreDoes(PostStep))
  /\ \A w \in Worker : /\ WF_vars(CoreDoes(\E p \in Pkg : UndoUp(w, p)))
                       /\ WF_vars(CoreDoes(\E p \in All : Clean(w, p)))
  /\ WF_stakerVars(StakersDo(setting # "idle" /\ SetStep))
  /\ WF_stakerVars(StakersDo(PersistStep))
  /\ SF_stakerVars(StakersDo(Unheld(selected, PersistSelected)))
  /\ SF_stakerVars(StakersDo(Unheld(persisted, PersistListed)))
  /\ SF_stakerVars(StakersDo(Unheld(persisted, PersistSettings)))
  /\ SF_stakerVars(StakersDo(persisted \in tagged /\ PersistUp))

CoreStakersSpec == CoreStakersInit /\ [][CoreStakersNext]_coreStakersVars /\ CoreStakersFairness

(* The state of either component is well formed: no switch installs a client it
   was not given, and no roll back leaves a version that was never there. *)
CoreStakersTypeOK == TypeOK /\ StakersTypeOK
=============================================================================

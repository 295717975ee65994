---------------------------- MODULE EngineSlots ----------------------------
(***************************************************************************)
(* What begin_or_reuse_run promises of the pipelines of one project: for   *)
(* each engine, none or one is executing, a new one starts only when none  *)
(* is, and the registry always names the one that executes, so that cancel *)
(* and delete can reach it.  Requests, locks, restarts and drains are not  *)
(* visible here.                                                           *)
(***************************************************************************)
CONSTANTS Engines, Runs, NoRun

VARIABLES
    executing,  \* the full pipelines of each engine that are executing
    known       \* the run that cancel and delete find for each engine

slots == <<executing, known>>

SlotsInit ==
    /\ executing = [e \in Engines |-> {}]
    /\ known = [e \in Engines |-> NoRun]

Occupy(e, r) ==
    /\ executing[e] = {}
    /\ executing' = [executing EXCEPT ![e] = {r}]
    /\ known' = [known EXCEPT ![e] = r]

Vacate(e) ==
    /\ executing[e] = {known[e]}
    /\ executing' = [executing EXCEPT ![e] = {}]
    /\ known' = [known EXCEPT ![e] = NoRun]

SlotsNext == \E e \in Engines : Vacate(e) \/ \E r \in Runs : Occupy(e, r)

SlotsSpec == SlotsInit /\ [][SlotsNext]_slots
=============================================================================

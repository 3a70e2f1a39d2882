--------------------------- MODULE ProjectContract ---------------------------
(***************************************************************************)
(* What the Project controller promises about the Projects it manages: one *)
(* atomic gate in front of provisioning and, behind it, phases that are    *)
(* reported and a deletion that ends.  Workers, informers, objects and     *)
(* failures are left out.  ProjectOperator is shown to implement it, and   *)
(* ProjectService is composed with it instead of with the whole operator.  *)
(***************************************************************************)
EXTENDS Naturals, FiniteSets

CONSTANTS Projects, MaxTotalProjects
VARIABLE project  \* each Project: does it exist, and its phase

Objects == [st : {"none", "live", "deleting", "gone"},
            phase : {"", "Provisioning", "Ready", "Failed"}]
NoObject == [st |-> "none", phase |-> ""]
Live(p) == project[p].st = "live"

(* The projects that were let through and are not being deleted.           *)
Admitted == {p \in Projects : Live(p) /\ project[p].phase # ""}
Room == MaxTotalProjects > 0 => Cardinality(Admitted) < MaxTotalProjects

Admit(p) ==
    /\ Live(p) /\ project[p].phase = ""
    /\ Room
    /\ project' = [project EXCEPT ![p].phase = "Provisioning"]
Report(p) ==
    /\ p \in Admitted
    /\ \E ph \in {"Provisioning", "Ready", "Failed"} :
          project' = [project EXCEPT ![p].phase = ph]
Release(p) ==
    /\ project[p].st = "deleting"
    /\ project' = [project EXCEPT ![p].st = "gone"]

Create(p) ==
    /\ project[p].st = "none"
    /\ project' = [project EXCEPT ![p].st = "live"]
(* It is gone at once when the controller has not added its finalizer yet. *)
Delete(p) ==
    /\ Live(p)
    /\ \E st \in {"deleting", "gone"} : project' = [project EXCEPT ![p].st = st]

Controller == \E p \in Projects : Admit(p) \/ Report(p) \/ Release(p)
Client == \E p \in Projects : Create(p) \/ Delete(p)

Init == project = [p \in Projects |-> NoObject]
Next == Controller \/ Client
Spec == Init /\ [][Next]_project
=============================================================================

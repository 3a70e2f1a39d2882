------------------------------ MODULE FunctionCR ------------------------------
(***************************************************************************)
(* One Function custom resource as the API server keeps it, the writes a   *)
(* client (Function MS, kubectl) can make to it, and the status values the *)
(* operator writes.  Code: pkg/k8s/function_crd.go, the status writes of   *)
(* operator/internal/controller/function_controller.go and the types of    *)
(* operator/api/v1alpha1/function_types.go.                                *)
(*                                                                         *)
(* Every write carries the resourceVersion its author read, so a write     *)
(* succeeds exactly when the object is still the one that was read; the    *)
(* record is compared instead of a version number.  uid distinguishes a    *)
(* recreated object from its predecessor, whose generation it restarts.    *)
(***************************************************************************)
EXTENDS Naturals

CONSTANTS Specs,    \* values of .spec: source, runtime, triggers together
          NoSpec,   \* "no spec": not a member of Specs
          MaxGen,   \* bound: spec changes of one object
          MaxUid    \* bound: incarnations of the object

ASSUME SpecsAssumption == NoSpec \notin Specs
ASSUME BoundsAssumption == MaxGen \in Nat \ {0} /\ MaxUid \in Nat \ {0}

VARIABLES cr,    \* the stored object; NoCR when there is none
          uids   \* how many incarnations were created so far

crVars == <<cr, uids>>

Gens == 1..MaxGen
Phases == {"None", "Building", "Ready", "Failed"}
Builds == {"None", "Building", "Succeeded", "Failed"}

(* image is the generation in the tag of status.build.imageRef, 0 for "".  *)
CRs == [uid : 0..MaxUid, gen : 0..MaxGen, spec : Specs \cup {NoSpec},
        fin : BOOLEAN, deleting : BOOLEAN,
        phase : Phases, obs : 0..MaxGen, build : Builds, image : 0..MaxGen]

NewCR(u, g, s) == [uid |-> u, gen |-> g, spec |-> s,
                   fin |-> FALSE, deleting |-> FALSE,
                   phase |-> "None", obs |-> 0, build |-> "None", image |-> 0]

NoCR == NewCR(0, 0, NoSpec)
Exists(c) == c.uid # 0
Live(c) == Exists(c) /\ ~c.deleting

-----------------------------------------------------------------------------
(* Client writes.                                                          *)

(* resource.Create of an object that is not there: generation 1, no        *)
(* finalizer, empty status.                                                *)
ApiCreate(s) ==
    /\ ~Exists(cr)
    /\ uids < MaxUid
    /\ uids' = uids + 1
    /\ cr' = NewCR(uids + 1, 1, s)

(* resource.Update replaces the metadata and the spec of the object read   *)
(* as old: the new object lists no finalizers, so the operator's is        *)
(* dropped, and an object that was only waiting for it disappears.  The    *)
(* status subresource is left alone; only a changed spec is a new          *)
(* generation.                                                             *)
Replaced(old, s) ==
    IF old.deleting THEN NoCR
    ELSE [old EXCEPT !.spec = s, !.fin = FALSE,
                     !.gen = IF s = old.spec THEN @ ELSE @ + 1]

CanReplace(old, s) == s = old.spec \/ old.gen < MaxGen

ApiUpdate(old, s) ==
    /\ Exists(old)
    /\ cr = old
    /\ CanReplace(old, s)
    /\ cr' = Replaced(old, s)
    /\ UNCHANGED uids

(* resource.Delete: with a finalizer the object is only marked.            *)
ApiDelete ==
    /\ Exists(cr)
    /\ cr' = IF cr.fin THEN [cr EXCEPT !.deleting = TRUE] ELSE NoCR
    /\ UNCHANGED uids

-----------------------------------------------------------------------------
(* The status values the operator writes over the object c it read.        *)

WithBuilding(c) == [c EXCEPT !.phase = "Building", !.build = "Building",
                             !.image = 0]
(* Mutant: the tag of the next build.                                      *)
WithBuiltNext(c) == [c EXCEPT !.build = "Succeeded", !.image = c.gen + 1,
                              !.obs = c.gen]
WithBuilt(c) == [c EXCEPT !.build = "Succeeded", !.image = c.gen,
                          !.obs = c.gen]
(* Mutant: the generation stays unobserved.                                *)
WithBuildFailedAgain(c) == [c EXCEPT !.phase = "Failed", !.build = "Failed",
                                     !.image = 0]
WithBuildFailed(c) == [c EXCEPT !.phase = "Failed", !.build = "Failed",
                                !.image = 0, !.obs = c.gen]
WithFailed(c) == [c EXCEPT !.phase = "Failed"]
WithReady(c) == [c EXCEPT !.phase = "Ready", !.obs = c.gen]

(* Does the current generation still need a build (Reconcile, step 5)?     *)
NeedsBuild(c) ==
    \/ c.obs < c.gen
    \/ c.phase = "Building" /\ c.build # "Succeeded"
=============================================================================

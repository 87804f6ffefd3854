----------------------------- MODULE ReleaseTags ------------------------------
(***************************************************************************)
(* applyPlan of scripts/release/apply.ts, composed with the publication of  *)
(* the packages: once npm shows every candidate, its tags are pushed        *)
(* together and its GitHub Releases are created one by one.  Several        *)
(* appliers may work on the same plan; each may fail at any point, with or  *)
(* without its last write having landed, and is then run again.  GitHub is  *)
(* external, and so is everybody else who writes to it.                     *)
(***************************************************************************)
EXTENDS RcPublication

CONSTANTS
    Appliers,
    MaxFailures,     \* bound: failures other than refusals, and dry runs
    MaxMeddling      \* bound: writes of others

ASSUME TagsAssumption == {MaxFailures, MaxMeddling} \subseteq Nat

VARIABLES
    remoteTag,   \* "absent", "annotated" at the release commit, "lightweight"
    release,     \* "absent", "draft", "present", or created and not listed yet
    local,       \* annotated tags in the clone of each applier
    appliers, failures, meddled

tagVars == <<remoteTag, release, local, appliers, failures, meddled>>
vars == <<rcVars, tagVars>>

Phases == {"npm", "preflight", "local", "push", "recheck", "releases", "final", "await",
           "done", "stopped"}

(* Local variables of applyPlan: the candidates read in this pass, and those*)
(* whose tagAction and releaseAction are "create".                          *)
ApplierRecord == [pc: Phases, looked: SUBSET Packages, tags: SUBSET Packages,
                  rels: SUBSET Packages]

Fresh == [pc |-> "npm", looked |-> {}, tags |-> {}, rels |-> {}]

TagsInit ==
    /\ RcInit
    /\ remoteTag = [p \in Packages |-> "absent"]
    /\ release = [p \in Packages |-> "absent"]
    /\ local = [a \in Appliers |-> {}]
    /\ appliers = [a \in Appliers |-> Fresh]
    /\ failures = 0
    /\ meddled = 0

-----------------------------------------------------------------------------
(* Reads.                                                                   *)

(* npmVersion with the gitHead of the release commit.                       *)
OnNpm(p) == shown[p] # "no" /\ registry[p] \in Jobs /\ p \in headed

(* GithubApi.release: what the list of releases shows.                      *)
Listed(p) == IF release[p] = "unlisted" THEN "absent" ELSE release[p]

(* validateTag, validateRelease and preflightCandidate do not throw.        *)
TagCompatible(p) == remoteTag[p] # "lightweight"
Compatible(p) ==
    /\ TagCompatible(p)
    /\ Listed(p) # "draft"
    /\ Listed(p) = "present" => remoteTag[p] # "absent"

In(a, pc) == appliers[a].pc = pc
Move(a, pc) == appliers' = [appliers EXCEPT ![a].pc = pc]
Rest == UNCHANGED <<rcVars, meddled>>

-----------------------------------------------------------------------------
(* The applier.                                                             *)

(* Mutated: one candidate on npm is enough.                                 *)
AwaitAnyNpm(a) ==
    /\ In(a, "npm")
    /\ \E p \in Packages : OnNpm(p)
    /\ Move(a, "preflight")
    /\ Rest /\ UNCHANGED <<remoteTag, release, local, failures>>

(* awaitNpm for every candidate.                                            *)
AwaitNpm(a) ==
    /\ In(a, "npm")
    /\ \A p \in Packages : OnNpm(p)
    /\ Move(a, "preflight")
    /\ Rest /\ UNCHANGED <<remoteTag, release, local, failures>>

(* preflightAll: candidates are read in any order, while others write.      *)
Read(a, p) ==
    /\ appliers[a].pc \in {"preflight", "final"}
    /\ p \notin appliers[a].looked
    /\ Compatible(p)
    /\ appliers' = [appliers EXCEPT
          ![a].looked = @ \cup {p},
          ![a].tags = IF remoteTag[p] = "absent" THEN @ \cup {p} ELSE @,
          ![a].rels = IF Listed(p) = "absent" THEN @ \cup {p} ELSE @]
    /\ Rest /\ UNCHANGED <<remoteTag, release, local, failures>>

(* All are read: a dry run ends here, the final pass wants every tag.       *)
PassRead(a) ==
    /\ appliers[a].looked = Packages
    /\ \/ /\ In(a, "preflight")
          /\ appliers' = [appliers EXCEPT ![a].pc = "local", ![a].looked = {}]
          /\ UNCHANGED failures
       \/ /\ In(a, "preflight")
          /\ failures < MaxFailures /\ failures' = failures + 1
          /\ appliers' = [appliers EXCEPT ![a] = [Fresh EXCEPT !.pc = "stopped"]]
       \/ /\ In(a, "final") /\ appliers[a].tags = {}
          /\ appliers' = [appliers EXCEPT ![a].pc = "await", ![a].looked = {}]
          /\ UNCHANGED failures
    /\ Rest /\ UNCHANGED <<remoteTag, release, local>>

(* createLocalTag, in order; a tag that is there already is kept.           *)
CreateLocalTag(a) ==
    /\ In(a, "local")
    /\ LET missing == appliers[a].tags \ local[a] IN
        \/ /\ missing # {}
           /\ local' = [local EXCEPT ![a] = @ \cup {Min(missing)}]
           /\ UNCHANGED appliers
        \/ /\ missing = {}
           /\ Move(a, "push")
           /\ UNCHANGED local
    /\ Rest /\ UNCHANGED <<remoteTag, release, failures>>

(* git push --atomic: all the tags or none, and none if one exists as       *)
(* another object.  The connection may break after it has worked.           *)
Pushed(a) == [p \in Packages |-> IF p \in appliers[a].tags THEN "annotated" ELSE remoteTag[p]]

(* Mutated: tags are pushed one by one.                                     *)
PushTagsSingly(a) ==
    /\ In(a, "push")
    /\ LET left == {p \in appliers[a].tags : remoteTag[p] = "absent"} IN
        \/ /\ left # {}
           /\ remoteTag' = [remoteTag EXCEPT ![Min(left)] = "annotated"]
           /\ UNCHANGED appliers
        \/ /\ left = {}
           /\ Move(a, "recheck")
           /\ UNCHANGED remoteTag
    /\ Rest /\ UNCHANGED <<release, local, failures>>

PushTags(a) ==
    /\ In(a, "push")
    /\ \A p \in appliers[a].tags : remoteTag[p] = "absent"
    /\ remoteTag' = Pushed(a)
    /\ \/ Move(a, "recheck") /\ UNCHANGED failures
       \/ /\ failures < MaxFailures /\ failures' = failures + 1
          /\ Move(a, "stopped")
    /\ Rest /\ UNCHANGED <<release, local>>

(* preflightAll through tagReader: conflicting tags stop the applier.       *)
Recheck(a) ==
    /\ In(a, "recheck")
    /\ \A p \in Packages : TagCompatible(p)
    /\ Move(a, "releases")
    /\ Rest /\ UNCHANGED <<remoteTag, release, local, failures>>

(* Mutated: the releases are created from the missing tags.                 *)
CreateReleaseOfTags(a) ==
    /\ In(a, "releases")
    /\ \/ LET p == Min(appliers[a].tags) IN
          /\ appliers[a].tags # {}
          /\ release[p] = "absent"
          /\ release' = [release EXCEPT ![p] = "unlisted"]
          /\ appliers' = [appliers EXCEPT ![a].tags = @ \ {p}]
       \/ /\ appliers[a].tags = {}
          /\ appliers' = [appliers EXCEPT ![a].pc = "final", ![a].rels = {}]
          /\ UNCHANGED release
    /\ Rest /\ UNCHANGED <<local, remoteTag, failures>>

(* createRelease, in order, for what the first pass found missing.  GitHub  *)
(* refuses a second release and makes a lightweight tag where there is none.*)
CreateRelease(a) ==
    /\ In(a, "releases")
    /\ \/ LET p == Min(appliers[a].rels) IN
          /\ appliers[a].rels # {}
          /\ release[p] = "absent"
          /\ release' = [release EXCEPT ![p] = "unlisted"]
          /\ remoteTag' = [remoteTag EXCEPT ![p] = IF @ = "absent" THEN "lightweight" ELSE @]
          /\ \/ /\ appliers' = [appliers EXCEPT ![a].rels = @ \ {p}]
                /\ UNCHANGED failures
             \/ /\ failures < MaxFailures /\ failures' = failures + 1
                /\ Move(a, "stopped")
       \/ /\ appliers[a].rels = {}
          /\ appliers' = [appliers EXCEPT ![a].pc = "final", ![a].tags = {}]
          /\ UNCHANGED <<remoteTag, release, failures>>
    /\ Rest /\ UNCHANGED local

(* awaitFinalReleases: reads until all are listed.                          *)
AwaitReleases(a) ==
    /\ In(a, "await")
    /\ \A p \in appliers[a].rels : Listed(p) = "present"
    /\ appliers' = [appliers EXCEPT ![a].pc = "done", ![a].rels = {}]
    /\ Rest /\ UNCHANGED <<remoteTag, release, local, failures>>

(* What makes each phase throw, propagation that takes longer than its      *)
(* attempts apart.                                                          *)
Refused(a) ==
    \/ In(a, "npm") /\ \E p \in Packages : shown[p] # "no" /\ ~OnNpm(p)
    \/ appliers[a].pc \in {"preflight", "final"}
        /\ \E p \in Packages \ appliers[a].looked : ~Compatible(p)
    \/ In(a, "push") /\ \E p \in appliers[a].tags : remoteTag[p] # "absent"
    \/ In(a, "recheck") /\ \E p \in Packages : ~TagCompatible(p)
    \/ In(a, "releases") /\ appliers[a].rels # {} /\ release[Min(appliers[a].rels)] # "absent"
    \/ In(a, "final") /\ appliers[a].looked = Packages /\ appliers[a].tags # {}
    \/ In(a, "await") /\ \E p \in appliers[a].rels : Listed(p) = "draft"

StopApplier(a) ==
    /\ appliers[a].pc \notin {"done", "stopped"}
    /\ \/ Refused(a) /\ UNCHANGED failures
       \/ failures < MaxFailures /\ failures' = failures + 1
    /\ appliers' = [appliers EXCEPT ![a] = [Fresh EXCEPT !.pc = "stopped"]]
    /\ Rest /\ UNCHANGED <<remoteTag, release, local>>

(* main again, in the same clone or a new one.                              *)
Rerun(a) ==
    /\ In(a, "stopped")
    /\ appliers' = [appliers EXCEPT ![a] = Fresh]
    /\ \E kept \in {local[a], {}} : local' = [local EXCEPT ![a] = kept]
    /\ Rest /\ UNCHANGED <<remoteTag, release, failures>>

-----------------------------------------------------------------------------
(* GitHub and its users.                                                    *)

List(p) ==
    /\ release[p] = "unlisted"
    /\ release' = [release EXCEPT ![p] = "present"]
    /\ UNCHANGED <<rcVars, remoteTag, local, appliers, failures, meddled>>

(* Somebody else tags the commit, rightly or not, drafts a release, or      *)
(* publishes the one that belongs to a tag.                                 *)
Meddle(p) ==
    /\ meddled < MaxMeddling /\ meddled' = meddled + 1
    /\ \/ /\ remoteTag[p] = "absent"
          /\ \E kind \in {"annotated", "lightweight"} :
                remoteTag' = [remoteTag EXCEPT ![p] = kind]
          /\ UNCHANGED release
       \/ /\ release[p] = "absent"
          /\ \/ release' = [release EXCEPT ![p] = "draft"]
             \/ /\ remoteTag[p] = "annotated" /\ registry[p] \in Jobs
                /\ release' = [release EXCEPT ![p] = "unlisted"]
          /\ UNCHANGED remoteTag
    /\ UNCHANGED <<rcVars, local, appliers, failures>>

ApplierStep(a) ==
    \/ AwaitNpm(a) \/ (\E p \in Packages : Read(a, p)) \/ PassRead(a) \/ CreateLocalTag(a)
    \/ PushTags(a) \/ Recheck(a) \/ CreateRelease(a) \/ AwaitReleases(a) \/ StopApplier(a)

TagsNext ==
    \/ RcNext /\ UNCHANGED tagVars
    \/ \E a \in Appliers : ApplierStep(a) \/ Rerun(a)
    \/ \E p \in Packages : List(p) \/ Meddle(p)

TagsSpec == TagsInit /\ [][TagsNext]_vars

(* Reads and writes end, the registry and GitHub show what they hold, and   *)
(* somebody runs a stopped applier again.                                   *)
FairTagsSpec ==
    /\ TagsSpec
    /\ \A a \in Appliers : WF_vars(ApplierStep(a)) /\ WF_vars(Rerun(a))
    /\ \A p \in Packages : WF_vars(List(p)) /\ WF_vars(Show(p) /\ UNCHANGED tagVars)

-----------------------------------------------------------------------------
(* Properties.                                                              *)

(* Whatever fails, is run again or is tagged by others meanwhile, an applier*)
(* that adds tags leaves no candidate without one, and what others tagged   *)
(* stays as it was (apply.ts:66).                                           *)
TagsTogether ==
    [][(remoteTag' # remoteTag /\ meddled' = meddled)
        => \A p \in Packages : /\ remoteTag'[p] # "absent"
                               /\ remoteTag[p] # "absent" => remoteTag'[p] = remoteTag[p]]_vars

(* No release exists, listed or not, without an annotated tag at the commit *)
(* whose package is on npm from these workflows: the order of applyPlan     *)
(* survives reruns and lost answers.                                        *)
ReleasesAreBacked ==
    \A p \in Packages : release[p] \in {"unlisted", "present"}
        => remoteTag[p] = "annotated" /\ registry[p] \in Jobs

(* When npm has every package with its commit, reruns bring every release   *)
(* into being, unless somebody has taken a tag or a release in another form:*)
(* what an applier that failed halfway left behind never blocks the next.   *)
Taken(p) == remoteTag[p] = "lightweight" \/ release[p] = "draft"

ReleaseConverges ==
    (\A p \in Packages : registry[p] \in Jobs /\ p \in headed)
        ~> ((\A p \in Packages : release[p] = "present") \/ \E p \in Packages : Taken(p))
=============================================================================
